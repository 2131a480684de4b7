--------------------------- MODULE MCMarkupEditors ---------------------------
(***************************************************************************)
(* Checks the two editors of marked-up sources.                            *)
(* HTML: sources with nested, self-closing and crossing blocks of two      *)
(* names, and fragments that are one block, or are not.                    *)
(* XML: sources with and without a prolog, misplaced declarations,         *)
(* crossing elements and content outside the root among them, and          *)
(* fragments with white space, a comment or a crossing.                    *)
(***************************************************************************)
EXTENDS MarkupEditors

Open(tag) == [kind |-> "open", tag |-> tag]
Close(tag) == [kind |-> "close", tag |-> tag]
Void(tag) == [kind |-> "void", tag |-> tag]
Other(kind) == [kind |-> kind, tag |-> "none"]
Text == Other("text")

MCSource ==
  {<<>>,
   <<Open("a"), Open("b"), Text, Close("b"), Void("b"), Close("a")>>,
   <<Open("b"), Open("a"), Close("b"), Open("b"), Close("a"), Close("b")>>,
   <<Open("a"), Open("a"), Open("b"), Close("a"), Close("a"), Close("b")>>,
   <<Open("a"), Close("b")>>}

MCFragment ==
  {<<Void("a")>>,
   <<Open("b"), Close("b")>>,
   <<Open("a"), Text, Open("b"), Close("b"), Close("a")>>,
   <<Open("a"), Open("b"), Close("a"), Close("b")>>,
   <<Open("a"), Close("a"), Text>>}

MCXmlSource ==
  {<<Void("a")>>,
   <<Other("declaration"), Other("comment"), Other("doctype"), Open("a"), Open("b"),
     Text, Close("b"), Void("b"), Close("a"), Other("pi")>>,
   <<Other("space"), Open("b"), Open("a"), Open("b"), Close("a"), Close("b"), Close("b")>>,
   <<Other("doctype"), Other("declaration"), Void("a")>>,
   <<Void("a"), Other("declaration")>>,
   <<Void("a"), Void("b")>>,
   <<Other("declaration")>>}

MCXmlFragment ==
  {<<Other("space"), Void("a"), Other("space")>>,
   <<Open("b"), Text, Void("a"), Close("b")>>,
   <<Other("comment"), Void("a")>>,
   <<Open("a"), Open("b"), Close("a"), Close("b")>>,
   <<Other("space")>>}
=============================================================================
