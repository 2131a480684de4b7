------------------------------- MODULE Markup -------------------------------
(***************************************************************************)
(* iiXml's pairing of tags, modelled from the use that the HTML and XML    *)
(* documents make of it.  A source is a sequence of tokens, each one byte  *)
(* wide: opening, closing and self-closing tags, and anything else.  A     *)
(* closing tag belongs to the nearest open tag of its name, so that the    *)
(* ranges of elements may overlap without nesting.                         *)
(***************************************************************************)
EXTENDS Naturals, FiniteSetsExt, Sequences

Positions(source, kind) == {i \in 1..Len(source) : source[i].kind = kind}

(* The positions where the tags of i's name, from i on, leave none open.   *)
Balanced(source, i) ==
  LET tags(kind, k) ==
        {n \in i..k : source[n].kind = kind /\ source[n].tag = source[i].tag}
  IN {k \in i + 1..Len(source) :
        Cardinality(tags("open", k)) = Cardinality(tags("close", k))}

(* Every opening tag is closed, and each closing tag closes one.           *)
TagsPair(source) ==
  /\ \A i \in Positions(source, "open") : Balanced(source, i) # {}
  /\ Cardinality(Positions(source, "open")) = Cardinality(Positions(source, "close"))

(* The positions where elements begin, and the n-th of them.               *)
Starts(source) == Positions(source, "open") \cup Positions(source, "void")

nth(S, n) == CHOOSE i \in S : Cardinality(S \cap 1..i) = n

startOf(source, n) == nth(Starts(source), n)

(* The position where the element that begins at i ends: a self-closing    *)
(* tag where it stands, another at the first tag that leaves none open.    *)
endOf(source, i) ==
  IF source[i].kind = "void" THEN i ELSE Min(Balanced(source, i))
=============================================================================
