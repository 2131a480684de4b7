---------------------------- MODULE MarkupEditors ----------------------------
(***************************************************************************)
(* The two editors of marked-up sources.  They share nothing, so in a      *)
(* behaviour only one of them edits its document; the other's is as it was *)
(* created.                                                                *)
(***************************************************************************)
EXTENDS HtmlBlocks

CONSTANTS
  XmlSource,     \* sources an XML document may be created from
  XmlFragment,   \* fragments handed to its create and update
  XmlMaxId,      \* its largest id, 2^64 - 1 in the code
  XmlMaxRevision \* its largest revision, 2^64 - 1 in the code

VARIABLES
  tree,     \* the XML document
  treeMarks \* the edit that wrote each of its tokens, and its place (history)

Xml == INSTANCE XmlTree
  WITH Source <- XmlSource, Fragment <- XmlFragment, MaxId <- XmlMaxId,
       MaxRevision <- XmlMaxRevision, marks <- treeMarks

ASSUME XmlSourcesAssumption == Xml!XmlAssumption

editorVars == <<vars, tree, treeMarks>>

(* The document whose editor is not used. *)
IdleHtml == document = fromHtml(<<>>)
IdleXml == tree = Xml!fromXml(<<[kind |-> "void", tag |-> "a"]>>)

EditorsInit ==
  /\ Init /\ Xml!Init
  /\ IdleHtml \/ IdleXml

EditHtml == IdleXml /\ Next /\ UNCHANGED <<tree, treeMarks>>

EditXml == IdleHtml /\ Xml!Next /\ UNCHANGED vars

EditorsSpec == EditorsInit /\ [][EditHtml \/ EditXml]_editorVars

-----------------------------------------------------------------------------
(* The type invariants of both documents: blocks and nodes are where their *)
(* sources have them, with unique ids the counters have passed.            *)
DocumentsOK == TypeOK /\ Xml!TypeOK

(* No edit fails that should succeed: one of an HTML block fails only for  *)
(* cutting through another block, one of an XML element never, but for     *)
(* exhausted counters; and a saved tree loads again while it has a root.   *)
EditsAreNotRefused == OnlyCrossingsAreRefused /\ Xml!NoElementIsRefused

(* XmlTree's NodesKeepTheirPlace: an id stands for the same element, under *)
(* the same parent, with its remaining children in order.                  *)
NodesKeepTheirPlace == Xml!NodesKeepTheirPlace
=============================================================================
