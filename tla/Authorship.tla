----------------------------- MODULE Authorship -----------------------------
(***************************************************************************)
(* The authorship ledger that every document carries, and Authorship_p.hpp,*)
(* which stores it in metadata and in markup.                              *)
(*                                                                         *)
(* The ledger is iiFileProvider's and modelled from its use: it counts     *)
(* changes, names the author of the last one, and knows an active author   *)
(* that its dump leaves out.                                               *)
(***************************************************************************)
EXTENDS Integers, Sequences, Functions

CONSTANT Unattributed \* what a change with no active author is attributed to

-----------------------------------------------------------------------------
(* Authorship: the ledger and its dump. *)

MetadataKey == "iisacc:authorship"

EmptyLedger == [revision |-> 0, last |-> Unattributed, active |-> Unattributed]

isEmpty(ledger) == ledger.revision = 0

dump(ledger) == [revision |-> ledger.revision, last |-> ledger.last]

(* What fromDump refuses; a ledger that is not empty never dumps to it.    *)
UnreadableDump == [revision |-> 0, last |-> Unattributed]

fromDump(d) == [revision |-> d.revision, last |-> d.last, active |-> Unattributed]

changeRecorded(ledger) ==
  [ledger EXCEPT !.revision = @ + 1, !.last = ledger.active]

(* Selecting the profile recorded last only makes it active. *)
authorSet(ledger, author) ==
  IF ledger.last = author /\ ~isEmpty(ledger)
    THEN [ledger EXCEPT !.active = author]
    ELSE [revision |-> ledger.revision + 1, last |-> author, active |-> author]

\* Mutant: an empty ledger leaves the reserved key as it is.
StoreWithoutErase(ledger, metadata) ==
  IF isEmpty(ledger) THEN metadata
  ELSE [k \in DOMAIN metadata \cup {MetadataKey} |->
          IF k = MetadataKey THEN dump(ledger) ELSE metadata[k]]

storeAuthorship(ledger, metadata) ==
  IF isEmpty(ledger) THEN Restrict(metadata, DOMAIN metadata \ {MetadataKey})
  ELSE [k \in DOMAIN metadata \cup {MetadataKey} |->
          IF k = MetadataKey THEN dump(ledger) ELSE metadata[k]]

(* readAuthorship throws unless this holds. *)
AuthorshipReadable(metadata) ==
  MetadataKey \in DOMAIN metadata => metadata[MetadataKey] # UnreadableDump

readAuthorship(metadata) ==
  IF MetadataKey \in DOMAIN metadata THEN fromDump(metadata[MetadataKey])
  ELSE EmptyLedger

-----------------------------------------------------------------------------
(* The markup envelope: a comment that holds the dump, at the end. *)

AuthorshipComment(d) == [kind |-> "authorship comment", dump |-> d]

Comments(html) == {i \in 1..Len(html) : html[i].kind = "authorship comment"}

markupBytes(html, ledger) ==
  IF isEmpty(ledger) THEN html ELSE Append(html, AuthorshipComment(dump(ledger)))

(* readMarkup throws unless this holds: at most one comment, nothing after *)
(* it, and a dump inside that reads.                                       *)
MarkupReadable(bytes) ==
  \A i \in Comments(bytes) : i = Len(bytes) /\ bytes[i].dump # UnreadableDump

MarkupBody(bytes) ==
  IF Comments(bytes) = {} THEN bytes ELSE SubSeq(bytes, 1, Len(bytes) - 1)

MarkupLedger(bytes) ==
  IF Comments(bytes) = {} THEN EmptyLedger ELSE fromDump(bytes[Len(bytes)].dump)
=============================================================================
