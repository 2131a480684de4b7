------------------------------ MODULE WordSave ------------------------------
(***************************************************************************)
(* WordDocumentWriter::write, called by several writers on one destination *)
(* path.  The package formats stage a file beside the destination, read it *)
(* back and rename it over the destination; .doc goes through LibreOffice  *)
(* and is read back from the destination itself.                           *)
(*                                                                         *)
(* The file provider is modelled from its use: publish and File::write     *)
(* replace the destination in one step or fail and leave it.  A file is    *)
(* sound if the library can read it back.  Zip, XML and LibreOffice may    *)
(* produce files of either kind.                                           *)
(***************************************************************************)
EXTENDS Sequences, Naturals

CONSTANTS
  Writer,   \* calls of write()
  Formats,  \* the formats the destination's extension may select
  Nobody    \* owner of the file that was there before

VARIABLES
  format,       \* the format all calls write, as they share the path
  destination,  \* the file at the path, or Absent
  directory,    \* whether the destination's directory exists
  step,         \* how far each call has come in its plan
  made,         \* the file each call has staged or converted, or NoFile
  reopened,     \* the file a .doc call got from converting back, or NoFile
  outcome       \* what has become of each call

vars == <<format, destination, directory, step, made, reopened, outcome>>

Absent == [none |-> "absent"]
NoFile == [none |-> "no file"]
OldFile == [owner |-> Nobody, sound |-> TRUE]
File == [owner : Writer, sound : BOOLEAN]

(* What each format does, in order.  The second check is DOCX's of the     *)
(* part sizes and FODT's of the generated XML.                             *)
Plan ==
  [docx |-> <<"check", "directory", "check", "stage", "write", "validate", "publish">>,
   odt |-> <<"directory", "check", "stage", "write", "validate", "publish">>,
   fodt |-> <<"directory", "check", "check", "stage", "write", "validate", "publish">>,
   doc |-> <<"bridge", "convert", "replace", "convertBack", "reopen">>]

(* The extension selects one of these formats, and no call owns the file   *)
(* that was there before.                                                  *)
ASSUME SaveAssumption == Formats \subseteq DOMAIN Plan /\ Nobody \notin Writer

Init ==
  /\ format \in Formats
  /\ directory \in BOOLEAN
  /\ destination \in {Absent} \cup (IF directory THEN {OldFile} ELSE {})
  /\ step = [w \in Writer |-> 1]
  /\ made = [w \in Writer |-> NoFile]
  /\ reopened = [w \in Writer |-> NoFile]
  /\ outcome = [w \in Writer |-> "idle"]

-----------------------------------------------------------------------------
At(w, name) ==
  outcome[w] = "saving" /\ Plan[format][step[w]] = name

Advance(w) == step' = [step EXCEPT ![w] = @ + 1]

OutcomeBecomes(w, new) == outcome' = [outcome EXCEPT ![w] = new]

Begin(w) ==
  /\ outcome[w] = "idle"
  /\ OutcomeBecomes(w, "saving")
  /\ UNCHANGED <<format, destination, directory, step, made, reopened>>

(* The document, the options and the generated parts pass; the bridge of a *)
(* .doc is a DOCX saved the same way in a directory of its own.            *)
Check(w) ==
  /\ At(w, "check") \/ At(w, "bridge")
  /\ Advance(w)
  /\ UNCHANGED <<format, destination, directory, made, reopened, outcome>>

CreateDirectory(w) ==
  /\ At(w, "directory")
  /\ directory' = TRUE
  /\ Advance(w)
  /\ UNCHANGED <<format, destination, made, reopened, outcome>>

Stage(w) ==
  /\ At(w, "stage")
  /\ directory
  /\ Advance(w)
  /\ UNCHANGED <<format, destination, directory, made, reopened, outcome>>

(* The package is written to the staged file, or LibreOffice converts the  *)
(* bridge.                                                                 *)
Generate(w) ==
  /\ At(w, "write") \/ At(w, "convert")
  /\ \E sound \in BOOLEAN :
       made' = [made EXCEPT ![w] = [owner |-> w, sound |-> sound]]
  /\ Advance(w)
  /\ UNCHANGED <<format, destination, directory, reopened, outcome>>

\* Mutant: errors of the validating read are not looked at.
ValidateIgnoringErrors(w) ==
  /\ At(w, "validate")
  /\ Advance(w)
  /\ UNCHANGED <<format, destination, directory, made, reopened, outcome>>

Validate(w) ==
  /\ At(w, "validate")
  /\ made[w].sound
  /\ Advance(w)
  /\ UNCHANGED <<format, destination, directory, made, reopened, outcome>>

\* Mutant: source and destination of the publication are swapped.
PublishSwapped(w) ==
  /\ At(w, "publish")
  /\ made' = [made EXCEPT ![w] = destination]
  /\ OutcomeBecomes(w, "published")
  /\ UNCHANGED <<format, destination, directory, step, reopened>>

Publish(w) ==
  /\ At(w, "publish")
  /\ destination' = made[w]
  /\ OutcomeBecomes(w, "published")
  /\ UNCHANGED <<format, directory, step, made, reopened>>

(* convertWordFile writes the converted file over the destination.         *)
Replace(w) ==
  /\ At(w, "replace")
  /\ destination' = made[w]
  /\ directory' = TRUE
  /\ Advance(w)
  /\ UNCHANGED <<format, made, reopened, outcome>>

(* The file now at the destination, whoever wrote it, is converted back.   *)
ConvertBack(w) ==
  /\ At(w, "convertBack")
  /\ reopened' = [reopened EXCEPT ![w] = destination]
  /\ Advance(w)
  /\ UNCHANGED <<format, destination, directory, made, outcome>>

\* Mutant: errors of the read of the reopened file are not looked at.
ReopenIgnoringErrors(w) ==
  /\ At(w, "reopen")
  /\ OutcomeBecomes(w, "published")
  /\ UNCHANGED <<format, destination, directory, step, made, reopened>>

Reopen(w) ==
  /\ At(w, "reopen")
  /\ reopened[w].sound
  /\ OutcomeBecomes(w, "published")
  /\ UNCHANGED <<format, destination, directory, step, made, reopened>>

Succeed(w) ==
  /\ outcome[w] = "published"
  /\ OutcomeBecomes(w, "success")
  /\ UNCHANGED <<format, destination, directory, step, made, reopened>>

(* Every step may fail, a validation also of a sound file; the staged file *)
(* is removed with its handle.                                             *)
Fail(w) ==
  /\ outcome[w] = "saving"
  /\ OutcomeBecomes(w, "failure")
  /\ UNCHANGED <<format, destination, directory, step, made, reopened>>

(* The process ends in the middle of the call. *)
Crash(w) ==
  /\ outcome[w] \in {"saving", "published"}
  /\ OutcomeBecomes(w, "crashed")
  /\ UNCHANGED <<format, destination, directory, step, made, reopened>>

Next ==
  \E w \in Writer :
    \/ Begin(w)
    \/ Check(w)
    \/ CreateDirectory(w)
    \/ Stage(w)
    \/ Generate(w)
    \/ Validate(w)
    \/ Publish(w)
    \/ Replace(w)
    \/ ConvertBack(w)
    \/ Reopen(w)
    \/ Succeed(w)
    \/ Fail(w)
    \/ Crash(w)

Spec == Init /\ [][Next]_vars

-----------------------------------------------------------------------------
(* The destination is a file that was completed, the old one, or absent.   *)
TypeOK ==
  /\ destination \in File \cup {Absent, OldFile}
  /\ format \in Formats
  /\ directory \in BOOLEAN
  /\ \A w \in Writer : step[w] \in 1..Len(Plan[format])
  /\ made \in [Writer -> File \cup {NoFile}]
  /\ reopened \in [Writer -> File \cup {NoFile, Absent, OldFile}]
  /\ outcome \in [Writer -> {"idle", "saving", "published", "success",
                             "failure", "crashed"}]

(* Saves of package formats, however they interleave, fail and crash, keep *)
(* the promise of AtomicSave.                                              *)
Promise ==
  INSTANCE AtomicSave WITH Save <- Writer, Initial <- {Absent, OldFile},
                           target <- destination

SavesAtomically ==
  /\ format # "doc" => Promise!Init
  /\ [][format # "doc" => Promise!Next \/ UNCHANGED Promise!vars]_vars

(* A file whose writer has reported success can be read: a .doc too, for   *)
(* all that it is checked only after it has replaced the destination.      *)
SuccessfulSaveIsReadable ==
  destination \in File =>
    (outcome[destination.owner] = "success" => destination.sound)

(* The destination never holds a file that cannot be read back.            *)
DestinationIsOldOrValidated == destination # Absent => destination.sound
=============================================================================
