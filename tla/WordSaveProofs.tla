--------------------------- MODULE WordSaveProofs ---------------------------
(***************************************************************************)
(* Saves to one destination, for any number of calls: what the package     *)
(* formats promise is the abstract save, step by step, and a .doc save     *)
(* that reports success has left a file that can be read back.             *)
(***************************************************************************)
EXTENDS WordSave, TLAPS

(* The plans of the package formats end with "write", "validate" and       *)
(* "publish"; the others are only in the plan of .doc.                     *)
Last == Len(Plan[format])

Own(w) == made[w] \in File /\ made[w].owner = w

(* A file comes to the destination of a package format only validated. *)
PackageSaves ==
  format # "doc" =>
    /\ destination # Absent => destination.sound
    /\ \A w \in Writer :
         /\ step[w] \in Last - 1..Last => Own(w)
         /\ step[w] = Last => made[w].sound

(* A .doc call that still owns the destination has converted back its own  *)
(* file: it replaces the destination once, and before it converts back.    *)
LegacySaves ==
  format = "doc" =>
    \A w \in Writer :
      /\ step[w] \in 3..5 => Own(w)
      /\ outcome[w] \in {"published", "success"} => step[w] = 5 /\ reopened[w].sound
      /\ (destination \in File /\ destination.owner = w) =>
           /\ step[w] \in 4..5
           /\ destination = made[w]
           /\ step[w] = 5 => reopened[w] = destination

IInv ==
  /\ TypeOK
  /\ step \in [Writer -> 1..Last]
  /\ PackageSaves
  /\ LegacySaves

-----------------------------------------------------------------------------
(* Where each step stands in its plan. *)
LEMMA PlanLengths ==
  ASSUME format \in Formats
  PROVE  Last \in 5..7
<1>1. format \in {"docx", "odt", "fodt", "doc"}
  BY SaveAssumption DEF Plan
<1>2. CASE format = "docx"
  BY <1>2 DEF Last, Plan
<1>3. CASE format = "odt"
  BY <1>3 DEF Last, Plan
<1>4. CASE format = "fodt"
  BY <1>4 DEF Last, Plan
<1>5. CASE format = "doc"
  BY <1>5 DEF Last, Plan
<1> QED BY <1>1, <1>2, <1>3, <1>4, <1>5

(* Where in a plan its steps are.                                          *)
LEMMA Plans ==
  ASSUME format \in Formats, NEW n \in 1..Last
  PROVE  /\ Last \in 5..7
         /\ format # "doc" =>
              /\ Plan[format][n] = "write" => n = Last - 2
              /\ Plan[format][n] = "validate" => n = Last - 1
              /\ Plan[format][n] = "publish" => n = Last
              /\ n = Last - 2 => Plan[format][n] = "write"
              /\ n = Last - 1 => Plan[format][n] = "validate"
              /\ n = Last => Plan[format][n] = "publish"
              /\ Plan[format][n] \notin {"convert", "replace", "convertBack", "reopen"}
         /\ format = "doc" =>
              /\ Last = 5
              /\ Plan[format] = <<"bridge", "convert", "replace", "convertBack", "reopen">>
<1>1. format \in {"docx", "odt", "fodt", "doc"}
  BY SaveAssumption DEF Plan
<1>2. CASE format = "docx"
  <2>1. Plan[format] = <<"check", "directory", "check", "stage", "write", "validate",
                         "publish">> /\ Last = 7
    BY <1>2 DEF Plan, Last
  <2>2. n \in {1, 2, 3, 4, 5, 6, 7}
    BY <2>1
  <2> QED BY <1>2, <2>1, <2>2
<1>3. CASE format = "odt"
  <2>1. Plan[format] = <<"directory", "check", "stage", "write", "validate", "publish">>
        /\ Last = 6
    BY <1>3 DEF Plan, Last
  <2>2. n \in {1, 2, 3, 4, 5, 6}
    BY <2>1
  <2> QED BY <1>3, <2>1, <2>2
<1>4. CASE format = "fodt"
  <2>1. Plan[format] = <<"directory", "check", "check", "stage", "write", "validate",
                         "publish">> /\ Last = 7
    BY <1>4 DEF Plan, Last
  <2>2. n \in {1, 2, 3, 4, 5, 6, 7}
    BY <2>1
  <2> QED BY <1>4, <2>1, <2>2
<1>5. CASE format = "doc"
  BY <1>5 DEF Plan, Last
<1> QED BY <1>1, <1>2, <1>3, <1>4, <1>5

(* What a call is about to do, in each of the two kinds of plan. *)
LEMMA Places ==
  ASSUME IInv, NEW w \in Writer, NEW name, At(w, name)
  PROVE  /\ outcome[w] = "saving" /\ step[w] \in 1..Last
         /\ format # "doc" =>
              /\ name = "write" <=> step[w] = Last - 2
              /\ name = "validate" <=> step[w] = Last - 1
              /\ name = "publish" <=> step[w] = Last
              /\ name \notin {"convert", "replace", "convertBack", "reopen"}
         /\ format = "doc" =>
              /\ name = "bridge" <=> step[w] = 1
              /\ name = "convert" <=> step[w] = 2
              /\ name = "replace" <=> step[w] = 3
              /\ name = "convertBack" <=> step[w] = 4
              /\ name = "reopen" <=> step[w] = 5
              /\ Last = 5
<1>1. step[w] \in 1..Last /\ format \in Formats
  BY DEF IInv, TypeOK
<1>2. outcome[w] = "saving" /\ Plan[format][step[w]] = name
  BY DEF At
<1>3. CASE format # "doc"
  BY <1>1, <1>2, <1>3, Plans
<1>4. CASE format = "doc"
  <2>1. Last = 5
        /\ Plan[format] = <<"bridge", "convert", "replace", "convertBack", "reopen">>
    BY <1>1, <1>4, Plans
  <2>2. step[w] \in {1, 2, 3, 4, 5}
    BY <1>1, <2>1
  <2> QED BY <1>1, <1>2, <1>4, <2>1, <2>2
<1> QED BY <1>3, <1>4

(* Advancing takes one writer one step further.                            *)
LEMMA Advances ==
  ASSUME IInv, NEW w \in Writer, step[w] # Last, Advance(w), UNCHANGED format
  PROVE  /\ step' \in [Writer -> 1..Last] /\ UNCHANGED Last
         /\ \A v \in Writer : step'[v] \in 1..Len(Plan[format])
         /\ step'[w] = step[w] + 1
         /\ \A v \in Writer \ {w} : step'[v] = step[v]
<1>1. step \in [Writer -> 1..Last] /\ step[w] \in 1..Last /\ format \in Formats
  BY DEF IInv, TypeOK
<1>2. Last \in 5..7
  BY <1>1, Plans
<1>3. step[w] + 1 \in 1..Last
  BY <1>1, <1>2
<1>4. step' = [step EXCEPT ![w] = @ + 1]
  BY DEF Advance
<1>5. step' \in [Writer -> 1..Last]
  BY <1>1, <1>3, <1>4
<1>6. UNCHANGED Last
  BY DEF Last
<1> QED BY <1>1, <1>4, <1>5, <1>6 DEF Last

-----------------------------------------------------------------------------
(* Every action keeps the inductive invariant. *)

(* Steps that only change what has become of a call. *)
LEMMA OutcomeKeeps ==
  ASSUME IInv, NEW w \in Writer, Begin(w) \/ Reopen(w) \/ Succeed(w) \/ Fail(w) \/ Crash(w)
  PROVE  IInv'
<1>1. UNCHANGED <<format, destination, directory, step, made, reopened>>
  BY DEF Begin, Reopen, Succeed, Fail, Crash
<1>2. outcome' \in [Writer -> {"idle", "saving", "published", "success", "failure",
                              "crashed"}]
  BY DEF IInv, TypeOK, Begin, Reopen, Succeed, Fail, Crash, OutcomeBecomes
<1>3. TypeOK' /\ step' \in [Writer -> 1..Last'] /\ PackageSaves'
  BY <1>1, <1>2 DEF IInv, TypeOK, PackageSaves, Last, Own
<1>4. \A v \in Writer : (format = "doc" /\ outcome'[v] \in {"published", "success"}) =>
        step[v] = 5 /\ reopened[v].sound
  <2> SUFFICES ASSUME NEW v \in Writer, format = "doc",
                      outcome'[v] \in {"published", "success"}
               PROVE  step[v] = 5 /\ reopened[v].sound
    OBVIOUS
  <2>1. CASE outcome[v] \in {"published", "success"}
    BY <2>1 DEF IInv, LegacySaves
  <2>2. CASE outcome[v] \notin {"published", "success"}
    <3>1. v = w /\ Reopen(w)
      BY <2>2 DEF IInv, TypeOK, Begin, Reopen, Succeed, Fail, Crash, OutcomeBecomes
    <3> QED BY <3>1, Places DEF Reopen
  <2> QED BY <2>1, <2>2
<1>5. LegacySaves'
  BY <1>1, <1>4 DEF IInv, LegacySaves, Own
<1> QED BY <1>3, <1>5 DEF IInv

(* Steps that only advance a call towards its file. *)
LEMMA PreparationKeeps ==
  ASSUME IInv, NEW w \in Writer, Check(w) \/ CreateDirectory(w) \/ Stage(w)
  PROVE  IInv'
<1>1. /\ Advance(w) /\ UNCHANGED <<format, destination, made, reopened, outcome>>
      /\ directory' \in BOOLEAN
  BY DEF IInv, TypeOK, Check, CreateDirectory, Stage
<1>2. /\ outcome[w] = "saving" /\ step[w] \in 1..Last
      /\ format # "doc" => step[w] \notin Last - 2..Last
      /\ format = "doc" => step[w] = 1 /\ Last = 5
  <2>1. PICK name \in {"check", "bridge", "directory", "stage"} : At(w, name)
    BY DEF Check, CreateDirectory, Stage
  <2>2. Last \in 5..7
    BY Plans, Places, <2>1 DEF IInv, TypeOK
  <2>3. CASE format # "doc"
    BY <2>1, <2>2, <2>3, Places
  <2>4. CASE format = "doc"
    <3>1. step[w] \in 1..5 /\ step[w] \notin {2, 3, 4, 5}
      BY <2>1, <2>4, Places
    <3> QED BY <2>1, <2>4, <3>1, Places
  <2> QED BY <2>1, <2>3, <2>4, Places
<1>3. Last \in 5..7
  BY Plans, <1>2 DEF IInv, TypeOK
<1>4. step[w] # Last
  BY <1>2, <1>3
<1>5. /\ step' \in [Writer -> 1..Last] /\ Last' = Last
      /\ \A v \in Writer : step'[v] \in 1..Len(Plan[format])
      /\ step'[w] = step[w] + 1
      /\ \A v \in Writer \ {w} : step'[v] = step[v]
  BY <1>1, <1>4, Advances
<1>6. TypeOK' /\ step' \in [Writer -> 1..Last']
  BY <1>1, <1>5 DEF IInv, TypeOK
<1>7. PackageSaves'
  <2> SUFFICES ASSUME format # "doc"
               PROVE  /\ destination # Absent => destination.sound
                      /\ \A v \in Writer : /\ step'[v] \in Last - 1..Last => Own(v)
                                           /\ step'[v] = Last => made[v].sound
    BY <1>1, <1>5 DEF PackageSaves, Own
  <2>1. step'[w] \notin Last - 1..Last
    BY <1>2, <1>3, <1>5
  <2>2. step'[w] # Last
    BY <1>3, <2>1
  <2> QED BY <1>5, <2>1, <2>2 DEF IInv, PackageSaves
<1>8. LegacySaves'
  <2> SUFFICES ASSUME format = "doc", NEW v \in Writer
               PROVE  /\ step'[v] \in 3..5 => Own(v)
                      /\ outcome[v] \in {"published", "success"} =>
                           step'[v] = 5 /\ reopened[v].sound
                      /\ (destination \in File /\ destination.owner = v) =>
                           /\ step'[v] \in 4..5
                           /\ destination = made[v]
                           /\ step'[v] = 5 => reopened[v] = destination
    BY <1>1 DEF LegacySaves, Own
  <2>1. CASE v = w
    <3>1. step[w] = 1 /\ step'[w] = 2
      BY <1>2, <1>5
    <3> QED BY <1>2, <2>1, <3>1 DEF IInv, LegacySaves
  <2>2. CASE v # w
    BY <1>5, <2>2 DEF IInv, LegacySaves
  <2> QED BY <2>1, <2>2
<1> QED BY <1>6, <1>7, <1>8 DEF IInv

(* A call makes its own file, which nobody has seen yet. *)
LEMMA GenerateKeeps ==
  ASSUME IInv, NEW w \in Writer, Generate(w)
  PROVE  IInv'
<1>1. PICK sound \in BOOLEAN : made' = [made EXCEPT ![w] = [owner |-> w, sound |-> sound]]
  BY DEF Generate
<1>2. Advance(w) /\ UNCHANGED <<format, destination, directory, reopened, outcome>>
  BY DEF Generate
<1>3. /\ outcome[w] = "saving" /\ step[w] \in 1..Last
      /\ format # "doc" => step[w] = Last - 2
      /\ format = "doc" => step[w] = 2 /\ Last = 5
  <2>1. PICK name \in {"write", "convert"} : At(w, name)
    BY DEF Generate
  <2>2. CASE format # "doc"
    BY <2>1, <2>2, Places
  <2>3. CASE format = "doc"
    <3>1. CASE name = "convert"
      BY <2>1, <2>3, <3>1, Places
    <3>2. CASE name = "write"
      <4>1. step[w] \in 1..5 /\ step[w] \notin {1, 2, 3, 4, 5}
        BY <2>1, <2>3, <3>2, Places
      <4> QED BY <4>1
    <3> QED BY <3>1, <3>2
  <2> QED BY <2>1, <2>2, <2>3, Places
<1>4. Last \in 5..7
  BY Plans, <1>3 DEF IInv, TypeOK
<1>5. step[w] # Last
  BY <1>3, <1>4
<1>6. /\ step' \in [Writer -> 1..Last] /\ Last' = Last
      /\ \A v \in Writer : step'[v] \in 1..Len(Plan[format])
      /\ step'[w] = step[w] + 1
      /\ \A v \in Writer \ {w} : step'[v] = step[v]
  BY <1>2, <1>5, Advances
<1>7. /\ made' \in [Writer -> File \cup {NoFile}]
      /\ made'[w] \in File /\ made'[w].owner = w
      /\ \A v \in Writer \ {w} : made'[v] = made[v]
  BY <1>1 DEF IInv, TypeOK, File
<1>8. TypeOK' /\ step' \in [Writer -> 1..Last']
  BY <1>2, <1>6, <1>7 DEF IInv, TypeOK
<1>9. PackageSaves'
  <2> SUFFICES ASSUME format # "doc"
               PROVE  /\ destination # Absent => destination.sound
                      /\ \A v \in Writer : /\ step'[v] \in Last - 1..Last => Own(v)'
                                           /\ step'[v] = Last => made'[v].sound
    BY <1>2, <1>6 DEF PackageSaves
  <2>1. Own(w)' /\ step'[w] # Last
    BY <1>3, <1>4, <1>6, <1>7 DEF Own
  <2>2. ASSUME NEW v \in Writer \ {w}
        PROVE  /\ step'[v] \in Last - 1..Last => Own(v)'
               /\ step'[v] = Last => made'[v].sound
    BY <1>6, <1>7, <2>2 DEF IInv, PackageSaves, Own
  <2> QED BY <2>1, <2>2 DEF IInv, PackageSaves
<1>10. LegacySaves'
  <2> SUFFICES ASSUME format = "doc", NEW v \in Writer
               PROVE  /\ step'[v] \in 3..5 => Own(v)'
                      /\ outcome[v] \in {"published", "success"} =>
                           step'[v] = 5 /\ reopened[v].sound
                      /\ (destination \in File /\ destination.owner = v) =>
                           /\ step'[v] \in 4..5
                           /\ destination = made'[v]
                           /\ step'[v] = 5 => reopened[v] = destination
    BY <1>2 DEF LegacySaves
  <2>1. CASE v = w
    <3>1. step[w] = 2 /\ Own(w)'
      BY <1>3, <1>7 DEF Own
    <3> QED BY <1>3, <2>1, <3>1 DEF IInv, LegacySaves
  <2>2. CASE v # w
    BY <1>6, <1>7, <2>2 DEF IInv, LegacySaves, Own
  <2> QED BY <2>1, <2>2
<1> QED BY <1>8, <1>9, <1>10 DEF IInv

(* Validating the written file keeps the invariant.                        *)
LEMMA ValidateKeeps ==
  ASSUME IInv, NEW w \in Writer, Validate(w)
  PROVE  IInv'
<1>1. /\ made[w].sound /\ Advance(w)
      /\ UNCHANGED <<format, destination, directory, made, reopened, outcome>>
  BY DEF Validate
<1>2. At(w, "validate") /\ step[w] \in 1..Last
  BY Places DEF Validate
<1>3. format # "doc" /\ step[w] = Last - 1
  <2>1. CASE format = "doc"
    <3>1. step[w] \in 1..5 /\ step[w] \notin {1, 2, 3, 4, 5}
      BY <1>2, <2>1, Places
    <3> QED BY <3>1
  <2> QED BY <1>2, <2>1, Places
<1>4. Last \in 5..7
  BY Plans, <1>2 DEF IInv, TypeOK
<1>5. step[w] # Last
  BY <1>3, <1>4
<1>6. /\ step' \in [Writer -> 1..Last] /\ Last' = Last
      /\ \A v \in Writer : step'[v] \in 1..Len(Plan[format])
      /\ step'[w] = step[w] + 1
      /\ \A v \in Writer \ {w} : step'[v] = step[v]
  BY <1>1, <1>5, Advances
<1>7. TypeOK' /\ step' \in [Writer -> 1..Last']
  BY <1>1, <1>6 DEF IInv, TypeOK
<1>8. Own(w)
  BY <1>3, <1>4 DEF IInv, PackageSaves
<1>9. PackageSaves'
  <2>1. ASSUME NEW v \in Writer
        PROVE  /\ step'[v] \in Last - 1..Last => Own(v)
               /\ step'[v] = Last => made[v].sound
    BY <1>1, <1>3, <1>6, <1>8 DEF IInv, PackageSaves
  <2> QED BY <1>1, <1>6, <2>1 DEF IInv, PackageSaves, Own
<1> QED BY <1>1, <1>3, <1>7, <1>9 DEF IInv, LegacySaves

(* What a package save publishes is its own validated file. *)
LEMMA Published ==
  ASSUME IInv, NEW w \in Writer, Publish(w)
  PROVE  /\ format # "doc"
         /\ made[w] = [owner |-> w, sound |-> TRUE]
         /\ outcome[w] = "saving"
<1>1. At(w, "publish")
  BY DEF Publish
<1>2. step[w] \in 1..Last /\ outcome[w] = "saving"
  BY <1>1, Places
<1>3. Last \in 5..7
  BY <1>2, Plans DEF IInv, TypeOK
<1>4. format # "doc" /\ step[w] = Last
  <2>1. CASE format = "doc"
    <3>1. step[w] \in 1..5 /\ step[w] \notin {1, 2, 3, 4, 5}
      BY <1>1, <1>2, <2>1, Places
    <3> QED BY <3>1
  <2> QED BY <1>1, <2>1, Places
<1>5. made[w] \in File /\ made[w].owner = w /\ made[w].sound
  BY <1>3, <1>4 DEF IInv, PackageSaves, Own
<1>6. made[w] = [owner |-> w, sound |-> TRUE]
  BY <1>5 DEF File
<1> QED BY <1>2, <1>4, <1>6

(* Publishing a package keeps the invariant.                               *)
LEMMA PublishKeeps ==
  ASSUME IInv, NEW w \in Writer, Publish(w)
  PROVE  IInv'
<1>1. /\ destination' = [owner |-> w, sound |-> TRUE]
      /\ OutcomeBecomes(w, "published")
      /\ UNCHANGED <<format, directory, step, made, reopened>>
  BY Published DEF Publish
<1>2. destination' \in File /\ destination'.sound
  BY <1>1 DEF File
<1>3. TypeOK' /\ step' \in [Writer -> 1..Last']
  BY <1>1, <1>2 DEF IInv, TypeOK, OutcomeBecomes, Last
<1>4. PackageSaves'
  BY <1>1, <1>2 DEF IInv, PackageSaves, Own, Last
<1> QED BY <1>1, <1>3, <1>4, Published DEF IInv, LegacySaves

(* A conversion takes the destination over, which its owner has not yet    *)
(* converted back.                                                         *)
LEMMA ReplaceKeeps ==
  ASSUME IInv, NEW w \in Writer, Replace(w)
  PROVE  IInv'
<1>1. /\ destination' = made[w] /\ directory' = TRUE /\ Advance(w)
      /\ UNCHANGED <<format, made, reopened, outcome>>
  BY DEF Replace
<1>2. At(w, "replace")
  BY DEF Replace
<1>3. format = "doc" /\ step[w] = 3 /\ Last = 5 /\ outcome[w] = "saving"
  BY <1>2, Places
<1>4. /\ step' \in [Writer -> 1..Last] /\ Last' = Last
      /\ \A v \in Writer : step'[v] \in 1..Len(Plan[format])
      /\ step'[w] = 4
      /\ \A v \in Writer \ {w} : step'[v] = step[v]
  BY <1>1, <1>3, Advances
<1>5. made[w] \in File /\ made[w].owner = w
  BY <1>3 DEF IInv, LegacySaves, Own
<1>6. TypeOK' /\ step' \in [Writer -> 1..Last']
  BY <1>1, <1>4, <1>5 DEF IInv, TypeOK
<1>7. ASSUME NEW v \in Writer
      PROVE  /\ step'[v] \in 3..5 => Own(v)
             /\ outcome[v] \in {"published", "success"} =>
                  step'[v] = 5 /\ reopened[v].sound
             /\ (destination' \in File /\ destination'.owner = v) =>
                  /\ step'[v] \in 4..5
                  /\ destination' = made[v]
                  /\ step'[v] = 5 => reopened[v] = destination'
  <2>1. CASE v = w
    BY <1>1, <1>3, <1>4, <1>5, <2>1 DEF Own
  <2>2. CASE v # w
    <3>1. destination'.owner # v
      BY <1>1, <1>5, <2>2
    <3> QED BY <1>3, <1>4, <2>2, <3>1 DEF IInv, LegacySaves
  <2> QED BY <2>1, <2>2
<1>8. LegacySaves'
  BY <1>1, <1>7 DEF LegacySaves, Own
<1> QED BY <1>1, <1>3, <1>6, <1>8 DEF IInv, PackageSaves

(* Converting a legacy file back keeps the invariant.                      *)
LEMMA ConvertBackKeeps ==
  ASSUME IInv, NEW w \in Writer, ConvertBack(w)
  PROVE  IInv'
<1>1. /\ reopened' = [reopened EXCEPT ![w] = destination] /\ Advance(w)
      /\ UNCHANGED <<format, destination, directory, made, outcome>>
  BY DEF ConvertBack
<1>2. At(w, "convertBack")
  BY DEF ConvertBack
<1>3. format = "doc" /\ step[w] = 4 /\ Last = 5 /\ outcome[w] = "saving"
  BY <1>2, Places
<1>4. /\ step' \in [Writer -> 1..Last] /\ Last' = Last
      /\ \A v \in Writer : step'[v] \in 1..Len(Plan[format])
      /\ step'[w] = 5
      /\ \A v \in Writer \ {w} : step'[v] = step[v]
  BY <1>1, <1>3, Advances
<1>5. /\ reopened' \in [Writer -> File \cup {NoFile, Absent, OldFile}]
      /\ reopened'[w] = destination
      /\ \A v \in Writer \ {w} : reopened'[v] = reopened[v]
  BY <1>1 DEF IInv, TypeOK
<1>6. TypeOK' /\ step' \in [Writer -> 1..Last']
  BY <1>1, <1>4, <1>5 DEF IInv, TypeOK
<1>7. ASSUME NEW v \in Writer
      PROVE  /\ step'[v] \in 3..5 => Own(v)
             /\ outcome[v] \in {"published", "success"} =>
                  step'[v] = 5 /\ reopened'[v].sound
             /\ (destination \in File /\ destination.owner = v) =>
                  /\ step'[v] \in 4..5
                  /\ destination = made[v]
                  /\ step'[v] = 5 => reopened'[v] = destination
  <2>1. CASE v = w
    BY <1>3, <1>4, <1>5, <2>1 DEF IInv, LegacySaves
  <2>2. CASE v # w
    BY <1>3, <1>4, <1>5, <2>2 DEF IInv, LegacySaves
  <2> QED BY <2>1, <2>2
<1>8. LegacySaves'
  BY <1>1, <1>7 DEF LegacySaves, Own
<1> QED BY <1>1, <1>3, <1>6, <1>8 DEF IInv, PackageSaves

(* Neither the old file nor a missing one belongs to a call. *)
LEMMA NobodysFile ==
  /\ Absent \notin File
  /\ \A w \in Writer : OldFile.owner # w
  /\ OldFile.sound
<1>1. Absent \notin File
  BY DEF Absent, File
<1>2. \A w \in Writer : OldFile.owner # w
  BY SaveAssumption DEF OldFile
<1> QED BY <1>1, <1>2 DEF OldFile

(* Nothing is written at first.                                            *)
LEMMA IInvInit == Init => IInv
<1> SUFFICES ASSUME Init
             PROVE  IInv
  OBVIOUS
<1>1. Last \in 5..7
  BY PlanLengths DEF Init
<1>2. step \in [Writer -> 1..Last] /\ \A w \in Writer : step[w] = 1
  BY <1>1 DEF Init
<1>3. TypeOK
  BY <1>2 DEF Init, TypeOK, Last
<1>4. PackageSaves
  BY <1>1, <1>2, NobodysFile DEF Init, PackageSaves
<1>5. LegacySaves
  <2>1. \A w \in Writer : outcome[w] = "idle" /\ step[w] \notin 3..5
    <3>1. 1 \notin 3..5
      OBVIOUS
    <3>2. \A w \in Writer : outcome[w] = "idle"
      BY DEF Init
    <3> QED BY <1>2, <3>1, <3>2
  <2>2. \A w \in Writer : ~(destination \in File /\ destination.owner = w)
    BY NobodysFile DEF Init
  <2> QED BY <2>1, <2>2 DEF LegacySaves
<1> QED BY <1>2, <1>3, <1>4, <1>5 DEF IInv

(* The invariant is inductive.                                             *)
LEMMA IInvNext == IInv /\ [Next]_vars => IInv'
<1> SUFFICES ASSUME IInv, [Next]_vars
             PROVE  IInv'
  OBVIOUS
<1>1. CASE UNCHANGED vars
  BY <1>1 DEF IInv, TypeOK, PackageSaves, LegacySaves, Own, Last, vars
<1>2. CASE Next
  BY <1>2, OutcomeKeeps, PreparationKeeps, GenerateKeeps, ValidateKeeps, PublishKeeps,
     ReplaceKeeps, ConvertBackKeeps DEF Next
<1> QED BY <1>1, <1>2

(* The inductive invariant holds in every reachable state. *)
THEOREM SaveInvariant == Spec => []IInv
  BY IInvInit, IInvNext, PTL DEF Spec

(* The destination is always the old file, absent, or a whole file of some *)
(* call, and no call runs past the end of its plan.                        *)
THEOREM SaveTypeOK == Spec => []TypeOK
<1>1. IInv => TypeOK
  BY DEF IInv
<1> QED BY <1>1, SaveInvariant, PTL

(* A call that reported success and whose file is still at the destination *)
(* has left one that can be read back, whatever the other calls did.       *)
THEOREM SuccessIsReadable == Spec => []SuccessfulSaveIsReadable
<1>1. IInv => SuccessfulSaveIsReadable
  <2> SUFFICES ASSUME IInv, destination \in File,
                      outcome[destination.owner] = "success"
               PROVE  destination.sound
    BY DEF SuccessfulSaveIsReadable
  <2>1. destination.owner \in Writer
    BY DEF File
  <2>2. CASE format = "doc"
    BY <2>1, <2>2 DEF IInv, LegacySaves
  <2>3. CASE format # "doc"
    BY <2>3, NobodysFile DEF IInv, PackageSaves
  <2> QED BY <2>2, <2>3
<1> QED BY <1>1, SaveInvariant, PTL

(* Every step of saves in a package format is a step of AtomicSave, or     *)
(* changes neither the destination nor what has become of a call: the      *)
(* staging file keeps the promise under every interleaving and crash.      *)
THEOREM PackagesSaveAtomically == Spec => SavesAtomically
<1>1. Init => (format # "doc" => Promise!Init)
  BY DEF Init, Promise!Init
<1>2. IInv /\ [Next]_vars =>
        [format # "doc" => Promise!Next \/ UNCHANGED Promise!vars]_vars
  <2> SUFFICES ASSUME IInv, Next, format # "doc"
               PROVE  Promise!Next \/ UNCHANGED Promise!vars
    OBVIOUS
  <2>1. PICK w \in Writer :
          \/ Begin(w) \/ Check(w) \/ CreateDirectory(w) \/ Stage(w) \/ Generate(w)
          \/ Validate(w) \/ Publish(w) \/ Replace(w) \/ ConvertBack(w) \/ Reopen(w)
          \/ Succeed(w) \/ Fail(w) \/ Crash(w)
    BY DEF Next
  <2>2. CASE Begin(w)
    <3>1. Promise!Begin(w)
      BY <2>2 DEF Begin, OutcomeBecomes, Promise!Begin, Promise!Becomes
    <3> QED BY <3>1 DEF Promise!Next
  <2>3. CASE Check(w) \/ CreateDirectory(w) \/ Stage(w) \/ Generate(w) \/ Validate(w)
    BY <2>3 DEF Check, CreateDirectory, Stage, Generate, Validate, Promise!vars
  <2>4. CASE Publish(w)
    <3>1. Promise!Publish(w)
      BY <2>4, Published DEF Publish, OutcomeBecomes, Promise!Publish, Promise!Becomes
    <3> QED BY <3>1 DEF Promise!Next
  <2>5. CASE Replace(w) \/ ConvertBack(w) \/ Reopen(w)
    BY <2>5, Places DEF Replace, ConvertBack, Reopen
  <2>6. CASE Succeed(w)
    <3>1. Promise!Succeed(w)
      BY <2>6 DEF Succeed, OutcomeBecomes, Promise!Succeed, Promise!Becomes
    <3> QED BY <3>1 DEF Promise!Next
  <2>7. CASE Fail(w)
    <3>1. Promise!Fail(w)
      BY <2>7 DEF Fail, OutcomeBecomes, Promise!Fail, Promise!Becomes
    <3> QED BY <3>1 DEF Promise!Next
  <2>8. CASE Crash(w)
    <3>1. Promise!Crash(w)
      BY <2>8 DEF Crash, OutcomeBecomes, Promise!Crash, Promise!Becomes
    <3> QED BY <3>1 DEF Promise!Next
  <2> QED BY <2>1, <2>2, <2>3, <2>4, <2>5, <2>6, <2>7, <2>8
<1> QED BY <1>1, <1>2, SaveInvariant, PTL DEF Spec, SavesAtomically
=============================================================================
