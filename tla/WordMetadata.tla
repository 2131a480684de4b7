----------------------------- MODULE WordMetadata -----------------------------
(***************************************************************************)
(* The metadata of a word document in its files: the core and custom       *)
(* properties of a DOCX package, and office:meta of OpenDocument.          *)
(*                                                                         *)
(* Metadata maps keys to sequences of characters, and the reserved key to  *)
(* a dump of the ledger.  In a file it is a sequence of elements [tag,     *)
(* value], that of the ledger [tag, dump] with the reserved key for a tag. *)
(***************************************************************************)
EXTENDS Authorship, SequencesExt

Generator == <<"iiGeneralDocument">>

(* The elements of the nonempty values among the keys, in their order. *)
writeValues(elements, metadata) ==
  LET Wanted(e) == e[2] \in DOMAIN metadata /\ metadata[e[2]] # <<>>
      wanted == SelectSeq(elements, Wanted)
  IN [i \in DOMAIN wanted |->
        [tag |-> wanted[i][1], value |-> metadata[wanted[i][2]]]]

writeLedger(ledger) ==
  IF isEmpty(ledger) THEN <<>> ELSE <<[tag |-> MetadataKey, dump |-> dump(ledger)]>>

(* Metadata with a value assigned to a key. *)
assigned(metadata, key, value) == (key :> value) @@ metadata

-----------------------------------------------------------------------------
(* DOCX. *)

CoreProperties ==
  << <<"title", "Title">>, <<"creator", "Author">>, <<"subject", "Subject">>,
     <<"description", "Description">>, <<"keywords", "Keywords">>,
     <<"lastModifiedBy", "LastModifiedBy">>, <<"created", "Created">>,
     <<"modified", "Modified">> >>

(* The key an element is read under, if it is known. *)
keysOf(elements, tag) == {e[2] : e \in {f \in ToSet(elements) : f[1] = tag}}

writeDocxMetadata(metadata, ledger) ==
  [core |-> writeValues(CoreProperties, metadata), custom |-> writeLedger(ledger)]

parseCoreProperties(core) ==
  LET read(metadata, e) ==
        IF keysOf(CoreProperties, e.tag) = {} THEN metadata
        ELSE assigned(metadata, CHOOSE key \in keysOf(CoreProperties, e.tag) : TRUE, e.value)
  IN FoldLeft(read, <<>>, core)

(* What the metadata becomes, if there are not two ledgers. *)
parseCustomProperties(custom, metadata) ==
  LET ledgers == SelectSeq(custom, LAMBDA e : e.tag = MetadataKey)
  IN [accepted |-> Len(ledgers) <= 1,
      metadata |-> IF ledgers = <<>> THEN metadata
                   ELSE assigned(metadata, MetadataKey, ledgers[1].dump)]

readDocxMetadata(file) ==
  parseCustomProperties(file.custom, parseCoreProperties(file.core))

-----------------------------------------------------------------------------
(* OpenDocument. *)

MetaElements ==
  << <<"title", "Title">>, <<"subject", "Subject">>, <<"description", "Description">>,
     <<"initial-creator", "Author">>, <<"creator", "LastModifiedBy">>,
     <<"keyword", "Keywords">>, <<"creation-date", "Created">>, <<"date", "Modified">> >>

metadataValue(metadata, key) == IF key \in DOMAIN metadata THEN metadata[key] ELSE <<>>

(* The author stands in for whoever made the last change, if that is not   *)
(* known; and the generator is always this library.                        *)
writeMetadataSection(metadata, ledger) ==
  LET creator == IF metadataValue(metadata, "LastModifiedBy") = <<>>
                 THEN metadataValue(metadata, "Author")
                 ELSE metadata["LastModifiedBy"]
  IN <<[tag |-> "generator", value |-> Generator]>>
       \o writeValues(MetaElements, assigned(metadata, "LastModifiedBy", creator))
       \o writeLedger(ledger)

(* Keywords are joined, and whoever made the last change stands in for an  *)
(* author that is not named.                                               *)
parseMetadata(meta) ==
  LET known == Append(MetaElements, <<"generator", "Application">>)
      read(s, e) ==
        CASE e.tag = MetadataKey ->
               IF MetadataKey \in DOMAIN s.metadata THEN [s EXCEPT !.accepted = FALSE]
               ELSE [s EXCEPT !.metadata = assigned(@, MetadataKey, e.dump)]
          [] keysOf(known, e.tag) = {} -> s
          [] e.tag = "keyword" /\ metadataValue(s.metadata, "Keywords") # <<>> ->
               [s EXCEPT !.metadata["Keywords"] = @ \o <<"; ">> \o e.value]
          [] OTHER ->
               [s EXCEPT !.metadata =
                  assigned(@, CHOOSE key \in keysOf(known, e.tag) : TRUE, e.value)]
      s == FoldLeft(read, [metadata |-> <<>>, accepted |-> TRUE], meta)
  IN IF "LastModifiedBy" \in DOMAIN s.metadata /\ "Author" \notin DOMAIN s.metadata
     THEN [s EXCEPT !.metadata = assigned(@, "Author", @["LastModifiedBy"])]
     ELSE s
=============================================================================
