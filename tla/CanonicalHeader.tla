--------------------------- MODULE CanonicalHeader ---------------------------
(***************************************************************************)
(* The canonical byte encoding of header metadata that is hashed into a    *)
(* snapshot and diffed: canonicalHeader writes a count line and then each  *)
(* entry as two length-prefixed strings and a newline, in std::map order;  *)
(* parseCanonicalHeader reads it back by offsets.  Names and values are    *)
(* byte strings that may themselves hold digits, colons and newlines.      *)
(* A byte is a number: 0..9 are the ten digit characters.                  *)
(***************************************************************************)
EXTENDS Integers, Sequences, SequencesExt

Newline == 10
Colon == 11
Digit == 0..9

NoMetadata == [accepted |-> FALSE, metadata |-> <<>>, offset |-> 0]

(* std::to_string of a size. *)
RECURSIVE Decimal(_)
Decimal(n) == IF n < 10 THEN <<n>> ELSE Append(Decimal(n \div 10), n % 10)

(* Byte-wise order of std::string, the order of a std::map's keys. *)
Precedes(s, t) ==
  \/ IsStrictPrefix(s, t)
  \/ \E i \in 1..Len(s) :
       /\ i <= Len(t)
       /\ SubSeq(s, 1, i - 1) = SubSeq(t, 1, i - 1)
       /\ s[i] < t[i]

appendLengthPrefixed(value) == Decimal(Len(value)) \o <<Colon>> \o value

\* Mutant: a name is written without its length.
BareNames(metadata) ==
  LET names == SetToSortSeq(DOMAIN metadata, Precedes)
      entry(name) == name \o <<Colon>>
                       \o appendLengthPrefixed(metadata[name]) \o <<Newline>>
  IN Decimal(Len(names)) \o <<Newline>>
       \o FlattenSeq([i \in DOMAIN names |-> entry(names[i])])

canonicalHeader(metadata) ==
  LET names == SetToSortSeq(DOMAIN metadata, Precedes)
      entry(name) == appendLengthPrefixed(name)
                       \o appendLengthPrefixed(metadata[name]) \o <<Newline>>
  IN Decimal(Len(names)) \o <<Newline>>
       \o FlattenSeq([i \in DOMAIN names |-> entry(names[i])])

(* The size before the next delimiter: the bytes up to it must be a        *)
(* non-empty run of digits, and reading continues behind it.               *)
readSize(source, offset, delimiter) ==
  LET ends == {i \in offset..Len(source) : source[i] = delimiter}
      end == Min(ends)
      digits == SubSeq(source, offset, end - 1)
  IN IF ends = {} \/ end = offset \/ ~(Range(digits) \subseteq Digit)
       THEN [found |-> FALSE, value |-> 0, offset |-> offset]
       ELSE [found |-> TRUE, offset |-> end + 1,
             value |-> FoldLeft(LAMBDA n, d : 10 * n + d, 0, digits)]

(* One length-prefixed string, cut by its announced size. *)
readString(source, offset) ==
  LET size == readSize(source, offset, Colon)
  IN IF ~size.found \/ size.value > Len(source) + 1 - size.offset
       THEN [found |-> FALSE, text |-> <<>>, offset |-> offset]
       ELSE [found |-> TRUE, offset |-> size.offset + size.value,
             text |-> SubSeq(source, size.offset, size.offset + size.value - 1)]

readEntry(source, state) ==
  LET name == readString(source, state.offset)
      value == readString(source, name.offset)
  IN IF \/ ~state.accepted \/ ~name.found \/ ~value.found
        \/ value.offset > Len(source) \/ source[value.offset] # Newline
        \/ name.text \in DOMAIN state.metadata
       THEN NoMetadata
       ELSE [accepted |-> TRUE, offset |-> value.offset + 1,
             metadata |-> (name.text :> value.text) @@ state.metadata]

parseCanonicalHeader(canonical) ==
  LET count == readSize(canonical, 1, Newline)
      start == [accepted |-> count.found, metadata |-> <<>>,
                offset |-> count.offset]
      end == FoldLeft(LAMBDA state, i : readEntry(canonical, state), start,
                      [i \in 1..count.value |-> i])
  IN IF end.offset = Len(canonical) + 1 THEN end ELSE NoMetadata
=============================================================================
