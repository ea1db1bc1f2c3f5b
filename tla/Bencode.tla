------------------------------- MODULE Bencode -------------------------------
(***************************************************************************)
(* bencode::BEncoder and BDecoder (source/torrent/metadata/bencode.cpp).   *)
(* A text is a sequence of character codes and a BeValue the pair          *)
(* <<which(), value>>: integers, strings, dictionaries (functions from     *)
(* keys to values) and lists. The decoder gives [ok, result, used] or      *)
(* throws. Its std::string_view always ends where a std::string ends, so   *)
(* the character after the last one is the terminating zero.               *)
(***************************************************************************)
EXTENDS Integers, Sequences, SequencesExt

CONSTANTS
  IntBits,    \* std::int64_t: 64 in the code
  SizeBits,   \* size_t: 64 in the code
  MaxDepth,   \* DEFAULT_MAX_DEPTH: 10 in the code
  Alphabet,   \* the characters a file is made of
  Openings,   \* the first characters of the files
  MaxTyped    \* bound: characters after the prefix

IInt64 == 0
IString == 1
IDict == 2
IList == 3

INT_PREFIX == 105
LIST_PREFIX == 108
DICT_PREFIX == 100
SUFFIX == 101
STRING_LENGTH_DELIMITER == 58
Minus == 45
Digits == 48..57

SizeMod == 2^SizeBits
max_size == SizeMod \div 2 - 1  \* of a std::string

ASSUME WidthsAssumption ==
  /\ IntBits \in Nat \ {0} /\ SizeBits \in Nat \ {0}
  /\ \A p \in Openings : Len(p) + MaxTyped < max_size

-----------------------------------------------------------------------------
(* BEncoder *)

to_string(n) ==
  LET digits[k \in Nat] == IF k < 10 THEN <<48 + k>> ELSE Append(digits[k \div 10], 48 + (k % 10))
  IN  IF n < 0 THEN <<Minus>> \o digits[-n] ELSE digits[n]

(* The order of a std::map<std::string, BeValue>. *)
Less(s, t) ==
  \/ IsStrictPrefix(s, t)
  \/ \E k \in DOMAIN s \cap DOMAIN t :
       s[k] < t[k] /\ SubSeq(s, 1, k - 1) = SubSeq(t, 1, k - 1)

KeysUnsorted(d) == SetToSortSeq(DOMAIN d, LAMBDA s, t : Less(t, s))
Keys(d) == SetToSortSeq(DOMAIN d, Less)

EncodeString(s) == to_string(Len(s)) \o <<STRING_LENGTH_DELIMITER>> \o s

RECURSIVE Encode(_)
Encode(v) ==
  CASE v[1] = IInt64  -> <<INT_PREFIX>> \o to_string(v[2]) \o <<SUFFIX>>
    [] v[1] = IString -> EncodeString(v[2])
    [] v[1] = IList   ->
         <<LIST_PREFIX>> \o FlattenSeq([k \in DOMAIN v[2] |-> Encode(v[2][k])]) \o <<SUFFIX>>
    [] v[1] = IDict   ->
         LET keys == Keys(v[2])
         IN  <<DICT_PREFIX>>
               \o FlattenSeq([k \in DOMAIN keys |-> EncodeString(keys[k]) \o Encode(v[2][keys[k]])])
               \o <<SUFFIX>>

-----------------------------------------------------------------------------
(* BDecoder *)

(* canonical is history: the numerals read have no needless character and  *)
(* the keys came in order, so that encoding the result gives the text back.*)
Ok(result, used, canonical) ==
  [ok |-> TRUE, result |-> result, used |-> used, canonical |-> canonical]
Throw(exception) == [ok |-> FALSE, exception |-> exception]
Invalid == Throw("std::invalid_argument")

(* std::from_chars over the whole of text, for an integer in low..high:    *)
(* its three failures are thrown as the same exception.                    *)
IsNumeral(text) == text # <<>> /\ Range(text) \subseteq Digits
Value(text) ==
  LET upto[k \in 0..Len(text)] == IF k = 0 THEN 0 ELSE 10 * upto[k - 1] + text[k] - 48
  IN  upto[Len(text)]
Negative(text) == text # <<>> /\ Head(text) = Minus

decode_int(value) ==
  LET end  == SelectInSeq(value, LAMBDA c : c = SUFFIX)
      text == SubSeq(value, 2, end - 1)
      int_value == IF Negative(text) THEN -Value(Tail(text)) ELSE Value(text)
  IN  IF /\ end # 0
         /\ IsNumeral(IF Negative(text) THEN Tail(text) ELSE text)
         /\ int_value \in -(2^(IntBits - 1))..(2^(IntBits - 1) - 1)
      THEN Ok(<<IInt64, int_value>>, end, text = to_string(int_value)) ELSE Invalid

(* The check of decode_string that the text holds the string. *)
FitsAlone(length, start, value) == length <= Len(value)
Fits(length, start, value) == (length + start) % SizeMod <= Len(value)

(* std::string(const char*, size_t), and the read it then makes. *)
Copy(length, start, value, canonical) ==
  IF length > max_size THEN Throw("std::length_error")
  ELSE IF start + length > Len(value) THEN Throw("out of bounds")
  ELSE Ok(<<IString, SubSeq(value, start + 1, start + length)>>,
          (start + length) % SizeMod, canonical)

decode_string(value) ==
  LET delimiter == SelectInSeq(value, LAMBDA c : c = STRING_LENGTH_DELIMITER)
      text == SubSeq(value, 1, delimiter - 1)
  IN  IF delimiter = 0 \/ ~IsNumeral(text) THEN Invalid
      ELSE IF Value(text) >= SizeMod \/ ~Fits(Value(text), delimiter, value) THEN Invalid
      ELSE Copy(Value(text), delimiter, value, text = to_string(Value(text)))

(* index counts from 0: At is value[index], for index = value.length() the *)
(* terminating zero, which is not the suffix.                              *)
At(value, index) == IF index < Len(value) THEN value[index + 1] ELSE 0
substr(value, index) == SubSeq(value, index + 1, Len(value))

(* decode_list and decode_dict from index on, with the values so far. *)
RECURSIVE decode(_, _), decode_list(_, _, _, _, _), decode_dict(_, _, _, _, _)
decode_list(value, depth, index, values, canonical) ==
  LET item == decode(substr(value, index), depth - 1)
  IN  CASE index > Len(value)          -> Throw("out of bounds")
        [] At(value, index) = SUFFIX   -> Ok(<<IList, values>>, index + 1, canonical)
        [] index = Len(value)          -> Invalid
        [] OTHER -> IF ~item.ok THEN item
                    ELSE decode_list(value, depth, index + item.used,
                           Append(values, item.result), canonical /\ item.canonical)

decode_dict(value, depth, index, values, canonical) ==
  LET key  == decode_string(substr(value, index))
      val  == decode(substr(value, index + key.used), depth - 1)
      name == key.result[2]
  IN  CASE index > Len(value)          -> Throw("out of bounds")
        [] At(value, index) = SUFFIX   -> Ok(<<IDict, values>>, index + 1, canonical)
        [] index = Len(value)          -> Invalid
        [] OTHER -> IF ~key.ok THEN key
                    ELSE IF ~val.ok THEN val
                    ELSE decode_dict(value, depth, index + key.used + val.used,
                           [k \in DOMAIN values \cup {name} |->
                              IF k = name THEN val.result ELSE values[k]],
                           /\ canonical /\ key.canonical /\ val.canonical
                           /\ \A k \in DOMAIN values : Less(k, name))

TooDeep(depth) == depth < 1

decode(value, depth) ==
  IF TooDeep(depth) THEN Throw("std::runtime_error")
  ELSE IF Len(value) < 2 THEN Invalid
  ELSE LET front == Head(value)
       IN  CASE front = INT_PREFIX  -> decode_int(value)
             [] front = DICT_PREFIX -> decode_dict(value, depth, 1, <<>>, TRUE)
             [] front = LIST_PREFIX -> decode_list(value, depth, 1, <<>>, TRUE)
             [] front \in Digits    -> decode_string(value)
             [] OTHER               -> Invalid

-----------------------------------------------------------------------------
(* App::run decodes the contents of a file; here, every file in turn. *)
VARIABLES text, typed, outcome

vars == <<text, typed, outcome>>

Init ==
  /\ text \in Openings
  /\ typed = 0
  /\ outcome = decode(text, MaxDepth)

Type(c) ==
  /\ typed < MaxTyped
  /\ text' = Append(text, c)
  /\ typed' = typed + 1
  /\ outcome' = decode(text', MaxDepth)

Next == \E c \in Alphabet : Type(c)

Spec == Init /\ [][Next]_vars

-----------------------------------------------------------------------------
(* No text, however it is cut short or lies about a length, makes the      *)
(* decoder read past the end of the file: where the sum of line 113 wraps  *)
(* around, the string's constructor throws before it copies. main() only   *)
(* catches std::invalid_argument; another exception comes from nesting     *)
(* deeper than the limit or from a length near the top of size_t, never    *)
(* from a file that is merely cut short or has a wrong character.          *)
Brackets(s) == {k \in DOMAIN s : s[k] \in {LIST_PREFIX, DICT_PREFIX}}

ThrowHasACause ==
  ~outcome.ok =>
    \/ outcome = Invalid
    \/ /\ outcome = Throw("std::runtime_error")
       /\ Cardinality(Brackets(text)) >= MaxDepth
    \/ /\ outcome = Throw("std::length_error")
       /\ \E i, j \in DOMAIN text :
            /\ IsNumeral(SubSeq(text, i, j))
            /\ Value(SubSeq(text, i, j)) >= SizeMod - Len(text)

(* load_torrent_file hashes the info dictionary as encoded again. Decoding *)
(* that gives the same value, by using every character; but it is the text *)
(* its publisher hashed exactly when no numeral had a leading zero or a    *)
(* needless sign and the keys were sorted and all different. The decoder   *)
(* takes the other texts too.                                              *)
EncodesAsRead ==
  outcome.ok =>
    LET encoded == Encode(outcome.result)
        again   == decode(encoded, MaxDepth)
    IN  /\ again.ok
        /\ again.result = outcome.result
        /\ again.used = Len(encoded)
        /\ encoded = SubSeq(text, 1, outcome.used) <=> outcome.canonical

=============================================================================
