----------------------------- MODULE ManifestText -----------------------------
(***************************************************************************)
(* The text of manifest.json: the iterative scan that readers of every     *)
(* version run before serde_json builds a value (archive_v1.rs,            *)
(* archive_v2.rs parse_manifest_json), because serde_json keeps the last   *)
(* of two equal keys and recurses.                                         *)
(*                                                                         *)
(* A text is a sequence of tokens: the six delimiters, the strings of      *)
(* Strings (equal after unescaping iff equal here), and other scalars.     *)
(***************************************************************************)
EXTENDS Naturals, Sequences, SequencesExt

CONSTANTS
  Strings,     \* string tokens: keys, or values
  Literals,    \* numbers, true, false and null
  Malformed,   \* runs of characters that no JSON scalar is
  MaxNesting   \* MAX_MANIFEST_JSON_NESTING

Delimiters == {"{", "}", "[", "]", ":", ","}

Scalars == Strings \cup Literals \cup Malformed

ASSUME TextAssumption ==
  /\ Strings # {} /\ Literals # {} /\ MaxNesting \in Nat
  /\ Scalars \cap Delimiters = {}
  /\ Malformed \cap (Strings \cup Literals) = {}

\* JsonScanFrame: a container still open, and what may come next in it.
Frame(kind, next, keys) == [kind |-> kind, next |-> next, keys |-> keys]
Start == [frames |-> <<>>, done |-> FALSE, bad |-> FALSE]

Bad(s) == [s EXCEPT !.bad = TRUE]
Top(s) == Last(s.frames)
Push(s, f) == [s EXCEPT !.frames = Append(@, f)]
Await(s, next) == [s EXCEPT !.frames[Len(s.frames)].next = next]

\* A value is complete: the root, or a value its container waited for.
Complete(s) ==
  IF s.frames = <<>> THEN [s EXCEPT !.done = TRUE]
  ELSE IF Top(s).next = "value" THEN Await(s, "comma")
  ELSE Bad(s)

Close(s) == Complete([s EXCEPT !.frames = Front(@)])

\* push_json_frame.
Open(s, kind) ==
  IF Len(s.frames) >= MaxNesting THEN Bad(s)
  ELSE Push(s, Frame(kind, IF kind = "object" THEN "key" ELSE "item", {}))

\* scan_json_value_iterative.
Value(s, t) ==
  CASE t = "{" -> Open(s, "object")
    [] t = "[" -> Open(s, "array")
    [] t \in Scalars -> Complete(s)
    [] OTHER -> Bad(s)

\* Mutant: equal keys are left to serde_json.
Key_Repeated(s, t) ==
  IF t = "}" THEN Close(s)
  ELSE IF t \in Strings
  THEN [Await(s, "colon") EXCEPT !.frames[Len(s.frames)].keys = @ \cup {t}]
  ELSE Bad(s)

Key(s, t) ==
  IF t = "}" THEN Close(s)
  ELSE IF t \in Strings \ Top(s).keys
  THEN [Await(s, "colon") EXCEPT !.frames[Len(s.frames)].keys = @ \cup {t}]
  ELSE Bad(s)

\* After a member: a comma reopens the frame, which may then be closed too.
Comma(s, t) ==
  LET object == Top(s).kind = "object" IN
  CASE t = "," -> Await(s, IF object THEN "key" ELSE "item")
    [] t = (IF object THEN "}" ELSE "]") -> Close(s)
    [] OTHER -> Bad(s)

Feed(s, t) ==
  CASE s.bad \/ s.done -> Bad(s)
    [] ~s.bad /\ ~s.done /\ s.frames = <<>> -> Value(s, t)
    [] OTHER ->
       CASE Top(s).next = "key"   -> Key(s, t)
         [] Top(s).next = "colon" -> IF t = ":" THEN Await(s, "value") ELSE Bad(s)
         [] Top(s).next = "value" -> Value(s, t)
         [] Top(s).next = "item"  -> IF t = "]" THEN Close(s) ELSE Value(Await(s, "value"), t)
         [] OTHER                 -> Comma(s, t)

Scan(text) ==
  LET after[n \in 0 .. Len(text)] ==
        IF n = 0 THEN Start ELSE Feed(after[n - 1], text[n])
  IN  after[Len(text)]

\* serde_json, after the scan: a comma is followed by a member, a scalar is one.
Serde(text) ==
  \A i \in DOMAIN text :
    /\ text[i] \notin Malformed
    /\ text[i] = "," => i < Len(text) /\ text[i + 1] \notin {"}", "]"}

Parses(text) == LET s == Scan(text) IN s.done /\ ~s.bad /\ Serde(text)

\* What serde_json writes for n objects inside each other.
Nested(n) ==
  LET doc[d \in 0 .. n] ==
        IF d = 0 THEN <<CHOOSE l \in Literals : TRUE>>
        ELSE <<"{", CHOOSE k \in Strings : TRUE, ":">> \o doc[d - 1] \o <<"}">>
  IN  doc[n]

-----------------------------------------------------------------------------
(* The reference: documents generated from the grammar.                    *)

\* Documents of at most n containers inside each other and at most two
\* members in each, every object with distinct keys.
Documents(n) ==
  LET docs[d \in 0 .. n] ==
        IF d = 0 THEN {<<v>> : v \in Strings \cup Literals}
        ELSE LET inner == docs[d - 1]
                 member == {<<k, <<k, ":">> \o v>> : k \in Strings, v \in inner}
             IN  docs[0]
                 \cup {<<"[", "]">>, <<"{", "}">>}
                 \cup {<<"[">> \o v \o <<"]">> : v \in inner}
                 \cup {<<"[">> \o v \o <<",">> \o w \o <<"]">> : v \in inner, w \in inner}
                 \cup {<<"{">> \o m[2] \o <<"}">> : m \in member}
                 \cup {<<"{">> \o mm[1][2] \o <<",">> \o mm[2][2] \o <<"}">> :
                         mm \in {x \in member \X member : x[1][1] # x[2][1]}}
  IN  docs[n]
=============================================================================
