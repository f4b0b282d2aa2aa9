----------------------------- MODULE ListReader -----------------------------
(***************************************************************************)
(* Reading the answer of a list without ever holding all of it             *)
(* (kubernetes/json_stream.py), as both providers do.  The text comes in   *)
(* chunks that end anywhere, and may end early, as when what sends it is   *)
(* stopped.  The reader looks for the top-level "items", decodes one of    *)
(* them at a time, keeps the first and counts them all; any other document *)
(* is parsed whole.                                                        *)
(*                                                                         *)
(* A text is a sequence of tokens: punctuation, a quote q, a backslash, a  *)
(* digit, a point, a space, the word items, any other letter.  That a      *)
(* value can be decoded is json's raw_decode, and External.                *)
(***************************************************************************)
EXTENDS Integers, Sequences, SequencesExt

CONSTANTS
  Documents,  \* [text, list, items]: what the cluster answers, whether it is
              \* a list, and the texts of its items
  Limits      \* how many items may be kept, 0 for all of them

VARIABLES
  document, limit,
  length,     \* of the text that will come
  arrived,    \* how much of it is in the buffer
  phase,      \* "scan", "elements", "finish", "whole", or how it ended:
              \* "list", "document", "error"
  position,   \* of the next token
  depth, quoted, escaped,
  key,        \* the last string, if it may be a key, and "stage" what it awaits
  stage, kept, total

scanVars == <<depth, quoted, escaped, key, stage>>
readerVars == <<document, limit, length, arrived, phase, position, scanVars, kept, total>>

Text == document.text

(* What is assumed of the constants.                                      *)
ListReaderAssumption == Limits \subseteq Nat

Init ==
  /\ document \in Documents /\ limit \in Limits /\ length \in 0 .. Len(document.text)
  /\ arrived = 0 /\ phase = "scan" /\ position = 1
  /\ depth = 0 /\ quoted = FALSE /\ escaped = FALSE
  /\ key = "" /\ stage = "none"
  /\ kept = <<>> /\ total = 0

(* One more chunk, of any size; none at the end of the stream.             *)
Ended == arrived = length
Fill ==
  /\ ~Ended /\ arrived' \in arrived + 1 .. length
  /\ UNCHANGED <<document, limit, length, phase, position, scanVars, kept, total>>

Goes(next) ==
  /\ phase' = next
  /\ UNCHANGED <<document, limit, length, arrived, position, scanVars, kept, total>>

(* It needs what has not arrived.                                          *)
FillOr(outcome) == Fill \/ (Ended /\ Goes(outcome))

----------------------------------------------------------------------------
(* scan_to_items: token by token, with no lookahead.                       *)

Token == Text[position]
Opens == {"{", "["}
Closes == {"}", "]"}

Scanned(d, q, e, p, s) ==
  /\ depth' = d /\ quoted' = q /\ escaped' = e /\ key' = p /\ stage' = s
  /\ position' = position + 1
  /\ UNCHANGED <<document, limit, length, arrived, phase, kept, total>>

(* The token that makes up a string, and the one that closes it: it may be *)
(* a key of the document at depth one.                                     *)
InString ==
  /\ quoted
  /\ CASE escaped         -> Scanned(depth, TRUE, FALSE, "other", stage)
       [] Token = "\\"    -> Scanned(depth, TRUE, TRUE, "other", stage)
       [] Token = "q"     -> IF depth = 1 THEN Scanned(depth, FALSE, FALSE, key, "colon")
                             ELSE Scanned(depth, FALSE, FALSE, "", "none")
       [] OTHER           -> Scanned(depth, TRUE, FALSE,
                               IF key = "" /\ Token = "items" THEN "items" ELSE "other", stage)

Between ==
  /\ ~quoted
  /\ CASE Token = " " -> Scanned(depth, FALSE, FALSE, key, stage)
       [] Token = "q" -> Scanned(depth, TRUE, FALSE, "", stage)
       [] stage = "colon" /\ Token = ":" -> Scanned(depth, FALSE, FALSE, key, "value")
       [] Token \in Opens -> Scanned(depth + 1, FALSE, FALSE, "", "none")
       [] Token \in Closes -> Scanned(depth - 1, FALSE, FALSE, "", "none")
       [] OTHER -> Scanned(depth, FALSE, FALSE, "", "none")

ItemsOpen ==
  ~quoted /\ stage = "value" /\ key = "items" /\ depth = 1 /\ Token = "["

FindItems ==
  /\ ItemsOpen
  /\ phase' = "elements" /\ position' = position + 1
  /\ UNCHANGED <<document, limit, length, arrived, scanVars, kept, total>>

scan_to_items ==
  /\ phase = "scan"
  /\ IF position > arrived THEN FillOr("whole")
     ELSE FindItems \/ (~ItemsOpen /\ (InString \/ Between))

----------------------------------------------------------------------------
(* elements and _decode_one.                                               *)

(* The next token that is no space, or one past what has arrived.          *)
From(i) == CHOOSE j \in i .. arrived + 1 :
             /\ j = arrived + 1 \/ Text[j] # " "
             /\ \A k \in i .. j - 1 : Text[k] = " "

(* The end of the value at i, of what has arrived; 0 when there is none. A *)
(* number that is cut is a number.                                         *)
Numeral == {"1", "2"}
Digits(i, j) == j \in i .. arrived /\ \A k \in i .. j : Text[k] \in Numeral
Run(i) == IF Digits(i, i) THEN CHOOSE j \in i .. arrived : Digits(i, j) /\ ~Digits(i, j + 1) ELSE 0
NumberEnd(i) ==
  LET whole == Run(i)
  IN IF whole + 2 <= arrived /\ Text[whole + 1] = "." /\ Run(whole + 2) # 0
     THEN Run(whole + 2) ELSE whole
Quoted(i, j) ==   \* whether j is inside a string, of a value that starts at i
  LET f[k \in i - 1 .. j] ==
        IF k < i THEN [in |-> FALSE, esc |-> FALSE]
        ELSE LET was == f[k - 1]
             IN [in  |-> IF Text[k] = "q" /\ ~was.esc THEN ~was.in ELSE was.in,
                 esc |-> was.in /\ ~was.esc /\ Text[k] = "\\"]
  IN f[j].in
Depth(i, j) ==
  LET f[k \in i - 1 .. j] ==
        IF k < i THEN 0
        ELSE f[k - 1] + (IF Quoted(i, k) THEN 0 ELSE IF Text[k] \in Opens THEN 1
                         ELSE IF Text[k] \in Closes THEN -1 ELSE 0)
  IN f[j]
Balanced(i) == {j \in i + 1 .. arrived : Depth(i, j) = 0 /\ ~Quoted(i, j)}
ValueEnd(i) ==
  CASE Text[i] \in Numeral -> NumberEnd(i)
    [] Text[i] \in Opens \cup {"q"} ->
         IF Balanced(i) = {} THEN 0 ELSE CHOOSE j \in Balanced(i) : \A k \in Balanced(i) : j <= k
    [] OTHER -> 0

Keeps(i, j) ==
  /\ total' = total + 1 /\ position' = j + 1
  /\ kept' = IF limit <= 0 \/ total' <= limit THEN Append(kept, SubSeq(Text, i, j)) ELSE kept
  /\ UNCHANGED <<document, limit, length, arrived, phase, scanVars>>

(* Faulty: what follows the value is not looked at.                        *)
DecodesWhatParses(i) ==
  LET j == ValueEnd(i) IN IF j # 0 THEN Keeps(i, j) ELSE FillOr("error")

(* A value that parses is not a value that finished: what follows says so. *)
_decode_one(i) ==
  LET j == ValueEnd(i)
      next == From(j + 1)
  IN IF j # 0 /\ next <= arrived /\ Text[next] \in {",", "]"} THEN Keeps(i, j)
     ELSE FillOr("error")

Passes(i, next) ==
  /\ position' = i + 1 /\ phase' = next
  /\ UNCHANGED <<document, limit, length, arrived, scanVars, kept, total>>

elements ==
  /\ phase = "elements"
  /\ LET i == From(position)
     IN CASE i > arrived -> FillOr("error")
          [] i <= arrived /\ Text[i] = "]" -> Passes(i, "finish")
          [] i <= arrived /\ Text[i] = "," -> Passes(i, "elements")
          [] OTHER -> _decode_one(i)

(* The rest of the document, and one that is no list, are read to the end  *)
(* and have to parse.  Nothing at all is an empty document.                *)
Parses == length = Len(Text)
Blank == \A k \in 1 .. length : Text[k] = " "
finish ==
  phase = "finish" /\ (Fill \/ (Ended /\ Goes(IF Parses THEN "list" ELSE "error")))
decode_all ==
  phase = "whole" /\ (Fill \/ (Ended /\ Goes(IF Parses \/ Blank THEN "document" ELSE "error")))

Next == scan_to_items \/ elements \/ finish \/ decode_all

Spec == Init /\ [][Next]_readerVars

----------------------------------------------------------------------------
(* However the text is cut into chunks, what is read is what was sent: the *)
(* first items in their order and the number of them all, of a list, and   *)
(* the whole of any other document (json_stream.py:190-204, where an       *)
(* element split across reads came back as a different number).  A text    *)
(* that ends early is an error and never a shorter list.                   *)
Items == document.items
ReadsWhatWasSent ==
  /\ phase = "list" =>
       /\ document.list /\ length = Len(Text) /\ total = Len(Items)
       /\ kept = IF limit = 0 \/ limit > Len(Items) THEN Items ELSE SubSeq(Items, 1, limit)
  /\ phase = "document" => Blank \/ (~document.list /\ length = Len(Text))
  /\ phase = "error" => length < Len(Text)
=============================================================================
