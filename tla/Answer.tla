--------------------------------- MODULE Answer -------------------------------
(***************************************************************************)
(* _split_decision (flinkswarm/orchestrator.py): what the orchestrator     *)
(* makes of its model's answer, which is asked to be one JSON object with  *)
(* the keys decision and rationale, and may be anything.                   *)
(*                                                                         *)
(* An answer is a sequence of tokens: braces, line ends, prose, and what a *)
(* JSON object may have between its braces -- members, whose decision is a *)
(* string with some text in it, a blank string, or no string (a null, say),*)
(* or a key, "decision" or another, that an inner object is the value of.  *)
(***************************************************************************)
EXTENDS Naturals, Sequences, SequencesExt

CONSTANTS
  MaxDecision,   \* 120, the length of a decision taken from a line
  MaxAnswerLen   \* bound: length of an answer

ASSUME AnswerAssumption == MaxDecision \in Nat \ {0} /\ MaxAnswerLen \in Nat

VARIABLE answer

Members == {"decision=text", "decision=blank", "decision=null"}

Keys == {"decision=", "other="}

Token == {"{", "}", "LF", "prose"} \cup Members \cup Keys

Unknown == <<"UNKNOWN">>

(* str.strip and str.splitlines.                                           *)
Strip(s) ==
  LET solid == {i \in 1..Len(s) : s[i] # "LF"}
  IN  IF solid = {} THEN <<>>
      ELSE SubSeq(s, CHOOSE i \in solid : \A j \in solid : i <= j,
                     CHOOSE i \in solid : \A j \in solid : j <= i)

FirstLine(s) ==
  IF Contains(s, "LF") THEN SubSeq(s, 1, SelectInSeq(s, LAMBDA t : t = "LF") - 1)
                       ELSE s

(* The objects json.loads accepts, line ends aside.                        *)
Object ==
  {<<"{", "}">>} \cup {<<"{", m, "}">> : m \in Members}
    \cup {<<"{", k, "{", "}", "}">> : k \in Keys}
    \cup UNION {{<<"{", k, "{", m, "}", "}">> : m \in Members} : k \in Keys}

Loads(s) == FlattenSeq([i \in 1..Len(s) |-> IF s[i] = "LF" THEN <<>> ELSE <<s[i]>>])

IsJson(s) == Loads(s) \in Object

(* str(value).strip(): a string is its text without the blanks around it,  *)
(* and anything else what Python prints for it.                            *)
Str(member) ==
  CASE member = "decision=text"  -> <<"text">>
    [] member = "decision=blank" -> <<>>
    [] member = "decision=null"  -> <<"None">>
    [] member = "decision="      -> <<"dict">>
    [] OTHER                     -> Unknown

(* obj.get("decision", "UNKNOWN"): of the outer object, not of an inner.   *)
Get(object) == Str(object[2])

(* What _split_decision falls back to.                                     *)
Fallback(text) ==
  IF text = <<>> THEN Unknown
  ELSE SubSeq(FirstLine(text), 1, IF Len(FirstLine(text)) < MaxDecision
                                    THEN Len(FirstLine(text)) ELSE MaxDecision)

(* Mutant: the object ends at the first closing brace.                     *)
SliceToFirst(text) ==
  SubSeq(text, SelectInSeq(text, LAMBDA t : t = "{"),
               SelectInSeq(text, LAMBDA t : t = "}"))

(* text[text.index("{") : text.rindex("}") + 1].                           *)
Slice(text) ==
  SubSeq(text, SelectInSeq(text, LAMBDA t : t = "{"),
               SelectLastInSeq(text, LAMBDA t : t = "}"))

SplitDecision(raw) ==
  LET text == Strip(raw)
  IN  IF Contains(text, "{") /\ Contains(text, "}") /\ IsJson(Slice(text))
        THEN Get(Loads(Slice(text)))
        ELSE Fallback(text)

-------------------------------------------------------------------------------
(* The answers, grown one token at a time.                                 *)

AnswerInit == answer = <<>>

AnswerNext ==
  /\ Len(answer) < MaxAnswerLen
  /\ \E t \in Token : answer' = Append(answer, t)

AnswerSpec == AnswerInit /\ [][AnswerNext]_answer

-------------------------------------------------------------------------------

(* The objects in an answer, each with the prose before and after it.      *)
ObjectsIn(s) ==
  {r \in (1..Len(s)) \X (1..Len(s)) :
     r[1] < r[2] /\ s[r[1]] = "{" /\ s[r[2]] = "}" /\ IsJson(SubSeq(s, r[1], r[2]))}

DecisionOf(s, r) == Get(Loads(SubSeq(s, r[1], r[2])))

AmidProse(s, r) ==
  \A i \in (1..Len(s)) \ (r[1]..r[2]) : s[i] \notin {"{", "}"}

IsBlank(s, r) == Loads(SubSeq(s, r[1], r[2])) = <<"{", "decision=blank", "}">>

(* The decision of an object amid prose is found, whatever the prose and   *)
(* however deep the object is, as Python prints it.  No answer yields a    *)
(* decision that nothing in it accounts for: a second object, one cut off  *)
(* in the middle or a stray brace can at most leave the decision of another*)
(* object or the first line, shortened.  An empty decision comes only from *)
(* an object that says so.                                                 *)
DecisionIsAccountedFor ==
  LET decision == SplitDecision(answer)
  IN  /\ \A r \in ObjectsIn(answer) :
           AmidProse(answer, r) => decision = DecisionOf(answer, r)
      /\ \/ decision \in {DecisionOf(answer, r) : r \in ObjectsIn(answer)}
         \/ Strip(answer) = <<>> /\ decision = Unknown
         \/ /\ decision # <<>>
            /\ IsPrefix(decision, Strip(answer))
            /\ ~Contains(decision, "LF")
      /\ decision = <<>> => \E r \in ObjectsIn(answer) : IsBlank(answer, r)

===============================================================================
