--------------------------------- MODULE Payload ------------------------------
(***************************************************************************)
(* aggregated_payload: written by AgentBarrier.payload, which escapes by   *)
(* hand, and read back by the orchestrator with json.loads.                *)
(*                                                                         *)
(* Text is a sequence of characters, one per class the two sides treat     *)
(* differently.  A payload is its string literals one after the other: the *)
(* braces, colons and commas between them, and "partial", are fixed.       *)
(***************************************************************************)
EXTENDS Naturals, Sequences, SequencesExt

CONSTANTS
  Letters,        \* what both sides take as it is, "n" and " " among it
  Newline, Return, Tab,
  Control,        \* any other character below U+0020
  AgentNames,     \* the names agents report under
  MaxChars        \* bound: length of the claim id and all results together

Quote == "\""
Backslash == "\\"

Special == <<Quote, Backslash, Newline, Return, Tab, Control>>

Char == Letters \cup ToSet(Special)

ASSUME PayloadAssumption ==
  /\ {"n", " "} \subseteq Letters
  /\ Letters \cap ToSet(Special) = {} /\ IsInjective(Special)
  /\ AgentNames \subseteq Seq(Char)
  /\ MaxChars \in Nat

VARIABLES
  claimId,
  findings   \* the entries of the barrier's map: agent and result, in order

(* String.replace.                                                         *)
Replace(s, ch, by) ==
  FlattenSeq([i \in 1..Len(s) |-> IF s[i] = ch THEN by ELSE <<s[i]>>])

(* Mutants: quotes before backslashes, and no quotes.                      *)
EscQuoteFirst(s) ==
  LET quote     == Replace(s, Quote, <<Backslash, Quote>>)
      backslash == Replace(quote, Backslash, <<Backslash, Backslash>>)
      newline   == Replace(backslash, Newline, <<Backslash, "n">>)
      return    == Replace(newline, Return, <<>>)
  IN  Replace(return, Tab, <<" ">>)

EscNoQuote(s) ==
  LET backslash == Replace(s, Backslash, <<Backslash, Backslash>>)
      newline   == Replace(backslash, Newline, <<Backslash, "n">>)
      return    == Replace(newline, Return, <<>>)
  IN  Replace(return, Tab, <<" ">>)

(* esc.                                                                    *)
Esc(s) ==
  LET backslash == Replace(s, Backslash, <<Backslash, Backslash>>)
      quote     == Replace(backslash, Quote, <<Backslash, Quote>>)
      newline   == Replace(quote, Newline, <<Backslash, "n">>)
      return    == Replace(newline, Return, <<>>)
  IN  Replace(return, Tab, <<" ">>)

Literal(s) == <<Quote>> \o Esc(s) \o <<Quote>>

(* The fields that hold a text, in the order payload writes them.          *)
Fields(claim, entries) ==
  <<claim>> \o
  FlattenSeq([i \in 1..Len(entries) |-> <<entries[i].agent, entries[i].text>>])

(* payload.                                                                *)
PayloadOf(claim, entries) ==
  LET fields == Fields(claim, entries)
  IN  FlattenSeq([i \in 1..Len(fields) |-> Literal(fields[i])])

(* json.loads, one character at a time: outside a literal, in one, or after*)
(* its backslash.  A raw control character in a literal is an error.       *)
Reads(state, ch) ==
  CASE state.mode = "out" /\ ch = Quote ->
         [state EXCEPT !.mode = "in", !.texts = Append(@, <<>>)]
    [] state.mode = "in" /\ ch = Quote -> [state EXCEPT !.mode = "out"]
    [] state.mode = "in" /\ ch = Backslash -> [state EXCEPT !.mode = "escape"]
    [] state.mode = "in" /\ ch \in Letters ->
         [state EXCEPT !.texts[Len(state.texts)] = Append(@, ch)]
    [] state.mode = "escape" /\ ch \in {Quote, Backslash} ->
         [mode |-> "in",
          texts |-> [state.texts EXCEPT ![Len(state.texts)] = Append(@, ch)]]
    [] state.mode = "escape" /\ ch = "n" ->
         [mode |-> "in",
          texts |-> [state.texts EXCEPT ![Len(state.texts)] = Append(@, Newline)]]
    [] OTHER -> [state EXCEPT !.mode = "error"]

Parsed(doc) == FoldLeft(Reads, [mode |-> "out", texts |-> <<>>], doc)

Parses(doc) == Parsed(doc).mode = "out"

(* _claim_id_of: "UNKNOWN" (here NoClaim) when the payload does not parse. *)
NoClaim == <<"U">>

ClaimIdOf(doc) == IF Parses(doc) THEN Parsed(doc).texts[1] ELSE NoClaim

-------------------------------------------------------------------------------
(* The claim ids and the findings, grown one character at a time; no agent *)
(* is twice in the map.                                                    *)

PayloadInit == claimId = <<>> /\ findings = <<>>

Chars == FoldLeft(LAMBDA n, entry : n + Len(entry.text), Len(claimId), findings)

GrowClaim ==
  /\ Chars < MaxChars
  /\ \E ch \in Char : claimId' = Append(claimId, ch)
  /\ UNCHANGED findings

Report ==
  /\ \E a \in AgentNames \ {findings[i].agent : i \in 1..Len(findings)} :
       findings' = Append(findings, [agent |-> a, text |-> <<>>])
  /\ UNCHANGED claimId

GrowResult ==
  /\ Chars < MaxChars
  /\ findings # <<>>
  /\ \E ch \in Char :
       findings' = [findings EXCEPT ![Len(findings)].text = Append(@, ch)]
  /\ UNCHANGED claimId

PayloadNext == GrowClaim \/ Report \/ GrowResult

PayloadSpec == PayloadInit /\ [][PayloadNext]_<<claimId, findings>>

-------------------------------------------------------------------------------

Written == Fields(claimId, findings)

Row == PayloadOf(claimId, findings)

(* What esc drops: carriage returns, and the difference of tab and space.  *)
PlainOf(ch) ==
  CASE ch = Return -> <<>>
    [] ch = Tab -> <<" ">>
    [] OTHER -> <<ch>>

Plain(s) == FlattenSeq([i \in 1..Len(s) |-> PlainOf(s[i])])

HasControl(s) == \E i \in 1..Len(s) : s[i] = Control

(* No text can end its literal early, open another one, or reach the claim *)
(* id or the text of another agent: the orchestrator reads back exactly    *)
(* what the barrier wrote, except for carriage returns and tabs.           *)
RoundTrip ==
  (\A i \in 1..Len(Written) : ~HasControl(Written[i])) =>
    Parsed(Row) = [mode |-> "out", texts |-> [i \in 1..Len(Written) |-> Plain(Written[i])]]

(* An answer never reaches the prompt of a claim it was not given for: the *)
(* claim id read back is the row's own or that of no claim.                *)
ClaimIdIsOwnOrUnknown == ClaimIdOf(Row) \in {Plain(claimId), NoClaim}

===============================================================================
