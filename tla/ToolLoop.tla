-------------------------------- MODULE ToolLoop ------------------------------
(***************************************************************************)
(* Agent.run (flinkswarm/llm.py): one run of the tool-calling loop over the*)
(* chat completions API, as every worker and the orchestrator call it.     *)
(*                                                                         *)
(* External: the model, which may answer anything in any format the API    *)
(* allows -- calls with or without an id, of tools that do not exist, with *)
(* arguments that are not JSON -- and the tools.                           *)
(***************************************************************************)
EXTENDS Naturals, Sequences, SequencesExt

CONSTANTS
  Tools,         \* the names this agent offers
  Foreign,       \* names of tools it does not have
  Ids,           \* ids a model gives its calls
  NoId,          \* a call without an id
  MaxToolIters,  \* LLM_MAX_TOOL_ITERS
  MaxCalls       \* bound: tool calls in one answer

ASSUME ToolLoopAssumption ==
  /\ Tools \cap Foreign = {}
  /\ NoId \notin Ids
  /\ MaxToolIters \in Nat /\ MaxCalls \in Nat
  /\ ((0..MaxToolIters) \X (0..MaxCalls)) \cap Ids = {}

VARIABLES
  messages,   \* the conversation, after the system and the user message
  used,       \* names of the tools called
  step,       \* iterations of the for loop begun
  calls,      \* the tool calls of the last answer
  index,      \* how many of these have been made
  pc,         \* "ask", "call", "return" or "raise"
  requests    \* chat completions requested (history)

vars == <<messages, used, step, calls, index, pc, requests>>

Call == [id : Ids \cup {NoId}, tool : Tools \cup Foreign]

Says(cs) == [role |-> "assistant", calls |-> cs]
Reply(id, error) == [role |-> "tool", id |-> id, error |-> error]

Init ==
  /\ messages = <<>>
  /\ used = <<>>
  /\ step = 0
  /\ calls = <<>>
  /\ index = 0
  /\ pc = "ask"
  /\ requests = 0

(* Mutants: no id is made up, or one that forgets the iteration.           *)
CallIdRaw(call) == call.id

CallIdOfIndex(call) == IF call.id = NoId THEN <<0, index>> ELSE call.id

(* tc.id or f"call_{step}_{i}".                                            *)
CallId(call) == IF call.id = NoId THEN <<step - 1, index>> ELSE call.id

(* A request of the loop: an answer without calls is the result.           *)
AskedWithin(limit) ==
  /\ pc = "ask"
  /\ step < limit
  /\ step' = step + 1
  /\ requests' = requests + 1
  /\ \/ /\ pc' = "return"
        /\ UNCHANGED <<messages, calls, index>>
     \/ \E cs \in BoundedSeq(Call, MaxCalls) :
          /\ cs # <<>>
          /\ messages' = Append(messages, Says(cs))
          /\ calls' = cs /\ index' = 0
          /\ pc' = "call"
  /\ UNCHANGED used

(* Mutant: one iteration too many.                                         *)
AskOnceMore == AskedWithin(MaxToolIters + 1)

(* One iteration's request.                                                *)
Ask == AskedWithin(MaxToolIters)

(* The call that is made next.                                             *)
Due == calls[index + 1]

(* It is made: what is appended to messages and to used.                   *)
Made(replies, names) ==
  /\ messages' = messages \o replies
  /\ used' = used \o names
  /\ index' = index + 1
  /\ pc' = IF index' = Len(calls) THEN "ask" ELSE "call"
  /\ UNCHANGED <<step, calls, requests>>

ReplyTo(call, error) == Reply(CallId(call), error)

(* Mutants: an unknown tool is skipped; only known tools are reported.     *)
InvokeSkipsUnknown ==
  /\ pc = "call"
  /\ \E error \in BOOLEAN :
       Made(IF Due.tool \in Tools THEN <<ReplyTo(Due, error)>>
                                            ELSE <<>>,
            <<Due.tool>>)

InvokeReportsKnown ==
  /\ pc = "call"
  /\ \E error \in BOOLEAN :
       Made(<<ReplyTo(Due, error)>>,
            IF Due.tool \in Tools THEN <<Due.tool>> ELSE <<>>)

(* An unknown tool, an exception of the tool and arguments the tool does   *)
(* not take (none, if they are not JSON) become an error the model reads;  *)
(* what a tool answers otherwise is left out.                              *)
Invoke ==
  /\ pc = "call"
  /\ \E error \in BOOLEAN :
       /\ Due.tool \notin Tools => error
       /\ Made(<<ReplyTo(Due, error)>>, <<Due.tool>>)

(* What a tool returned is not serializable: json.dumps is in no try.      *)
InvokeRaises ==
  /\ pc = "call"
  /\ Due.tool \in Tools
  /\ used' = Append(used, Due.tool)
  /\ pc' = "raise"
  /\ UNCHANGED <<messages, step, calls, index, requests>>

(* Mutant: the last request comes one iteration late, that is, never.      *)
WrapLate ==
  /\ pc = "ask"
  /\ step > MaxToolIters
  /\ requests' = requests + 1
  /\ pc' = "return"
  /\ UNCHANGED <<messages, used, step, calls, index>>

(* Out of iterations: a last request with no tools; calls are ignored.     *)
Wrap ==
  /\ pc = "ask"
  /\ step >= MaxToolIters
  /\ requests' = requests + 1
  /\ pc' = "return"
  /\ UNCHANGED <<messages, used, step, calls, index>>

(* A request fails, and nothing in run() catches it.                       *)
RequestRaises ==
  /\ pc = "ask"
  /\ requests' = requests + 1
  /\ pc' = "raise"
  /\ UNCHANGED <<messages, used, step, calls, index>>

Next == Ask \/ Invoke \/ InvokeRaises \/ Wrap \/ RequestRaises

Spec == Init /\ [][Next]_vars

(* Requests and tools return: the client times out.  Nothing has to raise. *)
FairSpec == Spec /\ WF_vars(Ask \/ Invoke \/ Wrap)

-------------------------------------------------------------------------------

ToolMessage == [role : {"tool"}, id : Ids \cup (Nat \X Nat), error : BOOLEAN]

Message ==
  [role : {"assistant"}, calls : BoundedSeq(Call, MaxCalls)] \cup ToolMessage

(* Type correctness of the conversation and of the loop's variables.       *)
TypeOK ==
  /\ messages \in Seq(Message)
  /\ used \in Seq(Tools \cup Foreign)
  /\ step \in 0..MaxToolIters
  /\ calls \in BoundedSeq(Call, MaxCalls)
  /\ index \in 0..Len(calls)
  /\ pc \in {"ask", "call", "return", "raise"}
  /\ requests \in Nat

(* The calls and the replies of the conversation, each in order.           *)
CallsOf(m) == IF m.role = "assistant" THEN m.calls ELSE <<>>

RepliesOf(m) == IF m.role = "tool" THEN <<m>> ELSE <<>>

Calls == FlattenSeq([i \in 1..Len(messages) |-> CallsOf(messages[i])])

Replies == FlattenSeq([i \in 1..Len(messages) |-> RepliesOf(messages[i])])

(* What the API demands of a request: every call of the conversation is    *)
(* answered once, in order, before the model is asked again, whatever calls*)
(* of unknown tools, bad arguments or raising tools it contains.           *)
AskedWithEveryCallAnswered ==
  pc = "ask" =>
    /\ Len(Replies) = Len(Calls)
    /\ \A i \in 1..Len(Calls) : Calls[i].id # NoId => Replies[i].id = Calls[i].id

(* Ids made up for calls without one never collide, within an answer or    *)
(* across the iterations of a run.                                         *)
InventedIdsDiffer ==
  \A i, j \in 1..Len(Replies) :
    i # j /\ Replies[i].id = Replies[j].id => Replies[i].id \in Ids

(* The names reported with the result are those of all calls of the run,   *)
(* in order (tool_calls of DecisionFinal).                                 *)
EveryCallIsReported ==
  pc = "return" => used = [i \in 1..Len(Calls) |-> Calls[i].tool]

(* A run costs at most MaxToolIters + 1 requests ...                       *)
RequestsBounded == requests <= MaxToolIters + 1

(* ... and ends, even with a model that calls tools for ever.              *)
Terminates == <>(pc \in {"return", "raise"})

===============================================================================
