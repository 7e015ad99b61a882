------------------------------ MODULE Conversation ------------------------------
(***************************************************************************)
(* QueryService.ask around the query graph: the conversation is created on *)
(* first use, the question is stored, the graph loads the bounded context  *)
(* and answers, the answer is stored and the rolling summary is updated    *)
(* (services/query_service.py, services/conversation_memory.py,            *)
(* repositories/conversation.py).  Every repository call has a session of  *)
(* its own; asks of the same conversation run concurrently.                *)
(*                                                                         *)
(* A summary is identified with the messages that went into it.            *)
(***************************************************************************)
EXTENDS Naturals, FiniteSets

CONSTANTS
    Asks,            \* calls of QueryService.ask
    Conversations,   \* conversation ids the callers send
    Tenants,
    None,
    RecentLimit,     \* settings.conversation_recent_message_limit
    MaxRunning,      \* bound: asks under way at once
    MaxFaults        \* bound: calls that fail, and answers that are empty

ASSUME ConversationAssumption ==
    /\ None \notin Tenants \cup Asks
    /\ RecentLimit \in Nat
    /\ MaxRunning \in Nat
    /\ MaxFaults \in Nat

VARIABLES
    owner,        \* conversations.tenant_id, None: no such row
    messages,     \* rows of conversation_messages
    summaries,    \* rows of conversation_summaries
    clock,        \* the time
    pc,           \* the call each ask awaits
    ask,          \* the arguments of each ask
    stamp,        \* created_at of the message being stored, start of the transaction
    recent,       \* the messages read
    summary,      \* the summary read or written
    found,        \* the summary row update_summary has selected
    faults,       \* how many calls have failed
    overlapped    \* history: conversations asked while an ask of them was running

tables == <<owner, messages, summaries>>
local  == <<ask, stamp, recent, summary, found>>
vars   == <<tables, clock, pc, local, faults, overlapped>>

-----------------------------------------------------------------------------
Steps == {"ensure", "create", "question", "recent", "latest", "graph", "answer",
          "review_recent", "review_latest", "summarize", "begin", "find", "write"}
\* _update_conversation_summary, whose errors are only logged
SummarySteps == {"review_recent", "review_latest", "summarize", "begin", "find", "write"}
Ended == {"answered", "unanswered", "failed"}

Roles   == {"user", "assistant"}
Message == [conversation : Conversations, ask : Asks, role : Roles, created : Nat]
NoAsk   == [conversation |-> None, tenant |-> None]

Init ==
    /\ owner = [c \in Conversations |-> None]
    /\ messages = {}
    /\ summaries = {}
    /\ clock = 0
    /\ pc = [a \in Asks |-> "idle"]
    /\ ask = [a \in Asks |-> NoAsk]
    /\ stamp = [a \in Asks |-> 0]
    /\ recent = [a \in Asks |-> {}]
    /\ summary = [a \in Asks |-> {}]
    /\ found = [a \in Asks |-> None]
    /\ faults = 0
    /\ overlapped = [c \in Conversations |-> FALSE]

Conv(a) == ask[a].conversation
Running == {a \in Asks : pc[a] \in Steps}

At(a, step)   == pc[a] = step
Goto(a, step) == pc' = [pc EXCEPT ![a] = step]

\* datetime.now(timezone.utc), or now() of a transaction that begins
TakeTime(a) ==
    /\ clock' = clock + 1
    /\ stamp' = [stamp EXCEPT ![a] = clock + 1]

\* Faulty variant: the queries do not look at the tenant.
OwnedByAnyone(a) == owner[Conv(a)] # None

\* "where conversation_id = ... and tenant_id = ...", in every repository method
Owned(a) == owner[Conv(a)] = ask[a].tenant

OfConversation(a) == {m \in messages : m.conversation = Conv(a)}

\* Faulty variant: the oldest messages.
OldestMessages(a) ==
    {m \in OfConversation(a) :
        Cardinality({n \in OfConversation(a) : n.created < m.created}) < RecentLimit}

\* order_by(created_at.desc()).limit(limit)
RecentMessages(a) ==
    {m \in OfConversation(a) :
        Cardinality({n \in OfConversation(a) : n.created > m.created}) < RecentLimit}

Newer(r, s) ==
    \/ r.updated > s.updated
    \/ r.updated = s.updated /\ r.created > s.created

\* order_by(updated_at.desc(), created_at.desc()).limit(1)
Latest(a) ==
    LET rows == {s \in summaries : s.conversation = Conv(a)}
    IN  {s \in rows : \A r \in rows : ~Newer(r, s)}

-----------------------------------------------------------------------------
(* How a call fails: without its effect, or with its answer lost.          *)

\* Faulty variant: an answer that is not stored is only logged.
SaveIsOptional(a) == IF pc[a] \in SummarySteps \cup {"answer"} THEN "answered" ELSE "failed"

\* Only errors of the summary are caught.
Handler(a) == IF pc[a] \in SummarySteps THEN "answered" ELSE "failed"
Raise(a) == faults < MaxFaults /\ faults' = faults + 1 /\ Goto(a, Handler(a))

CallFails(a) ==
    /\ pc[a] \in Steps
    /\ Raise(a)
    /\ UNCHANGED <<tables, clock, local, overlapped>>

Reply(a, step) ==
    \/ Goto(a, step) /\ UNCHANGED faults
    \/ Raise(a)

-----------------------------------------------------------------------------
(* The ask.                                                                *)

Ask(a, c, t) ==
    /\ At(a, "idle")
    /\ Cardinality(Running) < MaxRunning
    /\ ask' = [ask EXCEPT ![a] = [conversation |-> c, tenant |-> t]]
    /\ overlapped' = [overlapped EXCEPT ![c] =
                        @ \/ \E b \in Running : Conv(b) = c]
    /\ Goto(a, "ensure")
    /\ UNCHANGED <<tables, clock, stamp, recent, summary, found, faults>>

EnsureConversation(a) ==
    /\ At(a, "ensure")
    /\ IF Owned(a) THEN Goto(a, "question") /\ TakeTime(a)
                   ELSE Goto(a, "create") /\ UNCHANGED <<clock, stamp>>
    /\ UNCHANGED <<tables, ask, recent, summary, found, faults, overlapped>>

\* Someone, of any tenant, may have created it since: the primary key conflicts.
CreateConversation(a) ==
    /\ At(a, "create")
    /\ IF owner[Conv(a)] # None
         THEN Goto(a, "failed") /\ UNCHANGED <<owner, clock, stamp, faults>>
         ELSE /\ owner' = [owner EXCEPT ![Conv(a)] = ask[a].tenant]
              /\ Reply(a, "question")
              /\ TakeTime(a)
    /\ UNCHANGED <<messages, summaries, ask, recent, summary, found, overlapped>>

Save(a, role) ==
    messages' = messages \cup
        {[conversation |-> Conv(a), ask |-> a, role |-> role, created |-> stamp[a]]}

\* save_message raises when the tenant has no such conversation.
SaveMessage(a) ==
    /\ pc[a] \in {"question", "answer"}
    /\ \/ ~Owned(a) /\ Goto(a, "failed") /\ UNCHANGED <<messages, faults>>
       \/ /\ Owned(a)
          /\ IF At(a, "question") THEN Save(a, "user") /\ Reply(a, "recent")
                                  ELSE Save(a, "assistant") /\ Reply(a, "review_recent")
    /\ UNCHANGED <<owner, summaries, clock, local, overlapped>>

\* get_context, once in the graph and once for the summary: two queries.
ReadRecent(a) ==
    /\ pc[a] \in {"recent", "review_recent"}
    /\ recent' = [recent EXCEPT ![a] = IF Owned(a) THEN RecentMessages(a) ELSE {}]
    /\ Goto(a, IF At(a, "recent") THEN "latest" ELSE "review_latest")
    /\ UNCHANGED <<tables, clock, ask, stamp, summary, found, faults, overlapped>>

ReadSummary(a) ==
    /\ pc[a] \in {"latest", "review_latest"}
    /\ IF ~Owned(a) \/ Latest(a) = {}
         THEN summary' = [summary EXCEPT ![a] = {}]
         ELSE \E s \in Latest(a) : summary' = [summary EXCEPT ![a] = s.covers]
    /\ Goto(a, IF At(a, "latest") THEN "graph" ELSE "summarize")
    /\ UNCHANGED <<tables, clock, ask, stamp, recent, found, faults, overlapped>>

\* The rest of the graph.  A blank answer is returned, but neither stored nor
\* summarized.
RunGraph(a) ==
    /\ At(a, "graph")
    /\ \/ Goto(a, "answer") /\ TakeTime(a) /\ UNCHANGED faults
       \/ /\ faults < MaxFaults /\ faults' = faults + 1
          /\ Goto(a, "unanswered") /\ UNCHANGED <<clock, stamp>>
    /\ UNCHANGED <<tables, ask, recent, summary, found, overlapped>>

-----------------------------------------------------------------------------
(* _update_conversation_summary.                                           *)

\* The model is given the summary and the recent messages; a blank summary is
\* not stored.
Summarize(a) ==
    /\ At(a, "summarize")
    /\ \/ /\ summary' = [summary EXCEPT ![a] = @ \cup recent[a]]
          /\ Goto(a, "begin") /\ UNCHANGED faults
       \/ Raise(a) /\ UNCHANGED summary
    /\ UNCHANGED <<tables, clock, ask, stamp, recent, found, overlapped>>

\* The first query of update_summary begins the transaction.
BeginUpdate(a) ==
    /\ At(a, "begin")
    /\ TakeTime(a)
    /\ Goto(a, IF Owned(a) THEN "find" ELSE Handler(a))
    /\ UNCHANGED <<tables, ask, recent, summary, found, faults, overlapped>>

FindSummary(a) ==
    /\ At(a, "find")
    /\ IF Latest(a) = {} THEN found' = [found EXCEPT ![a] = None]
                         ELSE \E s \in Latest(a) : found' = [found EXCEPT ![a] = s.id]
    /\ Goto(a, "write")
    /\ UNCHANGED <<tables, clock, ask, stamp, recent, summary, faults, overlapped>>

WriteSummary(a) ==
    /\ At(a, "write")
    /\ IF found[a] = None
         THEN summaries' = summaries \cup
                {[conversation |-> Conv(a), id |-> a, covers |-> summary[a],
                  created |-> stamp[a], updated |-> stamp[a]]}
         ELSE summaries' = {IF s.id = found[a]
                              THEN [s EXCEPT !.covers = summary[a], !.updated = stamp[a]]
                              ELSE s : s \in summaries}
    /\ Reply(a, "answered")
    /\ UNCHANGED <<owner, messages, clock, local, overlapped>>

Step(a) ==
    \/ EnsureConversation(a) \/ CreateConversation(a) \/ SaveMessage(a) \/ ReadRecent(a)
    \/ ReadSummary(a) \/ RunGraph(a) \/ Summarize(a) \/ BeginUpdate(a) \/ FindSummary(a)
    \/ WriteSummary(a)

Next == \E a \in Asks :
    \/ \E c \in Conversations, t \in Tenants : Ask(a, c, t)
    \/ Step(a) \/ CallFails(a)

Spec == Init /\ [][Next]_vars

-----------------------------------------------------------------------------
(* Properties.                                                             *)

\* A conversation belongs to one tenant, whoever sends its id and whenever: no
\* message of another tenant gets into it, and none is read into a context or a
\* summary ("belong to the tenant", repositories/conversation.py).
TenantsApart ==
    /\ \A m \in messages : ask[m.ask].tenant = owner[m.conversation]
    /\ \A a \in Asks : \A m \in recent[a] \cup summary[a] : ask[m.ask].tenant = ask[a].tenant

\* "Full conversation history is persisted" (services/conversation_memory.py): an
\* ask that returned an answer has its question and its answer in the history, in
\* this order and once, and no answer is there without its question.
HistoryIsWhole ==
    \A a \in Asks :
        LET of(role) == {m.created : m \in {n \in messages : n.ask = a /\ n.role = role}}
        IN  /\ Cardinality(of("user")) <= 1 /\ Cardinality(of("assistant")) <= 1
            /\ At(a, "answered") => of("assistant") # {}
            /\ \A r \in of("assistant") : \E q \in of("user") : q < r

\* "Only bounded context is exposed to the query workflow: rolling summary + recent N
\* messages" (services/conversation_memory.py).  While the asks of a conversation
\* take turns, and no more of them fail than the window has room for, nothing that
\* was said is outside of both.
NothingForgotten ==
    \A a \in Asks :
        /\ Cardinality(recent[a]) <= RecentLimit
        /\ At(a, "graph") /\ ~overlapped[Conv(a)] /\ 2 * faults + 2 <= RecentLimit =>
               OfConversation(a) \subseteq recent[a] \cup summary[a]
================================================================================
