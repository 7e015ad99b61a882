---------------------------- MODULE ConversationProofs ---------------------------
(***************************************************************************)
(* For any number of asks, conversations and tenants, and any failures:    *)
(* what is said to one tenant is read by none of the others, the history   *)
(* holds every question and answer once, and asks that take turns find in  *)
(* their bounded context all that was said.                                *)
(***************************************************************************)
EXTENDS Conversation, FiniteSetTheorems, TLAPS

-----------------------------------------------------------------------------
(* The inductive invariant.                                                *)

SummaryRow ==
    [conversation : Conversations, id : Asks, covers : SUBSET messages,
     created : Nat, updated : Nat]

Types ==
    /\ owner \in [Conversations -> Tenants \cup {None}]
    /\ pc \in [Asks -> Steps \cup Ended \cup {"idle"}]
    /\ ask \in [Asks -> [conversation : Conversations \cup {None}, tenant : Tenants \cup {None}]]
    /\ recent \in [Asks -> SUBSET messages]
    /\ summary \in [Asks -> SUBSET messages]
    /\ found \in [Asks -> Asks \cup {None}]
    /\ summaries \subseteq SummaryRow
    /\ clock \in Nat /\ stamp \in [Asks -> Nat]

Begun(a) == ~At(a, "idle")

\* The arguments of an ask that has begun.
Asked ==
    \A a \in Asks : Begun(a) => Conv(a) \in Conversations /\ ask[a].tenant \in Tenants

\* A message is of an ask of its conversation, whose tenant owns it.
MessageOk(m) ==
    /\ m.ask \in Asks /\ Begun(m.ask)
    /\ m.conversation = Conv(m.ask)
    /\ Owned(m.ask)

\* What a has read or summarized is of its own conversation and tenant.
Reads(a) ==
    /\ \A m \in recent[a] \cup summary[a] : m.conversation = Conv(a) /\ Owned(a)
    /\ At(a, "idle") => recent[a] = {} /\ summary[a] = {}

\* A summary is named by the ask that inserted it, and covers its conversation only.
SummaryOk(s) ==
    /\ s.id \in Asks /\ Begun(s.id)
    /\ s.conversation = Conv(s.id)
    /\ \A m \in s.covers : m.conversation = s.conversation

\* The row that an ask is about to replace is of its own conversation.
FindsOwn(a) ==
    At(a, "write") /\ found[a] # None => Begun(found[a]) /\ Conv(found[a]) = Conv(a)

ApartInv ==
    /\ Types /\ Asked
    /\ \A m \in messages : MessageOk(m)
    /\ \A s \in summaries : SummaryOk(s)
    /\ \A a \in Asks : Reads(a) /\ FindsOwn(a)

-----------------------------------------------------------------------------
(* What no step undoes.                                                    *)

LEMMA OneMoves ==
    ASSUME ApartInv, NEW a \in Asks, Step(a) \/ CallFails(a)
    PROVE  /\ Begun(a) /\ Begun(a)'
           /\ \A b \in Asks \ {a} : pc'[b] = pc[b]
<1>1. Begun(a)
  BY DEF Step, CallFails, EnsureConversation, CreateConversation, SaveMessage, ReadRecent,
      ReadSummary, RunGraph, Summarize, BeginUpdate, FindSummary, WriteSummary, Begun, At, Steps
<1>2. pc'[a] # "idle" /\ \A b \in Asks \ {a} : pc'[b] = pc[b]
  <2> USE DEF Goto, Raise, Reply, Handler, ApartInv, Types
  <2>1. CASE EnsureConversation(a) \/ CreateConversation(a)
    BY <2>1 DEF EnsureConversation, CreateConversation
  <2>2. CASE SaveMessage(a)
    BY <2>2 DEF SaveMessage
  <2>3. CASE ReadRecent(a) \/ ReadSummary(a)
    BY <2>3 DEF ReadRecent, ReadSummary
  <2>4. CASE RunGraph(a) \/ Summarize(a) \/ BeginUpdate(a)
    BY <2>4 DEF RunGraph, Summarize, BeginUpdate
  <2>5. CASE FindSummary(a) \/ WriteSummary(a) \/ CallFails(a)
    BY <2>5 DEF FindSummary, WriteSummary, CallFails
  <2> QED BY <2>1, <2>2, <2>3, <2>4, <2>5 DEF Step
<1> QED BY <1>1, <1>2 DEF Begun, At

\* The arguments of an ask that has begun stay.
LEMMA BegunStays ==
    ASSUME ApartInv, [Next]_vars, NEW a \in Asks, Begun(a)
    PROVE  Begun(a)' /\ ask'[a] = ask[a]
<1>1. CASE UNCHANGED vars
  BY <1>1 DEF vars, local, Begun, At
<1>2. ASSUME NEW b \in Asks, NEW c \in Conversations, NEW t \in Tenants, Ask(b, c, t)
      PROVE  Begun(a)' /\ ask'[a] = ask[a]
  BY <1>2 DEF Ask, At, Goto, Begun, ApartInv, Types
<1>3. ASSUME NEW b \in Asks, Step(b) \/ CallFails(b)
      PROVE  Begun(a)' /\ ask'[a] = ask[a]
  <2>1. ask' = ask
    BY <1>3 DEF Step, CallFails, EnsureConversation, CreateConversation, SaveMessage, ReadRecent,
          ReadSummary, RunGraph, Summarize, BeginUpdate, FindSummary, WriteSummary, local
  <2> QED BY <1>3, <2>1, OneMoves DEF Begun, At
<1> QED BY <1>1, <1>2, <1>3 DEF Next

\* The owner of a conversation does not change, and messages are kept.
LEMMA OwnerStays ==
    ASSUME ApartInv, [Next]_vars
    PROVE  /\ messages \subseteq messages'
           /\ \A c \in Conversations : owner[c] # None => owner'[c] = owner[c]
<1>1. CASE UNCHANGED vars
  BY <1>1 DEF vars, tables
<1>2. ASSUME NEW a \in Asks, CreateConversation(a)
      PROVE  \A c \in Conversations : owner[c] # None => owner'[c] = owner[c]
  BY <1>2 DEF CreateConversation, ApartInv, Types
<1>3. ASSUME NEW a \in Asks, CreateConversation(a) \/ SaveMessage(a)
      PROVE  messages \subseteq messages'
  BY <1>3 DEF CreateConversation, SaveMessage, Save
<1>4. ASSUME NEW a \in Asks, (Step(a) /\ ~CreateConversation(a)) \/ CallFails(a)
                             \/ \E c \in Conversations, t \in Tenants : Ask(a, c, t)
      PROVE  owner' = owner /\ (SaveMessage(a) \/ messages' = messages)
  BY <1>4 DEF Step, CallFails, Ask, EnsureConversation, SaveMessage, ReadRecent, ReadSummary,
        RunGraph, Summarize, BeginUpdate, FindSummary, WriteSummary, tables
<1> QED BY <1>1, <1>2, <1>3, <1>4 DEF Next

\* So what is known of an ask that owns its conversation stays known.
LEMMA OwnedStays ==
    ASSUME ApartInv, [Next]_vars, NEW a \in Asks, Begun(a), Owned(a)
    PROVE  Owned(a)' /\ Conv(a)' = Conv(a)
<1>1. ask'[a] = ask[a] /\ Conv(a) \in Conversations /\ ask[a].tenant \in Tenants
  BY BegunStays DEF ApartInv, Asked
<1>2. owner[Conv(a)] # None
  BY <1>1, ConversationAssumption DEF Owned
<1> QED BY <1>1, <1>2, OwnerStays DEF Owned, Conv

LEMMA OldMessages ==
    ASSUME ApartInv, [Next]_vars, NEW m \in messages
    PROVE  MessageOk(m)'
BY BegunStays, OwnedStays DEF ApartInv, MessageOk

LEMMA OldSummaries ==
    ASSUME ApartInv, [Next]_vars, NEW s \in summaries
    PROVE  SummaryOk(s)'
BY BegunStays, OwnerStays DEF ApartInv, SummaryOk, Conv

-----------------------------------------------------------------------------
(* Every step keeps the invariant.                                         *)

LEMMA InitApart == Init => ApartInv
BY DEF Init, NoAsk, ApartInv, Types, Asked, Reads, FindsOwn, Begun, At

\* The rows an ask selects are rows of its conversation.
LEMMA Selected ==
    ASSUME ApartInv, NEW a \in Asks
    PROVE  /\ RecentMessages(a) \subseteq messages
           /\ \A m \in RecentMessages(a) : m.conversation = Conv(a)
           /\ \A s \in Latest(a) : /\ s \in summaries /\ s.conversation = Conv(a)
                                   /\ s.covers \subseteq messages /\ s.id \in Asks
BY DEF RecentMessages, OfConversation, Latest, ApartInv, Types, SummaryRow

LEMMA TypesStep == ApartInv /\ [Next]_vars => Types'
<1> SUFFICES ASSUME ApartInv, [Next]_vars PROVE Types'
  OBVIOUS
<1> USE DEF Types, SummaryRow, At, Goto
<1>1. messages \subseteq messages'
  BY OwnerStays
<1>2. Types
  BY DEF ApartInv
<1>3. CASE UNCHANGED vars
  BY <1>2, <1>3 DEF vars, tables, local
<1>4. ASSUME NEW a \in Asks, NEW c \in Conversations, NEW t \in Tenants, Ask(a, c, t)
      PROVE  Types'
  BY <1>2, <1>4 DEF Ask, tables, Steps
<1>5. ASSUME NEW a \in Asks, EnsureConversation(a) \/ CreateConversation(a)
      PROVE  Types'
  <2>1. ask[a].tenant \in Tenants \cup {None}
    BY <1>2
  <2>2. CASE EnsureConversation(a)
    BY <1>2, <2>2 DEF EnsureConversation, TakeTime, tables, Steps
  <2>3. CASE CreateConversation(a)
    BY <1>2, <2>1, <2>3 DEF CreateConversation, TakeTime, Reply, Raise, Handler, Steps, Ended
  <2> QED BY <1>5, <2>2, <2>3
<1>6. ASSUME NEW a \in Asks, SaveMessage(a)
      PROVE  Types'
  <2>1. pc' \in [Asks -> Steps \cup Ended \cup {"idle"}]
    BY <1>2, <1>6 DEF SaveMessage, Reply, Raise, Handler, Steps, Ended
  <2> QED BY <1>1, <1>2, <1>6, <2>1 DEF SaveMessage, local
<1>7. ASSUME NEW a \in Asks, ReadRecent(a) \/ ReadSummary(a)
      PROVE  Types'
  <2>1. CASE ReadRecent(a)
    BY <1>2, <2>1, Selected DEF ReadRecent, tables, Steps
  <2>2. CASE ReadSummary(a)
    BY <1>2, <2>2, Selected DEF ReadSummary, tables, Steps
  <2> QED BY <1>7, <2>1, <2>2
<1>8. ASSUME NEW a \in Asks, RunGraph(a) \/ Summarize(a)
      PROVE  Types'
  <2>1. CASE RunGraph(a)
    BY <1>2, <2>1 DEF RunGraph, TakeTime, tables, Steps, Ended
  <2>2. CASE Summarize(a)
    BY <1>2, <2>2 DEF Summarize, Raise, Handler, tables, Steps, Ended
  <2> QED BY <1>8, <2>1, <2>2
<1>9. ASSUME NEW a \in Asks, BeginUpdate(a) \/ FindSummary(a)
      PROVE  Types'
  <2>1. CASE BeginUpdate(a)
    BY <1>2, <2>1 DEF BeginUpdate, TakeTime, Handler, tables, Steps, Ended
  <2>2. CASE FindSummary(a)
    BY <1>2, <2>2, Selected DEF FindSummary, tables, Steps
  <2> QED BY <1>9, <2>1, <2>2
<1>10. ASSUME NEW a \in Asks, WriteSummary(a)
       PROVE  Types'
  <2>1. pc' \in [Asks -> Steps \cup Ended \cup {"idle"}]
    BY <1>2, <1>10 DEF WriteSummary, Reply, Raise, Handler, Steps, Ended
  <2>2. CASE found[a] = None
    <3>1. Conv(a) \in Conversations
      BY <1>10 DEF WriteSummary, ApartInv, Asked, Begun
    <3> QED BY <1>2, <1>10, <2>1, <2>2, <3>1 DEF WriteSummary, local
  <2>3. CASE found[a] # None
    <3>1. \A s \in summaries : [s EXCEPT !.covers = summary[a], !.updated = stamp[a]] \in SummaryRow
      <4>1. summary[a] \in SUBSET messages /\ stamp[a] \in Nat
        BY <1>2
      <4> QED BY <1>2, <4>1
    <3>2. ASSUME NEW r \in summaries'
          PROVE  r \in SummaryRow
      <4>1. PICK s \in summaries : \/ r = s
                                  \/ r = [s EXCEPT !.covers = summary[a], !.updated = stamp[a]]
        BY <1>10, <2>3 DEF WriteSummary
      <4>2. s \in SummaryRow
        BY <1>2
      <4> HIDE DEF SummaryRow
      <4> QED BY <3>1, <4>1, <4>2
    <3>3. messages' = messages
      BY <1>10 DEF WriteSummary
    <3> QED BY <1>2, <1>10, <2>1, <3>2, <3>3 DEF WriteSummary, local
  <2> QED BY <2>2, <2>3
<1>11. ASSUME NEW a \in Asks, CallFails(a)
       PROVE  Types'
  BY <1>2, <1>11 DEF CallFails, Raise, Handler, tables, local, Steps, Ended
<1> QED BY <1>3, <1>4, <1>5, <1>6, <1>7, <1>8, <1>9, <1>10, <1>11 DEF Next, Step

LEMMA AskedStep == ApartInv /\ [Next]_vars => Asked'
<1> SUFFICES ASSUME ApartInv, [Next]_vars, NEW a \in Asks, Begun(a)'
             PROVE  Conv(a)' \in Conversations /\ ask'[a].tenant \in Tenants
  BY DEF Asked
<1>1. CASE Begun(a)
  BY <1>1, BegunStays DEF ApartInv, Asked, Conv
<1>2. CASE ~Begun(a)
  <2>1. CASE UNCHANGED vars
    BY <1>2, <2>1 DEF vars, Begun, At
  <2>2. ASSUME NEW b \in Asks, NEW c \in Conversations, NEW t \in Tenants, Ask(b, c, t)
        PROVE  Conv(a)' \in Conversations /\ ask'[a].tenant \in Tenants
    BY <1>2, <2>2 DEF Ask, Begun, At, Goto, Conv, ApartInv, Types
  <2>3. ASSUME NEW b \in Asks, Step(b) \/ CallFails(b)
        PROVE  FALSE
    BY <1>2, <2>3, OneMoves DEF Begun, At
  <2> QED BY <2>1, <2>2, <2>3 DEF Next
<1> QED BY <1>1, <1>2

LEMMA MessagesStep ==
    ASSUME ApartInv, [Next]_vars, NEW m \in messages'
    PROVE  MessageOk(m)'
<1>1. CASE m \in messages
  BY <1>1, OldMessages
<1>2. CASE m \notin messages
  <2>1. PICK a \in Asks : SaveMessage(a)
    BY <1>2 DEF Next, Step, CallFails, Ask, EnsureConversation, CreateConversation, ReadRecent,
          ReadSummary, RunGraph, Summarize, BeginUpdate, FindSummary, WriteSummary, vars, tables
  <2>2. m.ask = a /\ m.conversation = Conv(a) /\ Owned(a) /\ Begun(a)
    BY <1>2, <2>1 DEF SaveMessage, Save, Begun, At
  <2> QED BY <2>2, BegunStays, OwnedStays DEF MessageOk
<1> QED BY <1>1, <1>2

LEMMA ReadsStep ==
    ASSUME ApartInv, [Next]_vars, NEW a \in Asks
    PROVE  Reads(a)'
<1>1. Reads(a) /\ Types
  BY DEF ApartInv
<1>2. CASE UNCHANGED <<recent[a], summary[a]>> /\ Begun(a)
  BY <1>1, <1>2, BegunStays, OwnedStays DEF Reads, Begun
<1>3. CASE UNCHANGED <<recent[a], summary[a]>> /\ ~Begun(a)
  BY <1>1, <1>3 DEF Reads, Begun
<1>4. ASSUME ReadRecent(a) \/ ReadSummary(a) \/ Summarize(a)
      PROVE  Reads(a)'
  <2>1. Begun(a) /\ Begun(a)'
    BY <1>4, OneMoves DEF Step
  <2>2. Conv(a)' = Conv(a)
    BY <2>1, BegunStays DEF Conv
  <2>3. owner' = owner /\ (Owned(a)' <=> Owned(a))
    BY <1>4, <2>2 DEF ReadRecent, ReadSummary, Summarize, tables, Owned
  <2>4. \A m \in recent'[a] \cup summary'[a] : m.conversation = Conv(a) /\ Owned(a)
    <3>1. CASE ReadRecent(a)
      BY <1>1, <3>1, Selected DEF ReadRecent, Reads, Types
    <3>2. CASE ReadSummary(a)
      BY <1>1, <3>2, Selected DEF ReadSummary, Reads, Types, ApartInv, SummaryOk
    <3>3. CASE Summarize(a)
      BY <1>1, <3>3 DEF Summarize, Reads, Types
    <3> QED BY <1>4, <3>1, <3>2, <3>3
  <2> QED BY <2>1, <2>2, <2>3, <2>4 DEF Reads, Begun
<1>5. ASSUME NEW b \in Asks, b # a, ReadRecent(b) \/ ReadSummary(b) \/ Summarize(b)
      PROVE  UNCHANGED <<recent[a], summary[a]>>
  BY <1>1, <1>5 DEF ReadRecent, ReadSummary, Summarize, Types
<1>6. ASSUME ~ \E b \in Asks : ReadRecent(b) \/ ReadSummary(b) \/ Summarize(b)
      PROVE  UNCHANGED <<recent[a], summary[a]>>
  BY <1>6 DEF Next, Step, CallFails, Ask, EnsureConversation, CreateConversation, SaveMessage,
        RunGraph, BeginUpdate, FindSummary, WriteSummary, vars, local
<1> QED BY <1>2, <1>3, <1>4, <1>5, <1>6

LEMMA FindsStep ==
    ASSUME ApartInv, [Next]_vars, NEW a \in Asks
    PROVE  FindsOwn(a)'
<1>1. FindsOwn(a) /\ Types
  BY DEF ApartInv
<1> SUFFICES ASSUME At(a, "write")', found'[a] # None
             PROVE  (Begun(found[a]) /\ Conv(found[a]) = Conv(a))'
  BY DEF FindsOwn
<1>2. CASE At(a, "write") /\ found'[a] = found[a]
  <2>1. found[a] \in Asks /\ Begun(found[a]) /\ Conv(found[a]) = Conv(a) /\ Begun(a)
    BY <1>1, <1>2 DEF FindsOwn, Types, Begun, At
  <2> QED BY <1>2, <2>1, BegunStays DEF Begun, Conv
<1>3. CASE FindSummary(a)
  <2>1. PICK s \in Latest(a) : found'[a] = s.id
    BY <1>1, <1>3 DEF FindSummary, Types
  <2>2. s.id \in Asks /\ Begun(s.id) /\ Conv(s.id) = Conv(a) /\ Begun(a)
    BY <1>3, <2>1, Selected, OneMoves DEF ApartInv, SummaryOk, Step
  <2> QED BY <2>1, <2>2, BegunStays DEF Begun, Conv
<1>4. ASSUME ~FindSummary(a)
      PROVE  At(a, "write") /\ found'[a] = found[a]
  <2>1. found'[a] = found[a]
    BY <1>1, <1>4 DEF Next, Step, CallFails, Ask, EnsureConversation, CreateConversation,
          SaveMessage, ReadRecent, ReadSummary, RunGraph, Summarize, BeginUpdate, FindSummary,
          WriteSummary, vars, local, Types
  <2>2. At(a, "write")
    <3>1. CASE UNCHANGED vars
      BY <3>1 DEF vars, At
    <3>2. ASSUME NEW b \in Asks, b # a, Step(b) \/ CallFails(b)
          PROVE  At(a, "write")
      BY <3>2, OneMoves DEF At
    <3>3. ASSUME NEW b \in Asks, NEW c \in Conversations, NEW t \in Tenants, Ask(b, c, t)
          PROVE  At(a, "write")
      BY <1>1, <3>3 DEF Ask, At, Goto, Types
    <3>4. ASSUME Step(a) \/ CallFails(a)
          PROVE  FALSE
      BY <1>1, <1>4, <3>4 DEF Step, CallFails, EnsureConversation, CreateConversation, SaveMessage,
            ReadRecent, ReadSummary, RunGraph, Summarize, BeginUpdate, WriteSummary, Reply, Raise,
            Handler, At, Goto, Types
    <3> QED BY <3>1, <3>2, <3>3, <3>4 DEF Next
  <2> QED BY <2>1, <2>2
<1> QED BY <1>2, <1>3, <1>4

LEMMA SummariesStep ==
    ASSUME ApartInv, [Next]_vars, NEW s \in summaries'
    PROVE  SummaryOk(s)'
<1>1. CASE s \in summaries
  BY <1>1, OldSummaries
<1>2. CASE s \notin summaries
  <2>1. PICK a \in Asks : WriteSummary(a)
    BY <1>2 DEF Next, Step, CallFails, Ask, EnsureConversation, CreateConversation, SaveMessage,
          ReadRecent, ReadSummary, RunGraph, Summarize, BeginUpdate, FindSummary, vars, tables
  <2>2. Begun(a) /\ \A m \in summary[a] : m.conversation = Conv(a)
    BY <2>1, OneMoves DEF ApartInv, Reads, Step
  <2>3. CASE found[a] = None
    <3>1. s.id = a /\ s.conversation = Conv(a) /\ s.covers = summary[a]
      BY <1>2, <2>1, <2>3 DEF WriteSummary
    <3> QED BY <2>2, <3>1, BegunStays DEF SummaryOk, Conv
  <2>4. CASE found[a] # None
    <3>1. PICK r \in summaries : /\ r.id = found[a]
                                 /\ s = [r EXCEPT !.covers = summary[a], !.updated = stamp[a]]
      BY <1>2, <2>1, <2>4 DEF WriteSummary
    <3>2. /\ r.id \in Asks /\ Begun(r.id) /\ r.conversation = Conv(a)
          /\ s.id = r.id /\ s.conversation = r.conversation /\ s.covers = summary[a]
      BY <2>1, <2>4, <3>1 DEF ApartInv, SummaryOk, FindsOwn, WriteSummary, Types, SummaryRow
    <3>3. Conv(r.id) = Conv(a)
      BY <3>1, <3>2 DEF ApartInv, SummaryOk
    <3> QED BY <2>2, <3>2, <3>3, BegunStays DEF SummaryOk, Conv
  <2> QED BY <2>3, <2>4
<1> QED BY <1>1, <1>2

LEMMA StepKeeps == ApartInv /\ [Next]_vars => ApartInv'
BY TypesStep, AskedStep, MessagesStep, SummariesStep, ReadsStep, FindsStep DEF ApartInv

\* "belong to the tenant" (repositories/conversation.py): no message of another tenant is in
\* a conversation, a context or a summary, for any asks, conversations, tenants and failures.
THEOREM TenantsStayApart == Spec => []TenantsApart
<1>1. ApartInv => TenantsApart
  <2> SUFFICES ASSUME ApartInv PROVE TenantsApart
    OBVIOUS
  <2>1. \A m \in messages : ask[m.ask].tenant = owner[m.conversation]
    BY DEF ApartInv, MessageOk, Owned
  <2>2. ASSUME NEW a \in Asks, NEW m \in recent[a] \cup summary[a]
        PROVE  ask[m.ask].tenant = ask[a].tenant
    <3>1. m \in messages /\ m.conversation = Conv(a) /\ Owned(a)
      BY <2>2 DEF ApartInv, Types, Reads
    <3> QED BY <2>1, <3>1 DEF Owned
  <2> QED BY <2>1, <2>2 DEF TenantsApart
<1> QED BY <1>1, InitApart, StepKeeps, PTL DEF Spec

-----------------------------------------------------------------------------
(* The history.                                                            *)

Unasked    == {"idle", "ensure", "create", "question"}
Unanswered == {"recent", "latest", "graph", "answer"}

Said(a, role) == {m \in messages : m.ask = a /\ m.role = role}

\* What the history holds of an ask that is where it is.  The time of an answer is
\* taken after its question has been stored.
SaidByStep(a) ==
    /\ pc[a] \in Unasked => \A m \in messages : m.ask # a
    /\ pc[a] \in Unanswered => Said(a, "user") # {} /\ Said(a, "assistant") = {}
    /\ pc[a] \in SummarySteps \cup {"answered"} => Said(a, "assistant") # {}
    /\ stamp[a] <= clock
    /\ pc[a] = "answer" => \A m \in messages : m.ask = a => m.created < stamp[a]

\* A question and an answer are said once, and in this order.
SaidOnce ==
    /\ \A m \in messages : m.created \in Nat /\ m.created <= clock
    /\ \A m, n \in messages : m.ask = n.ask /\ m.role = n.role => m.created = n.created
    /\ \A r \in messages : r.role = "assistant" =>
          \E q \in messages : q.ask = r.ask /\ q.role = "user" /\ q.created < r.created

HistoryInv == ApartInv /\ SaidOnce /\ \A a \in Asks : SaidByStep(a)

LEMMA InitHistory == Init => HistoryInv
<1> HAVE Init
<1>1. ApartInv
  BY InitApart
<1>2. messages = {} /\ clock = 0 /\ \A a \in Asks : pc[a] = "idle" /\ stamp[a] = 0
  BY DEF Init
<1> QED BY <1>1, <1>2 DEF HistoryInv, SaidOnce, SaidByStep, Unasked, Unanswered, SummarySteps

\* How an ask goes on when it stores no message.
LEMMA AskMoves ==
    ASSUME ApartInv, [Next]_vars, NEW a \in Asks, ~SaveMessage(a)
    PROVE  /\ \/ pc'[a] = pc[a] /\ (pc[a] = "answer" => stamp'[a] = stamp[a])
              \/ pc[a] \in Unasked /\ pc'[a] \in Unasked \cup {"failed"}
              \/ pc[a] \in Unanswered /\ pc'[a] \in {"latest", "graph", "unanswered", "failed"}
              \/ /\ pc[a] \in Unanswered /\ pc'[a] = "answer"
                 /\ stamp'[a] = clock + 1 /\ clock' = clock + 1
              \/ pc[a] \in SummarySteps /\ pc'[a] \in SummarySteps \cup {"answered"}
           /\ \/ clock' = clock /\ stamp'[a] = stamp[a]
              \/ clock' = clock + 1 /\ stamp'[a] \in {stamp[a], clock + 1}
<1> DEFINE Goal ==
           /\ \/ pc'[a] = pc[a] /\ (pc[a] = "answer" => stamp'[a] = stamp[a])
              \/ pc[a] \in Unasked /\ pc'[a] \in Unasked \cup {"failed"}
              \/ pc[a] \in Unanswered /\ pc'[a] \in {"latest", "graph", "unanswered", "failed"}
              \/ /\ pc[a] \in Unanswered /\ pc'[a] = "answer"
                 /\ stamp'[a] = clock + 1 /\ clock' = clock + 1
              \/ pc[a] \in SummarySteps /\ pc'[a] \in SummarySteps \cup {"answered"}
           /\ \/ clock' = clock /\ stamp'[a] = stamp[a]
              \/ clock' = clock + 1 /\ stamp'[a] \in {stamp[a], clock + 1}
<1> USE DEF At, Goto, Unasked, Unanswered, SummarySteps
<1>0. Types
  BY DEF ApartInv
<1>1. ASSUME NEW b \in Asks, EnsureConversation(b) PROVE Goal
  BY <1>0, <1>1 DEF EnsureConversation, TakeTime, Types
<1>2. ASSUME NEW b \in Asks, CreateConversation(b) PROVE Goal
  BY <1>0, <1>2 DEF CreateConversation, TakeTime, Reply, Raise, Handler, Types
<1>3. ASSUME NEW b \in Asks, SaveMessage(b) PROVE Goal
  BY <1>0, <1>3 DEF SaveMessage, Reply, Raise, local, Types
<1>4. ASSUME NEW b \in Asks, ReadRecent(b) \/ ReadSummary(b) PROVE Goal
  BY <1>0, <1>4 DEF ReadRecent, ReadSummary, Types
<1>5. ASSUME NEW b \in Asks, RunGraph(b) PROVE Goal
  <2>1. CASE b = a
    BY <1>0, <1>5, <2>1 DEF RunGraph, TakeTime, Types
  <2>2. CASE b # a
    BY <1>0, <1>5, <2>2 DEF RunGraph, TakeTime, Types
  <2> QED BY <2>1, <2>2
<1>6. ASSUME NEW b \in Asks, Summarize(b) \/ BeginUpdate(b) PROVE Goal
  BY <1>0, <1>6 DEF Summarize, BeginUpdate, TakeTime, Raise, Handler, Types
<1>7. ASSUME NEW b \in Asks, FindSummary(b) \/ WriteSummary(b) PROVE Goal
  <2>1. CASE FindSummary(b)
    BY <1>0, <2>1 DEF FindSummary, Types
  <2>2. CASE WriteSummary(b)
    BY <1>0, <2>2 DEF WriteSummary, Reply, Raise, Handler, local, Types
  <2> QED BY <1>7, <2>1, <2>2
<1>8. ASSUME NEW b \in Asks, CallFails(b) PROVE Goal
  <2>1. /\ clock' = clock /\ stamp' = stamp /\ pc[b] \in Steps
        /\ pc' = [pc EXCEPT ![b] = IF pc[b] \in SummarySteps THEN "answered" ELSE "failed"]
    BY <1>8 DEF CallFails, Raise, Handler, local
  <2>2. pc[b] \in Unasked \cup Unanswered \cup SummarySteps
    BY <2>1 DEF Steps
  <2> QED BY <1>0, <2>1, <2>2 DEF Types
<1>9. ASSUME NEW b \in Asks, NEW c \in Conversations, NEW t \in Tenants, Ask(b, c, t) PROVE Goal
  BY <1>0, <1>9 DEF Ask, Types
<1>10. CASE UNCHANGED vars
  BY <1>10 DEF vars, local
<1> QED BY <1>1, <1>2, <1>3, <1>4, <1>5, <1>6, <1>7, <1>8, <1>9, <1>10 DEF Next, Step

\* What an ask that stores a message adds to the history, and where it goes.
LEMMA AskSaves ==
    ASSUME ApartInv, NEW a \in Asks, SaveMessage(a), messages' # messages
    PROVE  \E role \in Roles :
              /\ messages' = messages \cup
                    {[conversation |-> Conv(a), ask |-> a, role |-> role, created |-> stamp[a]]}
              /\ \/ role = "user" /\ pc[a] = "question" /\ pc'[a] \in {"recent", "failed"}
                 \/ role = "assistant" /\ pc[a] = "answer" /\ pc'[a] \in {"review_recent", "failed"}
BY DEF SaveMessage, Save, Reply, Raise, Handler, SummarySteps, Goto, At, Roles, ApartInv, Types

LEMMA Messenger ==
    ASSUME [Next]_vars
    PROVE  messages' = messages \/ \E a \in Asks : SaveMessage(a)
BY DEF Next, Step, CallFails, Ask, EnsureConversation, CreateConversation, ReadRecent, ReadSummary,
   RunGraph, Summarize, BeginUpdate, FindSummary, WriteSummary, vars, tables

\* Without a new message.
LEMMA QuietHistory ==
    ASSUME HistoryInv, [Next]_vars, messages' = messages
    PROVE  HistoryInv'
<1>1. ApartInv' /\ ApartInv /\ Types
  BY StepKeeps DEF HistoryInv, ApartInv
<1>2. clock \in Nat /\ \A a \in Asks : stamp[a] \in Nat
  BY <1>1 DEF Types
<1>3. clock' \in {clock, clock + 1}
  BY <1>1 DEF Next, Step, CallFails, Ask, EnsureConversation, CreateConversation, SaveMessage,
     ReadRecent, ReadSummary, RunGraph, Summarize, BeginUpdate, FindSummary, WriteSummary, vars, TakeTime
<1>4. SaidOnce'
  BY <1>2, <1>3 DEF HistoryInv, SaidOnce
<1>5. ASSUME NEW a \in Asks PROVE SaidByStep(a)'
  <2>1. SaidByStep(a) /\ \A m \in messages : m.created \in Nat /\ m.created <= clock
    BY DEF HistoryInv, SaidOnce
  <2>2. CASE SaveMessage(a)
    <3>1. pc'[a] = "failed" /\ stamp'[a] = stamp[a]
      <4>1. CASE Owned(a)
        <5>1. CASE pc[a] = "question"
          <6> DEFINE m == [conversation |-> Conv(a), ask |-> a, role |-> "user", created |-> stamp[a]]
          <6>1. m \in messages /\ m.ask = a
            BY <2>2, <4>1, <5>1 DEF SaveMessage, Save, At
          <6> QED BY <2>1, <5>1, <6>1 DEF SaidByStep, Unasked
        <5>2. CASE pc[a] = "answer"
          <6> DEFINE m == [conversation |-> Conv(a), ask |-> a, role |-> "assistant",
                           created |-> stamp[a]]
          <6>1. m \in messages /\ m.ask = a /\ m.role = "assistant"
            BY <2>2, <4>1, <5>2 DEF SaveMessage, Save, At
          <6> QED BY <2>1, <5>2, <6>1 DEF SaidByStep, Said, Unanswered
        <5> QED BY <2>2, <5>1, <5>2 DEF SaveMessage
      <4>2. CASE ~Owned(a)
        BY <1>1, <2>2, <4>2 DEF SaveMessage, Goto, Types, local
      <4> QED BY <4>1, <4>2
    <3> QED BY <1>2, <1>3, <2>1, <3>1 DEF SaidByStep, Unasked, Unanswered, SummarySteps
  <2>3. CASE ~SaveMessage(a)
    <3>1. stamp'[a] <= clock'
      BY <1>1, <1>2, <2>1, <2>3, AskMoves DEF SaidByStep
    <3>2. pc'[a] \in Unasked => \A m \in messages' : m.ask # a
      BY <1>1, <2>1, <2>3, AskMoves DEF SaidByStep, Unasked, Unanswered, SummarySteps
    <3>3. pc'[a] \in Unanswered => pc[a] \in Unanswered
      BY <1>1, <2>3, AskMoves DEF Unasked, Unanswered, SummarySteps
    <3>4. pc'[a] \in SummarySteps \cup {"answered"} => pc[a] \in SummarySteps \cup {"answered"}
      BY <1>1, <2>3, AskMoves DEF Unasked, Unanswered, SummarySteps
    <3>5. pc'[a] = "answer" => \A m \in messages' : m.ask = a => m.created < stamp'[a]
      BY <1>1, <1>2, <2>1, <2>3, AskMoves DEF SaidByStep, Unasked, Unanswered, SummarySteps
    <3> QED BY <2>1, <3>1, <3>2, <3>3, <3>4, <3>5 DEF SaidByStep, Said
  <2> QED BY <2>2, <2>3
<1> QED BY <1>1, <1>4, <1>5 DEF HistoryInv

\* With one.
LEMMA LongerHistory ==
    ASSUME HistoryInv, [Next]_vars, NEW a \in Asks, SaveMessage(a), messages' # messages
    PROVE  HistoryInv'
<1>1. ApartInv' /\ ApartInv /\ Types
  BY StepKeeps DEF HistoryInv, ApartInv
<1>2. PICK role \in Roles :
              /\ messages' = messages \cup
                    {[conversation |-> Conv(a), ask |-> a, role |-> role, created |-> stamp[a]]}
              /\ \/ role = "user" /\ pc[a] = "question" /\ pc'[a] \in {"recent", "failed"}
                 \/ role = "assistant" /\ pc[a] = "answer" /\ pc'[a] \in {"review_recent", "failed"}
  BY <1>1, AskSaves
<1> DEFINE new == [conversation |-> Conv(a), ask |-> a, role |-> role, created |-> stamp[a]]
<1>3. new.ask = a /\ new.role = role /\ new.created = stamp[a] /\ messages' = messages \cup {new}
  BY <1>2
<1>4. stamp' = stamp /\ clock' = clock /\ stamp[a] \in Nat /\ clock \in Nat
  BY <1>1 DEF SaveMessage, local, Types
<1>5. SaidByStep(a) /\ SaidOnce
  BY DEF HistoryInv
<1> HIDE DEF new
<1>6. \A m \in messages : m.ask = a => m.role # role
  BY <1>2, <1>5 DEF SaidByStep, Said, Unasked, Unanswered
<1>7. role = "assistant" => \E q \in messages : q.ask = a /\ q.role = "user" /\ q.created < stamp[a]
  BY <1>2, <1>5 DEF SaidByStep, Said, Unanswered
<1>8. SaidOnce'
  <2>1. \A m \in messages' : m.created \in Nat /\ m.created <= clock'
    BY <1>3, <1>4, <1>5 DEF SaidOnce, SaidByStep
  <2>2. \A m, n \in messages' : m.ask = n.ask /\ m.role = n.role => m.created = n.created
    BY <1>3, <1>5, <1>6 DEF SaidOnce
  <2>3. \A r \in messages' : r.role = "assistant" =>
          \E q \in messages' : q.ask = r.ask /\ q.role = "user" /\ q.created < r.created
    BY <1>3, <1>5, <1>7 DEF SaidOnce
  <2> QED BY <2>1, <2>2, <2>3 DEF SaidOnce
<1>9. ASSUME NEW b \in Asks PROVE SaidByStep(b)'
  <2>1. CASE b = a
    BY <1>2, <1>3, <1>4, <1>5, <2>1 DEF SaidByStep, Said, Unasked, Unanswered, SummarySteps
  <2>2. CASE b # a
    <3>1. pc'[b] = pc[b]
      BY <1>1, <2>2, OneMoves DEF Step
    <3>2. SaidByStep(b)
      BY DEF HistoryInv
    <3> QED BY <1>3, <1>4, <2>2, <3>1, <3>2 DEF SaidByStep, Said
  <2> QED BY <2>1, <2>2
<1> QED BY <1>1, <1>8, <1>9 DEF HistoryInv

\* "Full conversation history is persisted" (services/conversation_memory.py): an ask that
\* returned an answer has its question and its answer in the history, in this order and
\* once, for any asks of a conversation at the same time and any failures.
THEOREM WholeHistory == Spec => []HistoryIsWhole
<1>1. HistoryInv /\ [Next]_vars => HistoryInv'
  BY QuietHistory, LongerHistory, Messenger
<1>2. HistoryInv => HistoryIsWhole
  <2> SUFFICES ASSUME HistoryInv, NEW a \in Asks
               PROVE  LET of(role) == {m.created : m \in {n \in messages : n.ask = a /\ n.role = role}}
                      IN  /\ Cardinality(of("user")) <= 1 /\ Cardinality(of("assistant")) <= 1
                          /\ At(a, "answered") => of("assistant") # {}
                          /\ \A r \in of("assistant") : \E q \in of("user") : q < r
    BY DEF HistoryIsWhole
  <2> DEFINE Times(role) == {m.created : m \in {n \in messages : n.ask = a /\ n.role = role}}
  <2>1. SaidOnce /\ SaidByStep(a)
    BY DEF HistoryInv
  <2>2. ASSUME NEW role \in Roles PROVE Cardinality(Times(role)) <= 1
    <3>1. CASE Times(role) = {}
      BY <3>1, FS_EmptySet
    <3>2. ASSUME NEW t \in Times(role) PROVE Times(role) = {t}
      BY <2>1, <3>2 DEF SaidOnce
    <3> HIDE DEF Times
    <3>3. ASSUME NEW t \in Times(role) PROVE Cardinality(Times(role)) = 1
      BY <3>2, <3>3, FS_Singleton
    <3> QED BY <3>1, <3>3
  <2>3. At(a, "answered") => Times("assistant") # {}
    BY <2>1 DEF SaidByStep, Said, At
  <2>4. \A r \in Times("assistant") : \E q \in Times("user") : q < r
    BY <2>1 DEF SaidOnce
  <2> QED BY <2>2, <2>3, <2>4 DEF Roles
<1> QED BY <1>1, <1>2, InitHistory, PTL DEF Spec

-----------------------------------------------------------------------------
(* The bounded context.                                                    *)

Saving(a) == pc[a] \in {"question", "answer"}

\* No two messages have, or will have, the same time, so that a window of the newest
\* messages has no more than its size.
TimesDiffer ==
    /\ IsFiniteSet(messages)
    /\ \A m, n \in messages : m.created = n.created => m = n
    /\ \A a \in Asks : Saving(a) =>
          /\ \A m \in messages : m.created # stamp[a]
          /\ \A b \in Asks \ {a} : Saving(b) => stamp[b] # stamp[a]
    /\ \A a \in Asks : Cardinality(recent[a]) <= RecentLimit

Of(c)     == {m \in messages : m.conversation = c}
RowsOf(c) == {s \in summaries : s.conversation = c}
Asking(c) == {a \in Running : Conv(a) = c}

\* What no summary covers, and how much has been said since.
Left(c)      == {m \in Of(c) : \A s \in RowsOf(c) : m \notin s.covers}
SaidAfter(m) == {n \in Of(m.conversation) : n.created > m.created}
Since(m)     == Cardinality(SaidAfter(m))

\* Messages of an ask under way that no summary covers yet.
Own(a) == IF pc[a] \in SummarySteps THEN 2 ELSE IF pc[a] \in Unanswered THEN 1 ELSE 0

\* What an ask has read by the time it needs it.
Prepared(a) ==
    /\ Saving(a) => \A m \in messages : m.conversation = Conv(a) => m.created < stamp[a]
    /\ pc[a] \in {"latest", "review_latest"} => Left(Conv(a)) \subseteq recent[a]
    /\ pc[a] \in {"graph", "summarize"} => Of(Conv(a)) \subseteq recent[a] \cup summary[a]
    /\ pc[a] \in {"begin", "find", "write"} => Of(Conv(a)) \subseteq summary[a]
    /\ pc[a] = "write" => \A s \in RowsOf(Conv(a)) : s.id = found[a]
    /\ pc[a] = "write" /\ found[a] # None => RowsOf(Conv(a)) # {}

\* The asks of a conversation have taken turns, and few of them failed.
Lost      == 2 * faults
InTurn(c) == ~overlapped[c] /\ Lost + 2 <= RecentLimit

Turn(c) ==
    /\ \A a, b \in Asking(c) : a = b
    /\ \A s, r \in RowsOf(c) : s = r
    /\ \A m \in Left(c) : /\ Since(m) < Lost + 2
                          /\ \A a \in Asking(c) : Since(m) < Lost + Own(a)
                          /\ Asking(c) = {} => Since(m) < Lost
    /\ \A a \in Asking(c) : Prepared(a)

TurnsInv ==
    /\ HistoryInv /\ TimesDiffer
    /\ faults \in Nat /\ overlapped \in [Conversations -> BOOLEAN]
    /\ \A c \in Conversations : InTurn(c) => Turn(c)

LEMMA HistoryStep == HistoryInv /\ [Next]_vars => HistoryInv'
BY QuietHistory, LongerHistory, Messenger

\* A step of an ask leaves the others where they are.
LEMMA OthersKeep ==
    ASSUME Types, NEW a \in Asks,
           Step(a) \/ CallFails(a) \/ \E c \in Conversations, t \in Tenants : Ask(a, c, t),
           NEW b \in Asks, b # a
    PROVE  UNCHANGED <<pc[b], ask[b], stamp[b], recent[b], summary[b], found[b]>>
<1> USE DEF Types, Goto
<1>1. CASE \E c \in Conversations, t \in Tenants : Ask(a, c, t)
  BY <1>1 DEF Ask
<1>2. CASE EnsureConversation(a) \/ CreateConversation(a)
  BY <1>2 DEF EnsureConversation, CreateConversation, TakeTime, Reply, Raise
<1>3. CASE SaveMessage(a) \/ WriteSummary(a) \/ CallFails(a)
  BY <1>3 DEF SaveMessage, WriteSummary, CallFails, Reply, Raise, local
<1>4. CASE ReadRecent(a) \/ ReadSummary(a) \/ FindSummary(a)
  BY <1>4 DEF ReadRecent, ReadSummary, FindSummary
<1>5. CASE RunGraph(a) \/ Summarize(a) \/ BeginUpdate(a)
  BY <1>5 DEF RunGraph, Summarize, BeginUpdate, TakeTime, Raise
<1> QED BY <1>1, <1>2, <1>3, <1>4, <1>5 DEF Step

\* A window has no more messages than its size: two messages of different times do not have
\* the same number of newer ones.
LEMMA RecentFew ==
    ASSUME IsFiniteSet(messages), \A m, n \in messages : m.created = n.created => m = n,
           \A m \in messages : m.created \in Nat, NEW a \in Asks
    PROVE  Cardinality(RecentMessages(a)) <= RecentLimit
<1> DEFINE after(m) == {n \in OfConversation(a) : n.created > m.created}
           window   == RecentMessages(a)
           place    == [m \in window |-> Cardinality(after(m))]
<1>1. window \subseteq messages /\ OfConversation(a) \subseteq messages
  BY DEF RecentMessages, OfConversation
<1>2. ASSUME NEW m \in window
      PROVE  IsFiniteSet(after(m)) /\ Cardinality(after(m)) \in 0 .. RecentLimit - 1
  <2>1. IsFiniteSet(after(m))
    BY <1>1, FS_Subset
  <2>2. Cardinality(after(m)) < RecentLimit
    BY DEF RecentMessages
  <2> QED BY <2>1, <2>2, FS_CardinalityType, ConversationAssumption
<1>3. ASSUME NEW m \in window, NEW n \in window, m.created < n.created
      PROVE  Cardinality(after(m)) # Cardinality(after(n))
  <2>1. n \in after(m) /\ n \notin after(n)
    BY <1>1, <1>3 DEF RecentMessages
  <2>2. after(n) \in SUBSET after(m)
    BY <1>1, <1>3
  <2> HIDE DEF after
  <2> QED BY <1>2, <2>1, <2>2, FS_Subset
<1>4. place \in Injection(window, 0 .. RecentLimit - 1)
  <2>1. place \in [window -> 0 .. RecentLimit - 1]
    BY <1>2
  <2>2. ASSUME NEW m \in window, NEW n \in window, place[m] = place[n]
        PROVE  m = n
    <3>1. m.created = n.created
      BY <1>1, <1>3, <2>2
    <3> QED BY <1>1, <3>1
  <2> HIDE DEF place
  <2> QED BY <2>1, <2>2 DEF Injection, IsInjective
<1>5. IsFiniteSet(0 .. RecentLimit - 1) /\ Cardinality(0 .. RecentLimit - 1) = RecentLimit
  BY FS_Interval, ConversationAssumption
<1> HIDE DEF place
<1> QED BY <1>4, <1>5, FS_Injection

Moves(a) == Step(a) \/ CallFails(a) \/ \E c \in Conversations, t \in Tenants : Ask(a, c, t)

\* An ask that stores a message has the time of it since before, or takes it now.
LEMMA Stamped ==
    ASSUME Types, NEW a \in Asks, Moves(a), Saving(a)'
    PROVE  /\ messages' = messages
           /\ \/ Saving(a) /\ stamp'[a] = stamp[a]
              \/ stamp'[a] = clock + 1
<1> USE DEF Types, Goto, Saving, At, Steps
<1>1. CASE \E c \in Conversations, t \in Tenants : Ask(a, c, t)
  BY <1>1 DEF Ask
<1>2. CASE EnsureConversation(a)
  BY <1>2 DEF EnsureConversation, TakeTime, tables
<1>3. CASE CreateConversation(a)
  BY <1>3 DEF CreateConversation, TakeTime, Reply, Raise, Handler, SummarySteps
<1>4. CASE SaveMessage(a)
  BY <1>4 DEF SaveMessage, Reply, Raise, Handler, SummarySteps
<1>5. CASE ReadRecent(a) \/ ReadSummary(a) \/ FindSummary(a)
  BY <1>5 DEF ReadRecent, ReadSummary, FindSummary
<1>6. CASE RunGraph(a)
  BY <1>6 DEF RunGraph, TakeTime, tables
<1>7. CASE Summarize(a) \/ BeginUpdate(a)
  BY <1>7 DEF Summarize, BeginUpdate, Raise, Handler, SummarySteps
<1>8. CASE WriteSummary(a) \/ CallFails(a)
  BY <1>8 DEF WriteSummary, CallFails, Reply, Raise, Handler, SummarySteps
<1> QED BY <1>1, <1>2, <1>3, <1>4, <1>5, <1>6, <1>7, <1>8 DEF Step, Moves

LEMMA TimesStep ==
    ASSUME HistoryInv, TimesDiffer, NEW a \in Asks, Moves(a)
    PROVE  TimesDiffer'
<1>1. Types /\ SaidOnce /\ ApartInv /\ \A b \in Asks : stamp[b] <= clock /\ stamp[b] \in Nat
  BY DEF HistoryInv, ApartInv, SaidByStep, Types
<1>2. clock \in Nat /\ [Next]_vars
  BY <1>1 DEF Types, Moves, Next
<1>3. \A b \in Asks \ {a} : /\ Saving(b)' <=> Saving(b)
                            /\ stamp'[b] = stamp[b]
                            /\ recent'[b] = recent[b]
  BY <1>1, OthersKeep DEF Moves, Saving
<1>4. CASE messages' = messages
  <2>1. ASSUME NEW b \in Asks, Saving(b)', NEW m \in messages PROVE m.created # stamp'[b]
    <3>1. CASE b # a
      BY <1>3, <2>1, <3>1 DEF TimesDiffer
    <3>2. CASE b = a
      BY <1>1, <1>2, <2>1, <3>2, Stamped DEF TimesDiffer, SaidOnce
    <3> QED BY <3>1, <3>2
  <2>2. ASSUME NEW b \in Asks, NEW d \in Asks, b # d, Saving(b)', Saving(d)'
        PROVE  stamp'[b] # stamp'[d]
    <3>1. CASE b # a /\ d # a
      BY <1>3, <2>2, <3>1 DEF TimesDiffer
    <3>2. CASE b = a /\ d # a
      BY <1>1, <1>2, <1>3, <2>2, <3>2, Stamped DEF TimesDiffer
    <3>3. CASE b # a /\ d = a
      BY <1>1, <1>2, <1>3, <2>2, <3>3, Stamped DEF TimesDiffer
    <3> QED BY <2>2, <3>1, <3>2, <3>3
  <2>3. ASSUME NEW b \in Asks PROVE Cardinality(recent'[b]) <= RecentLimit
    <3>1. CASE b # a
      BY <1>3, <3>1 DEF TimesDiffer
    <3>2. CASE b = a /\ ReadRecent(a)
      <4>1. Cardinality(RecentMessages(a)) <= RecentLimit
        BY <1>1, RecentFew DEF TimesDiffer, SaidOnce
      <4>2. recent'[a] \in {RecentMessages(a), {}}
        BY <1>1, <3>2 DEF ReadRecent, Types
      <4> QED BY <3>2, <4>1, <4>2, FS_EmptySet, ConversationAssumption
    <3>3. CASE b = a /\ ~ReadRecent(a)
      <4>1. recent' = recent
        BY <3>3 DEF Moves, Step, CallFails, Ask, EnsureConversation, CreateConversation,
           SaveMessage, ReadSummary, RunGraph, Summarize, BeginUpdate, FindSummary, WriteSummary, local
      <4> QED BY <4>1 DEF TimesDiffer
    <3> QED BY <3>1, <3>2, <3>3
  <2> QED BY <1>4, <2>1, <2>2, <2>3 DEF TimesDiffer
<1>5. CASE messages' # messages
  <2>1. ~Saving(a)'
    BY <1>1, <1>5, Stamped
  <2>2. SaveMessage(a) /\ Saving(a)
    BY <1>5 DEF Moves, Step, CallFails, Ask, EnsureConversation, CreateConversation, ReadRecent,
       ReadSummary, RunGraph, Summarize, BeginUpdate, FindSummary, WriteSummary, tables, Saving, SaveMessage
  <2>3. PICK role \in Roles : messages' = messages \cup
                    {[conversation |-> Conv(a), ask |-> a, role |-> role, created |-> stamp[a]]}
    BY <1>1, <1>5, <2>2, AskSaves
  <2> DEFINE new == [conversation |-> Conv(a), ask |-> a, role |-> role, created |-> stamp[a]]
  <2>4. new.created = stamp[a] /\ messages' = messages \cup {new}
    BY <2>3
  <2>5. recent' = recent
    BY <2>2 DEF SaveMessage, local
  <2> HIDE DEF new
  <2>6. IsFiniteSet(messages')
    BY <2>4, FS_AddElement DEF TimesDiffer
  <2>7. \A m, n \in messages' : m.created = n.created => m = n
    BY <2>2, <2>4 DEF TimesDiffer
  <2>8. ASSUME NEW b \in Asks, Saving(b)'
        PROVE  /\ \A m \in messages' : m.created # stamp'[b]
               /\ \A d \in Asks \ {b} : Saving(d)' => stamp'[d] # stamp'[b]
    <3>1. b # a /\ Saving(b) /\ stamp'[b] = stamp[b] /\ stamp[a] # stamp[b]
      BY <1>3, <2>1, <2>2, <2>8 DEF TimesDiffer
    <3>2. \A m \in messages' : m.created # stamp'[b]
      BY <2>4, <3>1 DEF TimesDiffer
    <3>3. \A d \in Asks \ {b} : Saving(d)' => stamp'[d] # stamp'[b]
      BY <1>3, <2>1, <3>1 DEF TimesDiffer
    <3> QED BY <3>2, <3>3
  <2> QED BY <2>5, <2>6, <2>7, <2>8 DEF TimesDiffer
<1> QED BY <1>4, <1>5

\* Once asks have overlapped, or too many failed, it stays so.
LEMMA TurnBefore ==
    ASSUME NEW a \in Asks, Moves(a), faults \in Nat, overlapped \in [Conversations -> BOOLEAN]
    PROVE  /\ faults' \in {faults, faults + 1}
           /\ faults' = faults => Lost' = Lost
           /\ faults' = faults + 1 => Lost' = Lost + 2
           /\ Lost \in Nat
           /\ overlapped' \in [Conversations -> BOOLEAN]
           /\ \A c \in Conversations : InTurn(c)' => InTurn(c)
<1> USE DEF Moves, Step, CallFails, Ask, EnsureConversation, CreateConversation, SaveMessage,
      ReadRecent, ReadSummary, RunGraph, Summarize, BeginUpdate, FindSummary, WriteSummary
<1>1. faults' \in {faults, faults + 1}
  BY DEF Reply, Raise
<1>2. /\ overlapped' \in [Conversations -> BOOLEAN]
      /\ \A c \in Conversations : overlapped[c] => overlapped'[c]
  <2>1. ASSUME NEW d \in Conversations, NEW t \in Tenants, Ask(a, d, t)
        PROVE  /\ overlapped' \in [Conversations -> BOOLEAN]
               /\ \A c \in Conversations : overlapped[c] => overlapped'[c]
    BY <2>1, ZenonT(20)
  <2>2. ASSUME ~ \E d \in Conversations, t \in Tenants : Ask(a, d, t)
        PROVE  overlapped' = overlapped
    BY <2>2
  <2> QED BY <2>1, <2>2
<1>3. /\ Lost \in Nat
      /\ faults' = faults => Lost' = Lost
      /\ faults' = faults + 1 => Lost' = Lost + 2
  <2>1. 2 * faults \in Nat /\ 2 * (faults + 1) = 2 * faults + 2
    BY ONLY faults \in Nat
  <2>2. faults' = faults => Lost' = Lost
    BY ONLY DEF Lost
  <2>3. faults' = faults + 1 => Lost' = Lost + 2
    BY ONLY <2>1 DEF Lost
  <2> QED BY ONLY <2>1, <2>2, <2>3 DEF Lost
<1>4. ASSUME NEW c \in Conversations PROVE InTurn(c)' => InTurn(c)
  <2>1. Lost' + 2 <= RecentLimit => Lost + 2 <= RecentLimit
    BY ONLY <1>1, <1>3, ConversationAssumption
  <2>2. ~overlapped'[c] => ~overlapped[c]
    BY ONLY <1>2
  <2> QED BY ONLY <2>1, <2>2, ZenonT(20) DEF InTurn
<1> QED BY <1>1, <1>2, <1>3, <1>4

\* An ask that has said something owns its conversation.
LEMMA OwnsIts ==
    ASSUME HistoryInv, NEW a \in Asks, pc[a] \in Unanswered \cup SummarySteps
    PROVE  Owned(a)
<1>1. PICK m \in messages : m.ask = a
  BY DEF HistoryInv, SaidByStep, Said
<1> QED BY <1>1 DEF HistoryInv, ApartInv, MessageOk

\* A step of an ask of another conversation.
LEMMA Elsewhere ==
    ASSUME TurnsInv, NEW a \in Asks, Moves(a), NEW c \in Conversations,
           c # Conv(a)', InTurn(c)'
    PROVE  Turn(c)'
<1>1. Types /\ ApartInv /\ HistoryInv /\ faults \in Nat /\ overlapped \in [Conversations -> BOOLEAN]
  BY DEF TurnsInv, HistoryInv, ApartInv
<1>2. Turn(c)
  BY <1>1, TurnBefore DEF TurnsInv
<1>3. Lost \in Nat /\ (Lost' = Lost \/ Lost' = Lost + 2)
  BY <1>1, TurnBefore
<1>4. Begun(a) => Conv(a)' = Conv(a)
  BY <1>1, BegunStays DEF Moves, Next, Conv
<1>5. \A b \in Asks \ {a} : UNCHANGED <<pc[b], ask[b], stamp[b], recent[b], summary[b], found[b]>>
  BY <1>1, OthersKeep DEF Moves
<1>6. Asking(c)' = Asking(c) /\ a \notin Asking(c)
  BY <1>4, <1>5 DEF Asking, Running, Conv, Begun, At, Steps
<1>7. Of(c)' = Of(c)
  <2>1. CASE messages' = messages
    BY <2>1 DEF Of
  <2>2. CASE messages' # messages
    <3>1. SaveMessage(a)
      BY <2>2 DEF Moves, Step, CallFails, Ask, EnsureConversation, CreateConversation, ReadRecent,
         ReadSummary, RunGraph, Summarize, BeginUpdate, FindSummary, WriteSummary, tables
    <3>2. Begun(a)
      BY <3>1 DEF SaveMessage, Begun, At
    <3>3. PICK role \in Roles : messages' = messages \cup
                    {[conversation |-> Conv(a), ask |-> a, role |-> role, created |-> stamp[a]]}
      BY <1>1, <2>2, <3>1, AskSaves
    <3> QED BY <1>4, <3>2, <3>3 DEF Of
  <2> QED BY <2>1, <2>2
<1>8. RowsOf(c)' = RowsOf(c)
  <2>1. CASE summaries' = summaries
    BY <2>1 DEF RowsOf
  <2>2. CASE summaries' # summaries
    <3>1. WriteSummary(a)
      BY <2>2 DEF Moves, Step, CallFails, Ask, EnsureConversation, CreateConversation, SaveMessage,
         ReadRecent, ReadSummary, RunGraph, Summarize, BeginUpdate, FindSummary, tables
    <3>2. Begun(a) /\ Conv(a) # c
      BY <1>4, <3>1 DEF WriteSummary, Begun, At
    <3>3. CASE found[a] = None
      BY <3>1, <3>2, <3>3 DEF WriteSummary, RowsOf
    <3>4. CASE found[a] # None
      <4>1. ASSUME NEW s \in summaries
            PROVE  /\ s.conversation = c => s.id # found[a]
                   /\ [s EXCEPT !.covers = summary[a], !.updated = stamp[a]].conversation = s.conversation
        <5>1. s \in SummaryRow /\ SummaryOk(s) /\ FindsOwn(a)
          BY <1>1 DEF Types, ApartInv
        <5> QED BY <3>1, <3>2, <3>4, <5>1 DEF SummaryRow, SummaryOk, FindsOwn, WriteSummary
      <4>2. summaries' = {IF s.id = found[a]
                            THEN [s EXCEPT !.covers = summary[a], !.updated = stamp[a]]
                            ELSE s : s \in summaries}
        BY <3>1, <3>4 DEF WriteSummary
      <4>3. ASSUME NEW s \in RowsOf(c) PROVE s \in RowsOf(c)'
        BY <4>1, <4>2, <4>3 DEF RowsOf
      <4>4. ASSUME NEW r \in RowsOf(c)' PROVE r \in RowsOf(c)
        <5>1. PICK s \in summaries : r = IF s.id = found[a]
                            THEN [s EXCEPT !.covers = summary[a], !.updated = stamp[a]]
                            ELSE s
          BY <4>2, <4>4 DEF RowsOf
        <5>2. r.conversation = c
          BY <4>4 DEF RowsOf
        <5> QED BY <4>1, <5>1, <5>2 DEF RowsOf
      <4> QED BY <4>3, <4>4
    <3> QED BY <3>3, <3>4
  <2> QED BY <2>1, <2>2
<1>9. Left(c)' = Left(c)
  BY <1>7, <1>8 DEF Left
<1>10. \A m \in Left(c) : Since(m)' = Since(m)
  BY <1>7 DEF Left, Of, Since, SaidAfter
<1>11. \A b \in Asking(c) : Own(b)' = Own(b)
  BY <1>5, <1>6 DEF Own, Asking, Running
<1>12. ASSUME NEW b \in Asking(c) PROVE Prepared(b)'
  <2>1. Prepared(b) /\ Conv(b) = c /\ Conv(b)' = c /\ b \in Asks \ {a}
    BY <1>2, <1>5, <1>6 DEF Turn, Asking, Running, Conv
  <2>2. Saving(b) => \A m \in Of(c) : m.created < stamp[b]
    BY <2>1 DEF Prepared, Of
  <2>3. (Saving(b) => \A m \in Of(c) : m.created < stamp[b])'
    BY <1>5, <1>7, <2>1, <2>2 DEF Saving
  <2>4. (Saving(b) => \A m \in messages : m.conversation = Conv(b) => m.created < stamp[b])'
    BY <2>1, <2>3 DEF Of
  <2> QED BY <1>5, <1>7, <1>8, <1>9, <2>1, <2>4 DEF Prepared
<1>13. \A m \in Left(c) : Since(m) \in Nat
  BY <1>1, FS_Subset, FS_CardinalityType DEF TurnsInv, TimesDiffer, Since, SaidAfter, Of
<1>14. \A b \in Asks : Own(b) \in {0, 1, 2}
  BY DEF Own
<1>15. ASSUME NEW m \in Left(c)'
       PROVE  /\ Since(m)' < Lost' + 2
              /\ \A b \in Asking(c)' : Since(m)' < Lost' + Own(b)'
              /\ (Asking(c) = {})' => Since(m)' < Lost'
  BY <1>2, <1>3, <1>6, <1>9, <1>10, <1>11, <1>13, <1>14 DEF Turn, Asking, Running
<1> QED BY <1>2, <1>6, <1>8, <1>12, <1>15 DEF Turn

\* An ask begins when no other one of the conversation is under way.
LEMMA Begins ==
    ASSUME TurnsInv, NEW a \in Asks, NEW c \in Conversations, NEW t \in Tenants, Ask(a, c, t),
           InTurn(c)'
    PROVE  Turn(c)'
<1>1. Types /\ ApartInv /\ faults' = faults /\ overlapped \in [Conversations -> BOOLEAN]
  BY DEF TurnsInv, HistoryInv, ApartInv, Ask
<1>2. Turn(c)
  BY <1>1, TurnBefore DEF TurnsInv, Moves
<1>3. /\ Conv(a)' = c /\ pc'[a] = "ensure" /\ pc[a] = "idle"
      /\ \A b \in Asks \ {a} : pc'[b] = pc[b] /\ Conv(b)' = Conv(b)
  BY <1>1 DEF Ask, Goto, At, Types, Conv
<1>4. Asking(c) = {}
  <2>1. overlapped'[c] = (overlapped[c] \/ \E b \in Running : Conv(b) = c)
    BY <1>1 DEF Ask
  <2>2. ~overlapped'[c]
    BY DEF InTurn
  <2>3. ~ \E b \in Running : Conv(b) = c
    BY <2>1, <2>2, ZenonT(20)
  <2> QED BY <2>3 DEF Asking
<1>5. Asking(c)' = {a}
  BY <1>3, <1>4 DEF Asking, Running, Steps
<1>6. Of(c)' = Of(c) /\ RowsOf(c)' = RowsOf(c) /\ Left(c)' = Left(c) /\ Lost' = Lost
  BY <1>1 DEF Ask, tables, Of, RowsOf, Left, Lost
<1>7. \A m \in Left(c) : Since(m)' = Since(m)
  BY DEF Ask, tables, Since, SaidAfter, Of
<1>8. Own(a)' = 0
  BY <1>3 DEF Own, SummarySteps, Unanswered
<1>9. Prepared(a)'
  BY <1>3 DEF Prepared, Saving
<1>10. Lost \in Nat
  BY <1>1, TurnBefore DEF TurnsInv, Moves
<1>11. \A m \in Left(c) : Since(m) < Lost + 2 /\ Since(m) < Lost + 0
  BY <1>2, <1>4, <1>10 DEF Turn
<1> QED BY <1>2, <1>5, <1>6, <1>7, <1>8, <1>9, <1>11 DEF Turn

\* The conversation of an ask under way, while its asks take turns.
LEMMA Alone ==
    ASSUME TurnsInv, NEW a \in Asks, Step(a) \/ CallFails(a), NEW c \in Conversations, c = Conv(a)',
           InTurn(c)'
    PROVE  /\ Conv(a) = c /\ Turn(c) /\ InTurn(c) /\ Prepared(a)
           /\ Asking(c) = {a}
           /\ Asking(c)' = IF pc'[a] \in Steps THEN {a} ELSE {}
<1>1. Types /\ ApartInv /\ faults \in Nat /\ overlapped \in [Conversations -> BOOLEAN]
  BY DEF TurnsInv, HistoryInv, ApartInv
<1>2. Conv(a) = c /\ pc[a] \in Steps
  <2>1. Begun(a)
    BY <1>1, OneMoves
  <2>2. Conv(a) = c
    BY <1>1, <2>1, BegunStays DEF Next, Conv
  <2>3. pc[a] \in Steps
    BY DEF Step, CallFails, EnsureConversation, CreateConversation, SaveMessage, ReadRecent,
       ReadSummary, RunGraph, Summarize, BeginUpdate, FindSummary, WriteSummary, At, Steps
  <2> QED BY <2>2, <2>3
<1>3. Turn(c) /\ InTurn(c)
  BY <1>1, <1>2, TurnBefore DEF TurnsInv, Moves
<1>4. Asking(c) = {a}
  BY <1>2, <1>3 DEF Turn, Asking, Running
<1>5. Asking(c)' = IF pc'[a] \in Steps THEN {a} ELSE {}
  <2>1. \A b \in Asks \ {a} : pc'[b] = pc[b] /\ Conv(b)' = Conv(b)
    BY <1>1, OthersKeep DEF Conv
  <2> QED BY <1>2, <1>4, <2>1 DEF Asking, Running
<1> QED BY <1>2, <1>3, <1>4, <1>5 DEF Turn

\* What is to be shown of it then.
LEMMA TurnAfter ==
    ASSUME NEW a \in Asks, NEW c \in Conversations,
           Lost' \in Nat,
           Asking(c)' = IF pc'[a] \in Steps THEN {a} ELSE {},
           \A s, r \in RowsOf(c)' : s = r,
           \A m \in Left(c)' : Since(m)' \in Nat /\ Since(m)' < Lost' + Own(a)',
           pc'[a] \in Steps => Prepared(a)'
    PROVE  Turn(c)'
<1>1. Own(a)' \in {0, 1, 2} /\ (pc'[a] \notin Steps => Own(a)' = 0)
  BY DEF Own, Steps, SummarySteps, Unanswered
<1>2. ASSUME NEW m \in Left(c)'
      PROVE  /\ Since(m)' < Lost' + 2
             /\ \A b \in Asking(c)' : Since(m)' < Lost' + Own(b)'
             /\ (Asking(c) = {})' => Since(m)' < Lost'
  <2>1. Since(m)' \in Nat /\ Since(m)' < Lost' + Own(a)' /\ Lost' \in Nat
    OBVIOUS
  <2>2. Since(m)' < Lost' + 2
    BY <1>1, <2>1
  <2>3. \A b \in Asking(c)' : b = a
    OBVIOUS
  <2>4. (Asking(c) = {})' => Since(m)' < Lost'
    BY <1>1, <2>1
  <2> QED BY <2>1, <2>2, <2>3, <2>4
<1>3. \A b, d \in Asking(c)' : b = d
  OBVIOUS
<1>4. \A b \in Asking(c)' : Prepared(b)'
  OBVIOUS
<1> QED BY <1>2, <1>3, <1>4 DEF Turn

\* A failure makes up for the messages of the ask that it ends.
LEMMA Account ==
    ASSUME TurnsInv, NEW a \in Asks, Step(a) \/ CallFails(a), ~(SaveMessage(a) /\ Owned(a)),
           ~WriteSummary(a)
    PROVE  Lost + Own(a) <= Lost' + Own(a)'
<1>1. Types /\ Lost \in Nat /\ Lost' \in Nat
      /\ (faults' = faults => Lost' = Lost) /\ (faults' = faults + 1 => Lost' = Lost + 2)
      /\ faults' \in {faults, faults + 1}
  BY TurnBefore DEF TurnsInv, HistoryInv, ApartInv, Moves
<1>2. pc[a] \in Unanswered \cup SummarySteps => Owned(a)
  BY OwnsIts DEF TurnsInv
<1>3. Own(a) \in {0, 1, 2} /\ Own(a)' \in {0, 1, 2}
  BY DEF Own
<1> SUFFICES faults' = faults + 1 \/ Own(a) = 0 \/ Own(a)' = Own(a)
  BY <1>1, <1>3
<1> USE DEF Goto, At, Own, Unanswered, SummarySteps
<1>4. CASE EnsureConversation(a) \/ CreateConversation(a)
  BY <1>4 DEF EnsureConversation, CreateConversation
<1>5. CASE SaveMessage(a)
  BY <1>2, <1>5 DEF SaveMessage
<1>6. CASE ReadRecent(a) \/ ReadSummary(a) \/ FindSummary(a)
  BY <1>1, <1>6 DEF ReadRecent, ReadSummary, FindSummary, Types
<1>7. CASE RunGraph(a)
  BY <1>1, <1>7 DEF RunGraph, Types
<1>8. CASE Summarize(a) \/ CallFails(a)
  BY <1>1, <1>8 DEF Summarize, CallFails, Raise, Types
<1>9. CASE BeginUpdate(a)
  BY <1>1, <1>2, <1>9 DEF BeginUpdate, Types
<1> QED BY <1>4, <1>5, <1>6, <1>7, <1>8, <1>9 DEF Step

LEMMA SinceNat ==
    ASSUME TimesDiffer, NEW m
    PROVE  IsFiniteSet(SaidAfter(m)) /\ Since(m) \in Nat
BY FS_Subset, FS_CardinalityType DEF TimesDiffer, Since, SaidAfter, Of

\* What an ask has read when it goes on to a step, messages and summaries being the same.
LEMMA PreparedNext ==
    ASSUME TurnsInv, NEW a \in Asks, Step(a) \/ CallFails(a), NEW c \in Conversations, c = Conv(a)',
           InTurn(c)', UNCHANGED <<messages, summaries>>, pc'[a] \in Steps
    PROVE  Prepared(a)'
<1>1. Types /\ ApartInv /\ SaidOnce /\ TimesDiffer
  BY DEF TurnsInv, HistoryInv, ApartInv
<1>2. Conv(a) = c /\ Turn(c) /\ InTurn(c) /\ Prepared(a) /\ Asking(c) = {a}
  BY Alone
<1>3. Of(c)' = Of(c) /\ RowsOf(c)' = RowsOf(c) /\ Left(c)' = Left(c)
  BY DEF Of, RowsOf, Left
<1>4. Latest(a) = {} => RowsOf(c) = {}
  <2> SUFFICES ASSUME NEW s \in RowsOf(c) PROVE s \in Latest(a)
    OBVIOUS
  <2>1. s \in SummaryRow /\ RowsOf(c) = {s}
    BY <1>1, <1>2 DEF RowsOf, Types, Turn
  <2> QED BY <1>2, <2>1 DEF Latest, RowsOf, Newer, SummaryRow
<1>5. \A s \in Latest(a) : RowsOf(c) = {s}
  BY <1>2 DEF Latest, RowsOf, Turn
<1> USE DEF Goto, At, Steps
<1>6. CASE EnsureConversation(a) \/ CreateConversation(a) \/ RunGraph(a)
  <2>1. \/ pc'[a] = "create"
        \/ pc'[a] \in {"question", "answer"} /\ stamp'[a] = clock + 1
    <3>1. CASE EnsureConversation(a)
      BY <1>1, <3>1 DEF EnsureConversation, TakeTime, Types
    <3>2. CASE CreateConversation(a)
      BY <1>1, <3>2 DEF CreateConversation, TakeTime, Reply, Raise, Handler, SummarySteps, Types
    <3>3. CASE RunGraph(a)
      BY <1>1, <3>3 DEF RunGraph, TakeTime, Types
    <3> QED BY <1>6, <3>1, <3>2, <3>3
  <2>2. \A m \in messages : m.created \in Nat /\ m.created <= clock
    BY <1>1 DEF SaidOnce
  <2>3. clock \in Nat
    BY <1>1 DEF Types
  <2> QED BY <2>1, <2>2, <2>3 DEF Prepared, Saving
<1>7. CASE SaveMessage(a)
  BY <1>1, <1>7 DEF SaveMessage, Reply, Raise, Handler, SummarySteps, Prepared, Saving, Types
<1>8. CASE ReadRecent(a)
  <2>1. pc'[a] \in {"latest", "review_latest"} /\ pc[a] \in {"recent", "review_recent"}
    BY <1>1, <1>8 DEF ReadRecent, Types
  <2>2. Owned(a)
    BY <2>1, OwnsIts DEF TurnsInv, Unanswered, SummarySteps
  <2>3. recent'[a] = RecentMessages(a)
    BY <1>1, <1>8, <2>2 DEF ReadRecent, Types
  <2>4. ASSUME NEW m \in Left(c) PROVE m \in RecentMessages(a)
    <3>1. Since(m) < Lost + 2 /\ Lost + 2 <= RecentLimit /\ Since(m) \in Nat /\ Lost \in Nat
      BY <1>1, <1>2, TurnBefore, SinceNat DEF Turn, InTurn, TurnsInv, Moves
    <3>2. m \in OfConversation(a) /\ SaidAfter(m) = {n \in OfConversation(a) : n.created > m.created}
      BY <1>2 DEF Left, Of, OfConversation, SaidAfter
    <3>3. Since(m) < RecentLimit
      BY <3>1, ConversationAssumption
    <3> QED BY <3>2, <3>3 DEF RecentMessages, Since
  <2>5. Conv(a)' = c
    OBVIOUS
  <2> QED BY <1>3, <2>1, <2>3, <2>4, <2>5 DEF Prepared, Saving
<1>9. CASE ReadSummary(a)
  <2>1. pc'[a] \in {"graph", "summarize"} /\ pc[a] \in {"latest", "review_latest"} /\ recent' = recent
    BY <1>1, <1>9 DEF ReadSummary, Types
  <2>2. Owned(a)
    BY <2>1, OwnsIts DEF TurnsInv, Unanswered, SummarySteps
  <2>3. Left(c) \subseteq recent[a]
    BY <1>2, <2>1 DEF Prepared
  <2>4. Of(c) \subseteq recent[a] \cup summary'[a]
    <3>1. CASE Latest(a) = {}
      BY <1>4, <2>3, <3>1 DEF Left
    <3>2. CASE Latest(a) # {}
      <4>1. PICK s \in Latest(a) : summary'[a] = s.covers
        BY <1>1, <1>9, <2>2, <3>2 DEF ReadSummary, Types
      <4> QED BY <1>5, <2>3, <4>1 DEF Left
    <3> QED BY <3>1, <3>2
  <2> QED BY <1>3, <2>1, <2>4 DEF Prepared, Saving
<1>10. CASE Summarize(a)
  <2>1. pc'[a] = "begin" /\ pc[a] = "summarize" /\ summary'[a] = summary[a] \cup recent[a]
    BY <1>1, <1>10 DEF Summarize, Raise, Handler, SummarySteps, Types
  <2> QED BY <1>2, <1>3, <2>1 DEF Prepared, Saving
<1>11. CASE BeginUpdate(a)
  <2>1. pc'[a] = "find" /\ pc[a] = "begin" /\ summary' = summary
    BY <1>1, <1>11 DEF BeginUpdate, Handler, SummarySteps, Types
  <2> QED BY <1>2, <1>3, <2>1 DEF Prepared, Saving
<1>12. CASE FindSummary(a)
  <2>1. pc'[a] = "write" /\ pc[a] = "find" /\ summary' = summary
    BY <1>1, <1>12 DEF FindSummary, Types
  <2>2. /\ \A s \in RowsOf(c) : s.id = found'[a]
        /\ found'[a] # None => RowsOf(c) # {}
    <3>1. CASE Latest(a) = {}
      BY <1>1, <1>4, <1>12, <3>1 DEF FindSummary, Types
    <3>2. CASE Latest(a) # {}
      <4>1. PICK s \in Latest(a) : found'[a] = s.id
        BY <1>1, <1>12, <3>2 DEF FindSummary, Types
      <4> QED BY <1>5, <4>1
    <3> QED BY <3>1, <3>2
  <2> QED BY <1>2, <1>3, <2>1, <2>2 DEF Prepared, Saving
<1>13. CASE WriteSummary(a) \/ CallFails(a)
  BY <1>1, <1>13 DEF WriteSummary, CallFails, Reply, Raise, Handler, SummarySteps, Types
<1> QED BY <1>6, <1>7, <1>8, <1>9, <1>10, <1>11, <1>12, <1>13 DEF Step

LEMMA QuietTurn ==
    ASSUME TurnsInv, NEW a \in Asks, Step(a) \/ CallFails(a), ~(SaveMessage(a) /\ Owned(a)),
           ~WriteSummary(a), NEW c \in Conversations, c = Conv(a)', InTurn(c)'
    PROVE  Turn(c)'
<1>1. UNCHANGED <<messages, summaries>>
  BY DEF Step, CallFails, EnsureConversation, CreateConversation, SaveMessage, ReadRecent,
     ReadSummary, RunGraph, Summarize, BeginUpdate, FindSummary, tables
<1>2. Of(c)' = Of(c) /\ RowsOf(c)' = RowsOf(c) /\ Left(c)' = Left(c)
  BY <1>1 DEF Of, RowsOf, Left
<1>3. ASSUME NEW m \in Left(c) PROVE Since(m)' = Since(m)
  BY <1>1 DEF Since, SaidAfter, Of
<1>4. Turn(c) /\ Asking(c) = {a} /\ Asking(c)' = IF pc'[a] \in Steps THEN {a} ELSE {}
  BY Alone
<1>5. Lost \in Nat /\ Lost' \in Nat /\ Lost + Own(a) <= Lost' + Own(a)'
  BY Account, TurnBefore DEF TurnsInv, Moves
<1>6. Own(a) \in Nat /\ Own(a)' \in Nat
  BY DEF Own
<1>7. ASSUME NEW m \in Left(c)' PROVE Since(m)' \in Nat /\ Since(m)' < Lost' + Own(a)'
  <2>1. Since(m) < Lost + Own(a) /\ Since(m) \in Nat
    BY <1>2, <1>4, SinceNat DEF Turn, TurnsInv
  <2> QED BY <1>2, <1>3, <1>5, <1>6, <2>1
<1>8. pc'[a] \in Steps => Prepared(a)'
  BY <1>1, PreparedNext
<1>9. \A s, r \in RowsOf(c)' : s = r
  BY <1>2, <1>4 DEF Turn
<1> QED BY <1>4, <1>5, <1>7, <1>8, <1>9, TurnAfter

\* The message that is stored is the newest of its conversation.
LEMMA SavingTurn ==
    ASSUME TurnsInv, NEW a \in Asks, SaveMessage(a), Owned(a), NEW c \in Conversations,
           c = Conv(a)', InTurn(c)'
    PROVE  Turn(c)'
<1>1. Types /\ ApartInv /\ SaidOnce /\ TimesDiffer
  BY DEF TurnsInv, HistoryInv, ApartInv
<1>2. /\ Conv(a) = c /\ Turn(c) /\ Prepared(a) /\ Asking(c) = {a}
      /\ Asking(c)' = IF pc'[a] \in Steps THEN {a} ELSE {}
  BY Alone DEF Step
<1>3. PICK role \in Roles : messages' = messages \cup
          {[conversation |-> Conv(a), ask |-> a, role |-> role, created |-> stamp[a]]}
  BY DEF SaveMessage, Save, Roles
<1> DEFINE new == [conversation |-> Conv(a), ask |-> a, role |-> role, created |-> stamp[a]]
<1>4. new.conversation = c /\ new.created = stamp[a] /\ messages' = messages \cup {new}
  BY <1>2, <1>3
<1> HIDE DEF new
<1>5. Of(c)' = Of(c) \cup {new} /\ RowsOf(c)' = RowsOf(c)
  BY <1>4 DEF Of, RowsOf, SaveMessage
<1>6. \A m \in Of(c) : m.created < stamp[a] /\ m.created \in Nat
  BY <1>1, <1>2 DEF Prepared, Saving, SaveMessage, Of, SaidOnce
<1>7. stamp[a] \in Nat
  BY <1>1 DEF Types
<1>8. Lost \in Nat /\ Lost' \in Nat /\ Lost + Own(a) + 1 <= Lost' + Own(a)'
  <2>1. /\ Lost \in Nat /\ Lost' \in Nat
        /\ (faults' = faults => Lost' = Lost) /\ (faults' = faults + 1 => Lost' = Lost + 2)
    BY TurnBefore DEF TurnsInv, Moves, Step
  <2>2. \/ Own(a) = 0 /\ Own(a)' = 1 /\ faults' = faults
        \/ Own(a) = 1 /\ Own(a)' = 2 /\ faults' = faults
        \/ Own(a) \in {0, 1} /\ Own(a)' = 0 /\ faults' = faults + 1
    BY <1>1 DEF SaveMessage, Reply, Raise, Handler, Goto, At, SummarySteps, Unanswered, Own, Types
  <2> QED BY <2>1, <2>2
<1>9. Own(a) \in Nat /\ Own(a)' \in Nat
  BY DEF Own
<1>10. ASSUME NEW m \in Left(c)' PROVE Since(m)' \in Nat /\ Since(m)' < Lost' + Own(a)'
  <2>1. m \in Of(c) \cup {new} /\ m.conversation = c
    BY <1>4, <1>5 DEF Left, Of
  <2>2. CASE m = new
    <3>1. SaidAfter(m)' = {}
      BY <1>4, <1>5, <1>6, <1>7, <2>1, <2>2 DEF SaidAfter
    <3>2. Since(m)' = 0
      BY <3>1, FS_EmptySet DEF Since
    <3> QED BY <1>8, <1>9, <3>2
  <2>3. CASE m \in Of(c)
    <3>1. m \in Left(c)
      BY <1>5, <2>3 DEF Left
    <3>2. SaidAfter(m)' \in {SaidAfter(m), SaidAfter(m) \cup {new}}
      BY <1>5, <2>1 DEF SaidAfter
    <3>3. Since(m)' \in {Since(m), Since(m) + 1}
      BY <1>1, <3>2, SinceNat, FS_AddElement DEF Since
    <3>4. Since(m) \in Nat /\ Since(m) < Lost + Own(a)
      BY <1>1, <1>2, <3>1, SinceNat DEF Turn
    <3> QED BY <1>8, <1>9, <3>3, <3>4
  <2> QED BY <2>1, <2>2, <2>3
<1>11. pc'[a] \in Steps => Prepared(a)'
  BY <1>1 DEF SaveMessage, Reply, Raise, Handler, Goto, At, Steps, SummarySteps, Prepared, Saving, Types
<1>12. \A s, r \in RowsOf(c)' : s = r
  BY <1>2, <1>5 DEF Turn
<1> QED BY <1>2, <1>8, <1>10, <1>11, <1>12, TurnAfter

\* The summary that is written covers everything.
LEMMA WritingTurn ==
    ASSUME TurnsInv, NEW a \in Asks, WriteSummary(a), NEW c \in Conversations,
           c = Conv(a)', InTurn(c)'
    PROVE  Turn(c)'
<1>1. Types /\ ApartInv
  BY DEF TurnsInv, HistoryInv, ApartInv
<1>2. /\ Conv(a) = c /\ Turn(c) /\ Prepared(a) /\ Asking(c) = {a}
      /\ Asking(c)' = IF pc'[a] \in Steps THEN {a} ELSE {}
  BY Alone DEF Step
<1>3. /\ Of(c) \subseteq summary[a]
      /\ \A s \in RowsOf(c) : s.id = found[a]
      /\ found[a] # None => RowsOf(c) # {}
  BY <1>2 DEF Prepared, WriteSummary, At
<1>4. Of(c)' = Of(c)
  BY DEF WriteSummary, Of
<1>5. /\ RowsOf(c)' # {}
      /\ \A s, r \in RowsOf(c)' : s = r
      /\ \A s \in RowsOf(c)' : s.covers = summary[a]
  <2>1. CASE found[a] = None
    <3>1. PICK new : /\ new = [conversation |-> Conv(a), id |-> a, covers |-> summary[a],
                               created |-> stamp[a], updated |-> stamp[a]]
                     /\ summaries' = summaries \cup {new}
      BY <2>1 DEF WriteSummary
    <3>2. RowsOf(c) = {}
      <4>1. ASSUME NEW s \in RowsOf(c) PROVE FALSE
        BY <1>1, <1>3, <2>1, ConversationAssumption DEF RowsOf, Types, SummaryRow
      <4> QED BY <4>1
    <3>3. new.conversation = c /\ new.covers = summary[a]
      BY <1>2, <3>1
    <3>4. RowsOf(c)' = {new}
      BY <3>1, <3>2, <3>3 DEF RowsOf
    <3> QED BY <3>3, <3>4
  <2>2. CASE found[a] # None
    <3>1. PICK s \in RowsOf(c) : RowsOf(c) = {s} /\ s.id = found[a] /\ s \in summaries
      BY <1>2, <1>3, <2>2 DEF Turn, RowsOf
    <3>2. PICK new : new = [s EXCEPT !.covers = summary[a], !.updated = stamp[a]]
      OBVIOUS
    <3>3. new.conversation = c /\ new.covers = summary[a]
      BY <1>1, <3>1, <3>2 DEF Types, SummaryRow, RowsOf
    <3>4. summaries' = {IF r.id = found[a]
                          THEN [r EXCEPT !.covers = summary[a], !.updated = stamp[a]]
                          ELSE r : r \in summaries}
      BY <2>2 DEF WriteSummary
    <3>5. new \in summaries'
      BY <3>1, <3>2, <3>4
    <3>6. ASSUME NEW r \in summaries', r.conversation = c PROVE r = new
      <4>1. PICK q \in summaries : r = IF q.id = found[a]
                          THEN [q EXCEPT !.covers = summary[a], !.updated = stamp[a]]
                          ELSE q
        BY <3>4
      <4>2. q \in SummaryRow
        BY <1>1 DEF Types
      <4>3. q.conversation = c
        BY <3>6, <4>1, <4>2 DEF SummaryRow
      <4>4. q = s
        BY <3>1, <4>3 DEF RowsOf
      <4> QED BY <3>1, <3>2, <4>1, <4>4
    <3> QED BY <3>3, <3>5, <3>6 DEF RowsOf
  <2> QED BY <2>1, <2>2
<1>6. Left(c)' = {}
  BY <1>3, <1>4, <1>5 DEF Left
<1>7. Lost' \in Nat
  BY TurnBefore DEF TurnsInv, Moves, Step
<1>8. pc'[a] \notin Steps
  BY <1>1 DEF WriteSummary, Reply, Raise, Handler, Goto, At, Steps, SummarySteps, Types
<1> QED BY <1>2, <1>5, <1>6, <1>7, <1>8, TurnAfter

LEMMA TurnsStep == TurnsInv /\ [Next]_vars => TurnsInv'
<1> SUFFICES ASSUME TurnsInv, [Next]_vars PROVE TurnsInv'
  OBVIOUS
<1>1. CASE UNCHANGED vars
  <2>1. HistoryInv'
    BY HistoryStep DEF TurnsInv
  <2>2. TimesDiffer' <=> TimesDiffer
    BY <1>1 DEF vars, tables, local, TimesDiffer, Saving
  <2>3. ASSUME NEW c \in Conversations PROVE (InTurn(c)' <=> InTurn(c)) /\ (Turn(c)' <=> Turn(c))
    BY <1>1 DEF vars, tables, local, InTurn, Lost, Turn, Asking, Running, Conv, RowsOf, Left, Of,
       Since, SaidAfter, Own, Prepared, Saving
  <2> QED BY <1>1, <2>1, <2>2, <2>3 DEF TurnsInv, vars
<1>2. ASSUME NEW a \in Asks, Moves(a) PROVE TurnsInv'
  <2>1. HistoryInv' /\ TimesDiffer'
    BY <1>2, HistoryStep, TimesStep DEF TurnsInv
  <2>2. faults' \in Nat /\ overlapped' \in [Conversations -> BOOLEAN]
    BY <1>2, TurnBefore DEF TurnsInv
  <2>3. ASSUME NEW c \in Conversations, InTurn(c)' PROVE Turn(c)'
    <3>1. CASE c # Conv(a)'
      BY <1>2, <2>3, <3>1, Elsewhere
    <3>2. CASE c = Conv(a)'
      <4>1. ASSUME NEW d \in Conversations, NEW t \in Tenants, Ask(a, d, t) PROVE Turn(c)'
        <5>1. d = c
          BY <3>2, <4>1 DEF Ask, Conv, TurnsInv, HistoryInv, ApartInv, Types
        <5> QED BY <2>3, <4>1, <5>1, Begins
      <4>2. CASE Step(a) \/ CallFails(a)
        BY <2>3, <3>2, <4>2, QuietTurn, SavingTurn, WritingTurn
      <4> QED BY <1>2, <4>1, <4>2 DEF Moves
    <3> QED BY <3>1, <3>2
  <2> QED BY <2>1, <2>2, <2>3 DEF TurnsInv
<1> QED BY <1>1, <1>2 DEF Next, Moves

LEMMA InitTurns == Init => TurnsInv
<1> SUFFICES ASSUME Init PROVE TurnsInv
  OBVIOUS
<1>1. messages = {} /\ summaries = {} /\ faults = 0 /\ \A a \in Asks : pc[a] = "idle" /\ recent[a] = {}
  BY DEF Init
<1>2. TimesDiffer
  BY <1>1, FS_EmptySet, ConversationAssumption DEF TimesDiffer, Saving
<1>3. \A c \in Conversations : Turn(c)
  BY <1>1 DEF Turn, Asking, Running, Steps, RowsOf, Left, Of
<1>4. faults \in Nat /\ overlapped \in [Conversations -> BOOLEAN]
  BY DEF Init
<1> QED BY <1>2, <1>3, <1>4, InitHistory DEF TurnsInv

\* "rolling summary + recent N messages" (services/conversation_memory.py): the window is never
\* longer than its size, and while the asks of a conversation take turns and fewer of them
\* fail than the window has room for, whatever was said is in the summary or in the window,
\* for any number of asks and conversations and any size of the window.
THEOREM NothingIsForgotten == Spec => []NothingForgotten
<1>1. TurnsInv => NothingForgotten
  <2> SUFFICES ASSUME TurnsInv, NEW a \in Asks
               PROVE  /\ Cardinality(recent[a]) <= RecentLimit
                      /\ At(a, "graph") /\ ~overlapped[Conv(a)] /\ 2 * faults + 2 <= RecentLimit =>
                             OfConversation(a) \subseteq recent[a] \cup summary[a]
    BY DEF NothingForgotten
  <2>1. Cardinality(recent[a]) <= RecentLimit
    BY DEF TurnsInv, TimesDiffer
  <2>2. ASSUME At(a, "graph"), ~overlapped[Conv(a)], 2 * faults + 2 <= RecentLimit
        PROVE  OfConversation(a) \subseteq recent[a] \cup summary[a]
    <3>1. Conv(a) \in Conversations
      BY <2>2 DEF TurnsInv, HistoryInv, ApartInv, Asked, Begun, At
    <3>2. InTurn(Conv(a))
      BY <2>2 DEF InTurn, Lost
    <3>3. Prepared(a)
      BY <2>2, <3>1, <3>2 DEF TurnsInv, Turn, Asking, Running, At, Steps
    <3> QED BY <2>2, <3>3 DEF Prepared, At, OfConversation, Of
  <2> QED BY <2>1, <2>2
<1> QED BY <1>1, InitTurns, TurnsStep, PTL DEF Spec
================================================================================
