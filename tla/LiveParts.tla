----------------------------- MODULE LiveParts -----------------------------
(***************************************************************************)
(* What the same kind of parts must do in the end, with the fairness that  *)
(* the code's scheduling gives: the login of the network client            *)
(* (NetworkLogin), the messages table of a web client (ClientRows) and its *)
(* gate (ClientGate).  One search picks a part and then explores that part *)
(* alone.                                                                  *)
(***************************************************************************)
EXTENDS NetworkLogin, ClientRows, ClientGate

VARIABLE part

liveVars == <<part, loginVars, rowsVars, gateVars>>

LiveInit ==
    /\ part \in {"login", "rows", "gate"}
    /\ LoginInit /\ RowsInit /\ GateInit

LiveNext ==
    /\ UNCHANGED part
    /\ \/ part = "login" /\ LoginNext /\ UNCHANGED <<rowsVars, gateVars>>
       \/ part = "rows" /\ RowsNext /\ UNCHANGED <<loginVars, gateVars>>
       \/ part = "gate" /\ GateNext /\ UNCHANGED <<loginVars, rowsVars>>

LoginRuns(A) == part = "login" /\ A /\ UNCHANGED <<part, rowsVars, gateVars>>
RowsRun(A) == part = "rows" /\ A /\ UNCHANGED <<part, loginVars, gateVars>>
GateRuns(A) == part = "gate" /\ A /\ UNCHANGED <<part, loginVars, rowsVars>>

\* A fetch of a conversation that finds the tables as they are.
UserComesBack ==
    \E c \in Convs, k \in Slots : ServeMessages(c, k) /\ UNCHANGED rows

\* One part runs alone, so that fairness of a disjunction over the parts is
\* fairness of each in its own.
\*   Login: the hub's timer goes on ticking and each await of a login ends.
\* Strong fairness of the two outcomes that Chromium and Zalo decide: of
\* endlessly many logins that find a session, and that ask Zalo, not all fail.
\*   Rows: frames are delivered in the end and a put that was started ends.
\* Strong fairness of UserComesBack is the assumption on the user that RowHeals
\* speaks of.
\*   Gate: frames and states are delivered in the end, the timers of the poll and
\* of the dialogs fire, a poll is answered, and a request that the hub works on
\* ends in one way or the other (StagingEnds of HubStorage).
LiveFairness ==
    /\ WF_liveVars(\/ LoginRuns(\E a \in Attempts : SessionCheck(a))
                   \/ RowsRun(\E k \in Slots : OnMessage(k))
                   \/ GateRuns(OnFrame))
    /\ WF_liveVars(\/ LoginRuns(\E a \in Attempts : AttemptGoesOn(a))
                   \/ RowsRun(\E k \in Slots : PutAnswer(k))
                   \/ GateRuns(DialogCloses))
    /\ WF_liveVars(GateRuns(StateShown))
    /\ WF_liveVars(GateRuns(PollGoesOn))
    /\ \A y \in LiveSyncs : WF_liveVars(GateRuns(SyncGoesOn(y)))
    /\ SF_liveVars(\/ LoginRuns(\E a \in Attempts : CookiesFound(a))
                   \/ RowsRun(UserComesBack))
    /\ SF_liveVars(LoginRuns(\E a \in Attempts : LoggedIn(a)))

LiveSpec == LiveInit /\ [][LiveNext]_liveVars /\ LiveFairness

\* One message in two versions, and another one beside it.
MCInputs ==
    {[id |-> i, conv |-> c, sender |-> s, ts |-> t] :
        i \in 1..2, c \in Convs, s \in Senders, t \in 1..2}
    \ {[id |-> 2, conv |-> c, sender |-> s, ts |-> 1] : c \in Convs, s \in Senders}
-----------------------------------------------------------------------------
\* A failed or premature login never keeps the next ones out: when the browser
\* stays signed in and not every login fails, the client becomes ready.
LoginHappens == part = "login" => (<>[]cookies => <>api)

\* The hub keeps this version of the message, with its conversation; nothing
\* is being written under its id; and it is among the newest of its conversation,
\* so that every answer has it.
Settled(m) ==
    /\ m \in rows.messages /\ m.conv \in rows.conversations
    /\ \A n \in tasks : n.id # m.id
    /\ Cardinality({n \in OfConv(rows, m.conv) : n.id # m.id /\ n.ts >= m.ts}) < Limit

\* A stale row of a message that the hub has and serves does not stay.  Late
\* snapshots, events of versions the hub refused and events without the details
\* all overwrite newer rows; but once the hub has settled on a version, a user
\* who comes back to the conversation gets that version, in full, and keeps it,
\* whatever goes on with other messages.  It says nothing of rows beyond the
\* limit, nor of messages that the hub has no more: their rows stay as they are.
RowHeals ==
    part = "rows" =>
        \A m \in Inputs :
            <>[]Settled(m) => <>[]({r \in messages : r.id = m.id} = {Row(m, TRUE)})

\* A conversation that stays in the hub reaches the client, with or without a
\* socket and whatever the gatekeeper says: no message is without its
\* conversation for good.
ConversationsArrive ==
    part = "gate" =>
        \A c \in Chats : <>[](c \in hubChats) => <>(c \in chats)

\* A sync that the user starts ends with its dialog closed, through restarts,
\* failures and other resyncs, unless the client is not told of its end.
SyncEnds == part = "gate" => (isFullSyncing ~> (~isFullSyncing \/ lost))

\* The overlay that covers the whole page.
Overlay == hydrationState # "HYDRATED" /\ chats = {}

\* When the hub stays hydrated and the stream of states holds, the overlay goes
\* away for good, so no state is missed between two connections; and it goes
\* away without any stream when a conversation stays in the hub.
GateOpens ==
    part = "gate" =>
        ((\/ <>[](hydration = "HYDRATED" /\ stream = "open")
          \/ \E c \in Chats : <>[](c \in hubChats))
             => <>[]~Overlay)
=============================================================================
