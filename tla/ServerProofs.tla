--------------------------- MODULE ServerProofs ----------------------------
(***************************************************************************)
(* Proofs about the server that clients share, for every number of         *)
(* clients, logins, server processes and faults.                           *)
(*                                                                         *)
(* AuthFlow: what callers, the provider and time may do to one login, and  *)
(* what a refresh may write while logins come and go.                      *)
(* LocalServer: its types, and what commands that take turns leave behind. *)
(***************************************************************************)
EXTENDS AuthFlow, LocalServer, TLAPS

\* Logins (AuthFlow).

Label == {"idle", "get", "exchange", "delete", "save", "clear",
          "refresh", "reexchange", "resave", "resend"}

\* The part of the type invariant that the arguments below use.  A caller that
\* finalizes has a login, and one caller at most holds the lock.
ShapeInv ==
  /\ kind \in Kind /\ flows \in SUBSET Flow /\ old \in SUBSET Flow
  /\ grant \in [Flow -> {"none", "asked", "granted", "denied", "spent"}]
  /\ file \in Flow \cup {NoFlow} /\ last \in Flow \cup {NoFlow}
  /\ expiries \in 0..MaxExpiries
  /\ pc \in [Caller -> Label]
  /\ at \in [Caller -> Flow \cup {NoFlow}]
  /\ saved \in SUBSET Flow /\ hurt \in SUBSET Flow
  /\ \A c \in Caller : pc[c] \in {"get", "exchange", "delete", "save"} => at[c] \in Flow

LockInv ==
  /\ lock = {c \in Caller : pc[c] \in {"reexchange", "resave"}}
  /\ \A c, d \in lock : c = d

FlagInv == fromEnv \in BOOLEAN /\ expired \in BOOLEAN /\ crossed \in BOOLEAN

LEMMA InitShape == Init => ShapeInv /\ LockInv
<1> SUFFICES ASSUME Init PROVE ShapeInv /\ LockInv
  OBVIOUS
<1>1. ShapeInv
  BY AuthAssumption DEF Init, ShapeInv, AuthAssumption, Label, Kind
<1>2. LockInv
  BY DEF Init, LockInv
<1>3. QED
  BY <1>1, <1>2

LEMMA NextShape == ShapeInv /\ [Next]_vars => ShapeInv'
<1> SUFFICES ASSUME ShapeInv, [Next]_vars PROVE ShapeInv'
  OBVIOUS
<1> USE DEF ShapeInv, Label, Goto, remote, local
<1>1. CASE TokenExpires
  BY <1>1, AuthAssumption DEF TokenExpires, AuthAssumption
<1>2. ASSUME NEW f \in Flow, Decide(f) \/ TimeOut(f) PROVE ShapeInv'
  BY <1>2 DEF Decide, TimeOut
<1>3. ASSUME NEW c \in Caller, NEW f \in Flow, Begin(c, f) PROVE ShapeInv'
  BY <1>3 DEF Begin
<1>4. ASSUME NEW c \in Caller, NEW f \in Flow, StartFinalize(c, f) PROVE ShapeInv'
  BY <1>4 DEF StartFinalize
<1>5. ASSUME NEW c \in Caller, FlowGet(c) PROVE ShapeInv'
  BY <1>5 DEF FlowGet
<1>6. ASSUME NEW c \in Caller, Exchange(c) PROVE ShapeInv'
  BY <1>6 DEF Exchange
<1>7. ASSUME NEW c \in Caller, ExchangeRefused(c) \/ ExchangeFails(c) PROVE ShapeInv'
  BY <1>7 DEF ExchangeRefused, ExchangeFails
<1>8. ASSUME NEW c \in Caller, Faulty(c) PROVE ShapeInv'
  BY <1>8 DEF Faulty
<1>9. ASSUME NEW c \in Caller, DeleteFlow(c) \/ SaveCredentials(c) PROVE ShapeInv'
  BY <1>9 DEF DeleteFlow, SaveCredentials, Write
<1>10. ASSUME NEW c \in Caller, Logout(c) \/ ClearCredentials(c) PROVE ShapeInv'
  BY <1>10 DEF Logout, ClearCredentials, Write
<1>11. ASSUME NEW c \in Caller, Send(c) \/ RefreshLoad(c) PROVE ShapeInv'
  BY <1>11 DEF Send, RefreshLoad, Bundle
<1>12. ASSUME NEW c \in Caller, RefreshExchange(c) \/ RefreshSave(c) \/ Resend(c)
       PROVE  ShapeInv'
  BY <1>12 DEF RefreshExchange, RefreshSave, Resend
<1>13. CASE UNCHANGED vars
  BY <1>13 DEF vars
<1>14. QED
  BY <1>1, <1>2, <1>3, <1>4, <1>5, <1>6, <1>7, <1>8, <1>9, <1>10, <1>11, <1>12, <1>13
     DEF Next, Step

\* Only a refresh takes the lock, when it is free, and gives it back when it leaves.
LEMMA NextLock == ShapeInv /\ LockInv /\ [Next]_vars => LockInv'
<1> SUFFICES ASSUME ShapeInv, LockInv, [Next]_vars PROVE LockInv'
  OBVIOUS
<1> USE DEF LockInv, Goto
<1>0. pc \in [Caller -> Label]
  BY DEF ShapeInv
<1>1. ASSUME NEW c \in Caller, lock' = lock, pc[c] \notin {"reexchange", "resave"},
             \E l \in Label \ {"reexchange", "resave"} : Goto(c, l)
      PROVE  LockInv'
  BY <1>0, <1>1
<1>2. ASSUME NEW c \in Caller, RefreshLoad(c) PROVE LockInv'
  BY <1>0, <1>2 DEF RefreshLoad
<1>3. ASSUME NEW c \in Caller, RefreshExchange(c) PROVE LockInv'
  BY <1>0, <1>3 DEF RefreshExchange
<1>4. ASSUME NEW c \in Caller, RefreshSave(c) PROVE LockInv'
  BY <1>0, <1>4 DEF RefreshSave
<1>5. CASE pc' = pc /\ lock' = lock
  BY <1>5
<1>6. ASSUME NEW c \in Caller, Step(c) PROVE LockInv'
  <2> USE DEF Label
  <2>1. CASE FlowGet(c)
    BY <1>1, <2>1 DEF FlowGet
  <2>2. CASE Exchange(c)
    BY <1>1, <2>2 DEF Exchange
  <2>3. CASE ExchangeRefused(c)
    BY <1>1, <2>3 DEF ExchangeRefused
  <2>4. CASE DeleteFlow(c)
    BY <1>1, <2>4 DEF DeleteFlow
  <2>5. CASE SaveCredentials(c)
    BY <1>1, <2>5 DEF SaveCredentials
  <2>6. CASE ClearCredentials(c)
    BY <1>1, <2>6 DEF ClearCredentials
  <2>7. CASE Resend(c)
    BY <1>1, <2>7 DEF Resend
  <2>8. QED
    BY <1>3, <1>4, <1>6, <2>1, <2>2, <2>3, <2>4, <2>5, <2>6, <2>7 DEF Step
<1>7. ASSUME NEW c \in Caller, ExchangeFails(c) \/ Faulty(c) \/ Logout(c) PROVE LockInv'
  BY <1>1, <1>7 DEF ExchangeFails, Faulty, Logout, Label
<1>8. ASSUME NEW c \in Caller, Send(c) PROVE LockInv'
  BY <1>1, <1>8 DEF Send, Label
<1>9. ASSUME NEW c \in Caller, NEW f \in Flow, StartFinalize(c, f) PROVE LockInv'
  BY <1>1, <1>9 DEF StartFinalize, Label
<1>10. ASSUME NEW c \in Caller, NEW f \in Flow, Begin(c, f) PROVE LockInv'
  BY <1>5, <1>10 DEF Begin
<1>11. ASSUME NEW f \in Flow, Decide(f) \/ TimeOut(f) PROVE LockInv'
  BY <1>5, <1>11 DEF Decide, TimeOut
<1>12. CASE TokenExpires
  BY <1>5, <1>12 DEF TokenExpires
<1>13. CASE UNCHANGED vars
  BY <1>5, <1>13 DEF vars
<1>14. QED
  BY <1>2, <1>6, <1>7, <1>8, <1>9, <1>10, <1>11, <1>12, <1>13 DEF Next

LEMMA NextFlags == FlagInv /\ [Next]_vars => FlagInv'
<1> SUFFICES ASSUME FlagInv, [Next]_vars PROVE FlagInv'
  OBVIOUS
<1>1. fromEnv' = fromEnv
  BY Zenon
     DEF Next, Step, TokenExpires, Decide, TimeOut, Begin, StartFinalize, FlowGet,
         Exchange, ExchangeRefused, ExchangeFails, Faulty, DeleteFlow, SaveCredentials,
         Logout, ClearCredentials, Send, RefreshLoad, RefreshExchange, RefreshSave,
         Resend, vars, remote
<1>2. expired' = expired \/ expired' = TRUE \/ expired' = FALSE
  BY Zenon
     DEF Next, Step, TokenExpires, Decide, TimeOut, Begin, StartFinalize, FlowGet,
         Exchange, ExchangeRefused, ExchangeFails, Faulty, DeleteFlow, SaveCredentials,
         Logout, ClearCredentials, Send, RefreshLoad, RefreshExchange, RefreshSave,
         Resend, vars, local
<1>3. crossed' = crossed \/ crossed' = (crossed \/ lock # {})
  BY Zenon
     DEF Next, Step, TokenExpires, Decide, TimeOut, Begin, StartFinalize, FlowGet,
         Exchange, ExchangeRefused, ExchangeFails, Faulty, DeleteFlow, SaveCredentials,
         Logout, ClearCredentials, Send, RefreshLoad, RefreshExchange, RefreshSave,
         Resend, vars, local, Write
<1>4. (crossed \/ lock # {}) \in BOOLEAN
  BY Zenon
<1>5. QED
  BY <1>1, <1>2, <1>3, <1>4, Zenon DEF FlagInv

\* The provider, the flows, the file and the callers have their types, and the
\* lock is held by the one caller that refreshes, for every number of logins.
THEOREM TypeCorrect == Spec => []TypeOK
<1>1. Init => FlagInv
  BY Zenon DEF Init, FlagInv
<1>2. ShapeInv /\ LockInv /\ FlagInv => TypeOK
  BY Zenon DEF ShapeInv, LockInv, FlagInv, TypeOK, Label
<1>3. QED
  BY <1>1, <1>2, InitShape, NextShape, NextLock, NextFlags, PTL DEF Spec

-----------------------------------------------------------------------------
\* A login in time that the user may still agree to, or has agreed to, is among
\* the pending flows; and what the provider spent is saved or carried there.  A
\* caller deletes a flow only when it carries the credentials for it.
FlowInv ==
  /\ \A f \in old : grant[f] # "none"
  /\ UsesFlows => \A f \in Flow \ hurt :
       grant[f] \in {"asked", "granted"} /\ f \notin old => f \in flows
  /\ \A c \in Caller : pc[c] = "delete" => UsesFlows /\ grant[at[c]] = "spent"
  /\ \A f \in Flow \ hurt :
       grant[f] = "spent" => f \in saved \/ \E c \in Caller : Carries(c, f)

LEMMA InitFlow == Init => FlowInv
BY DEF Init, FlowInv

\* The steps of the user and of time.
LEMMA WorldFlow ==
  ASSUME ShapeInv, FlowInv, NEW f \in Flow, Decide(f) \/ TimeOut(f)
  PROVE  FlowInv'
<1> USE DEF ShapeInv, FlowInv, Carries, UsesFlows, local
<1>1. CASE Decide(f)
  BY <1>1 DEF Decide
<1>2. CASE TimeOut(f)
  BY <1>2 DEF TimeOut
<1>3. QED
  BY <1>1, <1>2

LEMMA BeginFlow ==
  ASSUME ShapeInv, FlowInv, NEW c \in Caller, NEW f \in Flow, Begin(c, f)
  PROVE  FlowInv'
BY DEF ShapeInv, FlowInv, Carries, UsesFlows, local, Begin

\* A step of a caller that changes no login and carries none neither loses one.
LEMMA IdleFlow ==
  ASSUME ShapeInv, FlowInv, NEW c \in Caller,
         kind' = kind, old' = old, grant' = grant, hurt' = hurt,
         flows' = flows \/ flows' = flows \ old,
         saved' = saved,
         pc[c] \notin {"delete", "save"},
         \A d \in Caller \ {c} : pc'[d] = pc[d] /\ at'[d] = at[d],
         pc'[c] # "delete"
  PROVE  FlowInv'
BY DEF ShapeInv, FlowInv, Carries, UsesFlows

\* What the provider grants is taken once: the flow is spent, and this caller
\* carries its credentials.
LEMMA ExchangeFlow ==
  ASSUME ShapeInv, FlowInv, NEW c \in Caller, Exchange(c)
  PROVE  FlowInv'
<1> USE DEF ShapeInv, FlowInv, Carries, UsesFlows, local, Goto
<1>1. CASE UsesFlows
  BY <1>1 DEF Exchange
<1>2. CASE ~UsesFlows
  BY <1>2 DEF Exchange
<1>3. QED
  BY <1>1, <1>2

\* GitHub's final no drops a flow nobody can finalize any more.
LEMMA RefusedFlow ==
  ASSUME ShapeInv, FlowInv, NEW c \in Caller, ExchangeRefused(c)
  PROVE  FlowInv'
<1> DEFINE f == at[c]
<1>1. /\ f \in Flow /\ UNCHANGED <<kind, old, grant, hurt, saved, at>>
      /\ pc' = [pc EXCEPT ![c] = "idle"] /\ pc[c] = "exchange"
  BY DEF ShapeInv, ExchangeRefused, remote, local, Goto
<1>2. CASE kind = "github"
  <2>1. ~(grant[f] \in {"asked", "granted"} /\ f \notin old)
    BY <1>2 DEF ExchangeRefused, Granted, PollsOn
  <2>2. flows' = flows \ {f}
    BY <1>2 DEF ExchangeRefused, DropsFlow
  <2>3. QED
    BY <1>1, <2>1, <2>2 DEF ShapeInv, FlowInv, Carries, UsesFlows
<1>3. CASE kind # "github"
  <2>1. flows' = flows
    BY <1>3 DEF ExchangeRefused, DropsFlow
  <2>2. QED
    BY <1>1, <2>1 DEF ShapeInv, FlowInv, Carries, UsesFlows
<1>4. QED
  BY <1>2, <1>3

\* A fault costs the login of this caller, and no other.
LEMMA FaultyFlow ==
  ASSUME ShapeInv, FlowInv, NEW c \in Caller, Faulty(c)
  PROVE  FlowInv'
BY DEF ShapeInv, FlowInv, Carries, UsesFlows, local, Goto, Faulty

LEMMA SaveFlow ==
  ASSUME ShapeInv, FlowInv, NEW c \in Caller, DeleteFlow(c) \/ SaveCredentials(c)
  PROVE  FlowInv'
<1> USE DEF ShapeInv, FlowInv, Carries, UsesFlows, remote, local, Goto
<1>1. CASE DeleteFlow(c)
  BY <1>1 DEF DeleteFlow
<1>2. CASE SaveCredentials(c)
  BY <1>2 DEF SaveCredentials, Write
<1>3. QED
  BY <1>1, <1>2

LEMMA NextFlow == ShapeInv /\ FlowInv /\ [Next]_vars => FlowInv'
<1> SUFFICES ASSUME ShapeInv, FlowInv, [Next]_vars PROVE FlowInv'
  OBVIOUS
<1> USE DEF remote, local, Goto
<1>0. pc \in [Caller -> Label] /\ at \in [Caller -> Flow \cup {NoFlow}]
  BY DEF ShapeInv
<1>1. ASSUME NEW c \in Caller, NEW f \in Flow, StartFinalize(c, f) PROVE FlowInv'
  <2>1. pc'[c] # "delete" /\ \A d \in Caller \ {c} : pc'[d] = pc[d] /\ at'[d] = at[d]
    BY <1>0, <1>1 DEF StartFinalize
  <2>2. QED
    BY <1>1, <2>1, IdleFlow DEF StartFinalize
<1>2. ASSUME NEW c \in Caller,
             FlowGet(c) \/ ExchangeFails(c) \/ Logout(c) \/ ClearCredentials(c) \/ Send(c)
      PROVE  FlowInv'
  <2>1. pc'[c] # "delete" /\ \A d \in Caller \ {c} : pc'[d] = pc[d] /\ at'[d] = at[d]
    BY <1>0, <1>2 DEF FlowGet, ExchangeFails, Logout, ClearCredentials, Send
  <2>2. QED
    BY <1>2, <2>1, IdleFlow DEF FlowGet, ExchangeFails, Logout, ClearCredentials, Send
<1>3. ASSUME NEW c \in Caller,
             RefreshLoad(c) \/ RefreshExchange(c) \/ RefreshSave(c) \/ Resend(c)
      PROVE  FlowInv'
  <2>1. pc'[c] # "delete" /\ \A d \in Caller \ {c} : pc'[d] = pc[d] /\ at'[d] = at[d]
    BY <1>0, <1>3 DEF RefreshLoad, RefreshExchange, RefreshSave, Resend
  <2>2. QED
    BY <1>3, <2>1, IdleFlow DEF RefreshLoad, RefreshExchange, RefreshSave, Resend
<1>4. CASE TokenExpires \/ UNCHANGED vars
  BY <1>4 DEF TokenExpires, vars, FlowInv, Carries, UsesFlows
<1>5. QED
  BY <1>1, <1>2, <1>3, <1>4, WorldFlow, BeginFlow, ExchangeFlow, RefusedFlow,
     FaultyFlow, SaveFlow
     DEF Next, Step

\* No login the user has agreed to is lost to another call: until it times out it
\* can be finalized, and once its credentials are handed out they are saved or on
\* their way, unless a step of its own finalize failed.
THEOREM NoLoginIsLost == Spec => []NothingLost
<1>1. FlowInv => NothingLost
  BY DEF FlowInv, NothingLost
<1>2. QED
  BY <1>1, InitShape, NextShape, InitFlow, NextFlow, PTL DEF Spec

-----------------------------------------------------------------------------
\* A refresh works on the credentials that are in the file, unless a login or a
\* logout came between its load and its save.
RefreshInv ==
  ~crossed =>
    /\ file = last
    /\ \A c \in Caller : pc[c] \in {"reexchange", "resave"} => at[c] = file

LEMMA InitRefresh == Init => RefreshInv
BY DEF Init, RefreshInv

LEMMA NextRefresh == ShapeInv /\ LockInv /\ RefreshInv /\ [Next]_vars => RefreshInv'
<1> SUFFICES ASSUME ShapeInv, LockInv, RefreshInv, [Next]_vars PROVE RefreshInv'
  OBVIOUS
<1> USE DEF remote, local, Goto
<1>0. pc \in [Caller -> Label] /\ at \in [Caller -> Flow \cup {NoFlow}]
  BY DEF ShapeInv
<1>1. ASSUME NEW c \in Caller, crossed' = crossed, file' = file, last' = last,
             \A d \in Caller \ {c} : pc'[d] = pc[d] /\ at'[d] = at[d],
             pc'[c] \in {"reexchange", "resave"} =>
               pc[c] \in {"reexchange", "resave"} /\ at'[c] = at[c]
      PROVE  RefreshInv'
  BY <1>1 DEF RefreshInv
<1>2. ASSUME NEW f \in Flow \cup {NoFlow}, NEW c \in Caller, Write(f), at' = at,
             \A d \in Caller \ {c} : pc'[d] = pc[d], pc'[c] = "idle"
      PROVE  RefreshInv'
  <2>1. crossed \/ lock # {} \/ \A d \in Caller : pc[d] \notin {"reexchange", "resave"}
    BY DEF LockInv
  <2>2. ~crossed' => lock = {}
    BY <1>2, Zenon DEF Write
  <2>3. ~crossed' => \A d \in Caller : pc'[d] \notin {"reexchange", "resave"}
    BY <1>2, <2>2 DEF LockInv
  <2>4. file' = last'
    BY <1>2 DEF Write
  <2>5. QED
    BY <2>3, <2>4 DEF RefreshInv
<1>3. ASSUME NEW c \in Caller, RefreshLoad(c) PROVE RefreshInv'
  <2>1. pc'[c] \in {"reexchange", "resave"} => at'[c] = file
    <3>1. at'[c] = Bundle
      BY <1>0, <1>3 DEF RefreshLoad
    <3>2. Bundle = NoFlow \/ Bundle = file
      BY DEF Bundle
    <3>3. Bundle = NoFlow => pc'[c] = "idle"
      BY <1>0, <1>3 DEF RefreshLoad
    <3>4. QED
      BY <3>1, <3>2, <3>3
  <2>2. \A d \in Caller \ {c} : pc'[d] = pc[d] /\ at'[d] = at[d]
    BY <1>0, <1>3 DEF RefreshLoad
  <2>3. file' = file /\ last' = last /\ crossed' = crossed
    BY <1>3 DEF RefreshLoad
  <2>4. QED
    BY <2>1, <2>2, <2>3 DEF RefreshInv
<1>4. ASSUME NEW c \in Caller, RefreshSave(c) PROVE RefreshInv'
  BY <1>0, <1>4 DEF RefreshSave, RefreshInv
<1>5. ASSUME NEW c \in Caller, SaveCredentials(c) \/ ClearCredentials(c) PROVE RefreshInv'
  <2>1. CASE SaveCredentials(c)
    <3>1. at[c] \in Flow \cup {NoFlow} /\ Write(at[c]) /\ at' = at
      BY <1>0, <2>1 DEF SaveCredentials
    <3>2. pc'[c] = "idle" /\ \A d \in Caller \ {c} : pc'[d] = pc[d]
      BY <1>0, <2>1 DEF SaveCredentials
    <3>3. QED
      BY <1>2, <3>1, <3>2
  <2>2. CASE ClearCredentials(c)
    <3>1. Write(NoFlow) /\ at' = at
      BY <2>2 DEF ClearCredentials
    <3>2. pc'[c] = "idle" /\ \A d \in Caller \ {c} : pc'[d] = pc[d]
      BY <1>0, <2>2 DEF ClearCredentials
    <3>3. QED
      BY <1>2, <3>1, <3>2
  <2>3. QED
    BY <1>5, <2>1, <2>2
<1>6. ASSUME NEW c \in Caller, NEW f \in Flow, StartFinalize(c, f) PROVE RefreshInv'
  BY <1>0, <1>1, <1>6 DEF StartFinalize
<1>7. ASSUME NEW c \in Caller,
             FlowGet(c) \/ Exchange(c) \/ ExchangeRefused(c) \/ ExchangeFails(c)
               \/ Faulty(c) \/ DeleteFlow(c) \/ Logout(c)
      PROVE  RefreshInv'
  BY <1>0, <1>1, <1>7
     DEF FlowGet, Exchange, ExchangeRefused, ExchangeFails, Faulty, DeleteFlow, Logout
<1>8. ASSUME NEW c \in Caller, Send(c) \/ RefreshExchange(c) \/ Resend(c)
      PROVE  RefreshInv'
  BY <1>0, <1>1, <1>8 DEF Send, RefreshExchange, Resend
<1>9. ASSUME NEW c \in Caller, NEW f \in Flow, Begin(c, f) PROVE RefreshInv'
  BY <1>9 DEF Begin, RefreshInv
<1>10. ASSUME NEW f \in Flow, Decide(f) \/ TimeOut(f) PROVE RefreshInv'
  BY <1>10 DEF Decide, TimeOut, RefreshInv
<1>11. CASE TokenExpires \/ UNCHANGED vars
  BY <1>11 DEF TokenExpires, vars, RefreshInv
<1>12. QED
  BY <1>3, <1>4, <1>5, <1>6, <1>7, <1>8, <1>9, <1>10, <1>11 DEF Next, Step

\* A refresh of the publisher token brings back no credentials that a login or a
\* logout replaced or cleared, except when that came between its load and save.
THEOREM RefreshKeepsTheLogin == Spec => []RefreshKeepsLogin
<1>1. RefreshInv => RefreshKeepsLogin
  BY DEF RefreshInv, RefreshKeepsLogin
<1>2. QED
  BY <1>1, InitShape, NextShape, NextLock, InitRefresh, NextRefresh, PTL DEF Spec

-----------------------------------------------------------------------------
\* The commands that start and stop the server (LocalServer).

Record == [pc : {"idle", "read", "health", "unlink", "cleanup", "forget", "start", "pid",
                   "metadata", "signal"},
             goal : {"none", "ensure", "stop"}, pid : Server \cup {NoServer}, meta : BOOLEAN,
             mine : Server \cup {NoServer}]

\* The types, and which server a client that writes files or signals is about.
ServerShape ==
  /\ socket \in Server \cup {NoServer} /\ pidFile \in Server \cup {NoServer}
  /\ metadata \in Server \cup {NoServer} /\ storeLock \in Server \cup {NoServer}
  /\ proc \in [Server -> {"unborn", "starting", "binding", "bound", "serving",
                          "stopping", "draining", "closing", "gone"}]
  /\ store \in [Server -> {"none", "file", "memory"}]
  /\ client \in [Client -> Record]
  /\ faults \in 0..MaxFailures /\ orphaned \subseteq Server
  /\ \A c \in Client :
       /\ At(c, "pid") \/ At(c, "metadata") => client[c].mine \in Server
       /\ At(c, "signal") => client[c].pid \in Server

\* The lock of the store is that of a process that has it open.
StoreLockInv == storeLock # NoServer => Alive(storeLock) /\ store[storeLock] = "file"

Writes(c) == At(c, "pid") \/ At(c, "metadata")

Cleans(c) == At(c, "cleanup") \/ At(c, "forget")

\* While commands take turns there is one server process, which is the one the
\* files and the socket belong to as far as they are written.
Alone == \A c, d \in Client : ~At(c, "idle") /\ ~At(d, "idle") => c = d

OneAlive == \A s, t \in Server : Alive(s) /\ Alive(t) => s = t

Reached(s) ==
  /\ store[s] # "memory"
  /\ proc[s] = "binding" => socket = NoServer
  /\ Answers(s) => socket = s

Known(s) ==
  Alive(s) =>
    /\ \A c \in Client : /\ ~Cleans(c)
                         /\ Writes(c) => client[c].mine = s
                         /\ At(c, "metadata") => pidFile = s
    /\ (\A c \in Client : ~Writes(c)) => s \in orphaned \/ (pidFile = s /\ metadata = s)

TurnInv ==
  ~overlapped => Alone /\ OneAlive /\ \A s \in Server : Reached(s) /\ Known(s)

LEMMA InitServer == ServerInit => ServerShape /\ StoreLockInv /\ TurnInv
<1> SUFFICES ASSUME ServerInit PROVE ServerShape /\ StoreLockInv /\ TurnInv
  OBVIOUS
<1>1. ServerShape
  BY ServerAssumption DEF ServerInit, ServerShape, ServerAssumption, Idle, Record, At
<1>2. StoreLockInv
  BY DEF ServerInit, StoreLockInv
<1>3. TurnInv
  BY DEF ServerInit, TurnInv, Alone, OneAlive, Reached, Known, Alive, Answers, At, Idle, Writes, Cleans
<1>4. QED
  BY <1>1, <1>2, <1>3

\* A step of one client changes its record and leaves those of the others.
Moves(c, label, pid, mine) ==
  /\ client' \in [Client -> Record]
  /\ client'[c].pc = label /\ client'[c].pid = pid /\ client'[c].mine = mine
  /\ \A d \in Client \ {c} : client'[d] = client[d]

LEMMA SetClient ==
  ASSUME ServerShape, NEW c \in Client, NEW r \in Record, client' = [client EXCEPT ![c] = r]
  PROVE  Moves(c, r.pc, r.pid, r.mine)
BY DEF ServerShape, Moves

LEMMA GotoMoves ==
  ASSUME ServerShape, NEW c \in Client,
         NEW label \in {"read", "health", "unlink", "cleanup", "forget", "start", "pid",
                        "metadata", "signal"},
         ClientGoto(c, label)
  PROVE  Moves(c, label, client[c].pid, client[c].mine)
<1> DEFINE r == [client[c] EXCEPT !.pc = label]
<1>1. r \in Record /\ r.pc = label /\ r.pid = client[c].pid /\ r.mine = client[c].mine
  BY DEF ServerShape, Record
<1>2. client' = [client EXCEPT ![c] = r]
  BY DEF ClientGoto
<1>3. Moves(c, r.pc, r.pid, r.mine)
  BY <1>1, <1>2, SetClient
<1>4. QED
  BY <1>1, <1>3

LEMMA IdleMoves ==
  ASSUME ServerShape, NEW c \in Client, ClientGoto(c, "idle")
  PROVE  Moves(c, "idle", NoServer, NoServer)
<1>1. Idle \in Record /\ Idle.pc = "idle" /\ Idle.pid = NoServer /\ Idle.mine = NoServer
  BY DEF Idle, Record
<1>2. client' = [client EXCEPT ![c] = Idle]
  BY DEF ClientGoto
<1>3. Moves(c, Idle.pc, Idle.pid, Idle.mine)
  BY <1>1, <1>2, SetClient
<1>4. QED
  BY <1>1, <1>3

LEMMA CommandMoves ==
  ASSUME ServerShape, NEW c \in Client, NEW g \in {"ensure", "stop"}, Command(c, g)
  PROVE  Moves(c, "read", client[c].pid, client[c].mine)
<1> DEFINE r == [client[c] EXCEPT !.pc = "read", !.goal = g]
<1>1. r \in Record /\ r.pc = "read" /\ r.pid = client[c].pid /\ r.mine = client[c].mine
  BY DEF ServerShape, Record
<1>2. client' = [client EXCEPT ![c] = r]
  BY DEF Command
<1>3. Moves(c, r.pc, r.pid, r.mine)
  BY <1>1, <1>2, SetClient
<1>4. QED
  BY <1>1, <1>3

LEMMA StatusReadMoves ==
  ASSUME ServerShape, NEW c \in Client, StatusRead(c)
  PROVE  \E pid \in Server \cup {NoServer} : Moves(c, "health", pid, client[c].mine)
<1> DEFINE pid == IF pidFile # NoServer THEN pidFile ELSE metadata
           read == metadata # NoServer
           r == [client[c] EXCEPT !.pc = "health", !.meta = read, !.pid = pid]
<1>1. read \in BOOLEAN
  BY Zenon
<1>2. pid \in Server \cup {NoServer}
  BY DEF ServerShape
<1>3. client' = [client EXCEPT ![c] = r]
  BY DEF StatusRead
<1> HIDE DEF pid, read
<1>4. r \in Record /\ r.pc = "health" /\ r.pid = pid /\ r.mine = client[c].mine
  BY <1>1, <1>2 DEF ServerShape, Record
<1>5. Moves(c, r.pc, r.pid, r.mine)
  BY <1>3, <1>4, SetClient
<1>6. QED
  BY <1>2, <1>4, <1>5

\* What Status says decides how a command goes on.
LEMMA StatusHealthMoves ==
  ASSUME ServerShape, NEW c \in Client, StatusHealth(c)
  PROVE  \/ Moves(c, "idle", NoServer, NoServer)
         \/ \E label \in {"read", "unlink", "start"} :
              Moves(c, label, client[c].pid, client[c].mine)
         \/ client[c].pid \in Server /\ Moves(c, "signal", client[c].pid, client[c].mine)
<1>1. PICK next \in AfterStatus(c) : ClientGoto(c, next)
  BY DEF StatusHealth
<1>2. next \in {"idle", "read", "signal", "unlink", "start"}
  BY <1>1 DEF AfterStatus
<1>3. next = "signal" => client[c].pid # NoServer
  BY <1>1 DEF AfterStatus
<1>4. client[c].pid \in Server \cup {NoServer}
  BY DEF ServerShape, Record
<1>5. CASE next = "idle"
  BY <1>1, <1>5, IdleMoves
<1>6. CASE next # "idle"
  <2>1. Moves(c, next, client[c].pid, client[c].mine)
    BY <1>1, <1>2, <1>6, GotoMoves
  <2>2. QED
    BY <1>2, <1>3, <1>4, <1>6, <2>1
<1>7. QED
  BY <1>5, <1>6

LEMMA CleanMoves ==
  ASSUME ServerShape, NEW c \in Client
  PROVE  /\ CleanSocket(c) => Moves(c, "cleanup", client[c].pid, client[c].mine)
         /\ CleanPID(c) => Moves(c, "forget", client[c].pid, client[c].mine)
         /\ CleanMetadata(c) => \/ Moves(c, "start", client[c].pid, client[c].mine)
                                \/ Moves(c, "idle", NoServer, NoServer)
         /\ WritePID(c) => Moves(c, "metadata", client[c].pid, client[c].mine)
         /\ WriteMetadata(c) => Moves(c, "read", client[c].pid, client[c].mine)
         /\ WriteFails(c) \/ Dies(c) => Moves(c, "idle", NoServer, NoServer)
<1>1. CleanSocket(c) => Moves(c, "cleanup", client[c].pid, client[c].mine)
  BY GotoMoves DEF CleanSocket
<1>2. /\ CleanPID(c) => Moves(c, "forget", client[c].pid, client[c].mine)
      /\ CleanMetadata(c) => \/ Moves(c, "start", client[c].pid, client[c].mine)
                             \/ Moves(c, "idle", NoServer, NoServer)
  BY GotoMoves, IdleMoves DEF CleanPID, CleanMetadata
<1>3. WritePID(c) => Moves(c, "metadata", client[c].pid, client[c].mine)
  BY GotoMoves DEF WritePID
<1>4. WriteMetadata(c) => Moves(c, "read", client[c].pid, client[c].mine)
  BY GotoMoves DEF WriteMetadata
<1>5. WriteFails(c) \/ Dies(c) => Moves(c, "idle", NoServer, NoServer)
  BY IdleMoves DEF WriteFails, Dies
<1>6. QED
  BY <1>1, <1>2, <1>3, <1>4, <1>5

LEMMA StartMoves ==
  ASSUME ServerShape, NEW c \in Client, NEW s \in Server, StartServer(c, s)
  PROVE  Moves(c, "pid", client[c].pid, s)
<1> DEFINE r == [client[c] EXCEPT !.pc = "pid", !.mine = s]
<1>1. r \in Record /\ r.pc = "pid" /\ r.pid = client[c].pid /\ r.mine = s
  BY DEF ServerShape, Record
<1>2. client' = [client EXCEPT ![c] = r]
  BY DEF StartServer
<1>3. Moves(c, r.pc, r.pid, r.mine)
  BY <1>1, <1>2, SetClient
<1>4. QED
  BY <1>1, <1>3

LEMMA SignalMoves ==
  ASSUME ServerShape, NEW c \in Client, Signal(c)
  PROVE  \/ Moves(c, "idle", NoServer, NoServer)
         \/ Moves(c, "read", client[c].pid, client[c].pid)
<1>1. CASE Alive(client[c].pid)
  <2> DEFINE r == [client[c] EXCEPT !.pc = "read", !.mine = client[c].pid]
  <2>1. r \in Record /\ r.pc = "read" /\ r.pid = client[c].pid /\ r.mine = client[c].pid
    BY DEF ServerShape, Record
  <2>2. client' = [client EXCEPT ![c] = r]
    BY <1>1 DEF Signal
  <2>3. Moves(c, r.pc, r.pid, r.mine)
    BY <2>1, <2>2, SetClient
  <2>4. QED
    BY <2>1, <2>3
<1>2. CASE ~Alive(client[c].pid)
  BY <1>2, IdleMoves DEF Signal
<1>3. QED
  BY <1>1, <1>2

\* The client's part of the invariant after a step.
LEMMA ClientShape ==
  ASSUME ServerShape, NEW c \in Client, NEW label, NEW pid, NEW mine,
         Moves(c, label, pid, mine),
         label \in {"pid", "metadata"} => mine \in Server,
         label = "signal" => pid \in Server
  PROVE  /\ client' \in [Client -> Record]
         /\ \A d \in Client :
              /\ (At(d, "pid") \/ At(d, "metadata"))' => client'[d].mine \in Server
              /\ At(d, "signal")' => client'[d].pid \in Server
BY DEF ServerShape, Moves, At

\* What a step does to the files and the processes keeps their types.
FileShape ==
  /\ socket \in Server \cup {NoServer} /\ pidFile \in Server \cup {NoServer}
  /\ metadata \in Server \cup {NoServer} /\ storeLock \in Server \cup {NoServer}
  /\ proc \in [Server -> {"unborn", "starting", "binding", "bound", "serving",
                          "stopping", "draining", "closing", "gone"}]
  /\ store \in [Server -> {"none", "file", "memory"}]
  /\ faults \in 0..MaxFailures /\ orphaned \subseteq Server

LEMMA NextFiles == ServerShape /\ [ServerNext]_serverVars => FileShape'
<1> SUFFICES ASSUME ServerShape, [ServerNext]_serverVars PROVE FileShape'
  OBVIOUS
<1> USE DEF ServerShape, FileShape, files
<1>1. CASE UNCHANGED <<files, storeLock, proc, store, faults, orphaned>>
  BY <1>1
<1>2. ASSUME NEW c \in Client, CleanSocket(c) \/ CleanPID(c) \/ CleanMetadata(c) PROVE FileShape'
  BY <1>2 DEF CleanSocket, CleanPID, CleanMetadata
<1>3. ASSUME NEW c \in Client, NEW s \in Server, StartServer(c, s) PROVE FileShape'
  BY <1>3 DEF StartServer
<1>4. ASSUME NEW c \in Client, WritePID(c) \/ WriteMetadata(c) PROVE FileShape'
  BY <1>4 DEF WritePID, WriteMetadata
<1>5. ASSUME NEW c \in Client, WriteFails(c) PROVE FileShape'
  BY <1>5, ServerAssumption DEF WriteFails, Ends, ServerAssumption
<1>6. ASSUME NEW c \in Client, Signal(c) PROVE FileShape'
  BY <1>6 DEF Signal, Terminate, Ends
<1>7. ASSUME NEW s \in Server, ServerStep(s) PROVE FileShape'
  BY <1>7 DEF ServerStep, Unlink, Listen, Ready, Shutdown, RemoveSocket, Exit, Become, Ends
<1>8. ASSUME NEW s \in Server, OpenStore(s) \/ Crash(s) PROVE FileShape'
  BY <1>8, ServerAssumption DEF OpenStore, Crash, Ends, ServerAssumption
<1>9. ASSUME NEW c \in Client, Dies(c) PROVE FileShape'
  BY <1>9, ServerAssumption DEF Dies, ServerAssumption
<1>10. QED
  BY <1>1, <1>2, <1>3, <1>4, <1>5, <1>6, <1>7, <1>8, <1>9
     DEF ServerNext, ClientStep, Command, StatusRead, StatusHealth, serverVars

LEMMA NextServerShape == ServerShape /\ [ServerNext]_serverVars => ServerShape'
<1> SUFFICES ASSUME ServerShape, [ServerNext]_serverVars PROVE ServerShape'
  OBVIOUS
<1> DEFINE Goal == /\ client' \in [Client -> Record]
                   /\ \A d \in Client :
                        /\ (At(d, "pid") \/ At(d, "metadata"))' => client'[d].mine \in Server
                        /\ At(d, "signal")' => client'[d].pid \in Server
<1>1. SUFFICES Goal
  BY NextFiles DEF FileShape, ServerShape
<1> HIDE DEF Goal
<1>2. ASSUME NEW c \in Client, NEW label, NEW pid, NEW mine,
             Moves(c, label, pid, mine),
             label \in {"pid", "metadata"} => mine \in Server,
             label = "signal" => pid \in Server
      PROVE  Goal
  BY <1>2, ClientShape DEF Goal
<1>3. ASSUME NEW c \in Client, ClientStep(c) \/ WriteFails(c) \/ Dies(c) PROVE Goal
  <2>1. CASE StatusRead(c)
    BY <1>2, <2>1, StatusReadMoves
  <2>2. CASE StatusHealth(c)
    BY <1>2, <2>2, StatusHealthMoves
  <2>3. CASE \/ CleanSocket(c) \/ CleanPID(c) \/ CleanMetadata(c) \/ WriteMetadata(c)
             \/ WriteFails(c) \/ Dies(c)
    BY <1>2, <2>3, CleanMoves
  <2>4. CASE WritePID(c)
    BY <1>2, <2>4, CleanMoves DEF ServerShape, WritePID
  <2>5. CASE Signal(c)
    BY <1>2, <2>5, SignalMoves
  <2>6. ASSUME NEW s \in Server, StartServer(c, s) PROVE Goal
    BY <1>2, <2>6, StartMoves
  <2>7. QED
    BY <1>3, <2>1, <2>2, <2>3, <2>4, <2>5, <2>6 DEF ClientStep
<1>4. ASSUME NEW c \in Client, NEW g \in {"ensure", "stop"}, Command(c, g) PROVE Goal
  BY <1>2, <1>4, CommandMoves
<1>5. CASE client' = client
  BY <1>5 DEF Goal, ServerShape, At
<1>6. ASSUME NEW s \in Server, ServerStep(s) \/ OpenStore(s) \/ Crash(s) PROVE Goal
  BY <1>5, <1>6
     DEF ServerStep, OpenStore, Crash, Unlink, Listen, Ready, Shutdown, RemoveSocket, Exit
<1>7. CASE UNCHANGED serverVars
  BY <1>5, <1>7 DEF serverVars
<1>8. QED
  BY <1>3, <1>4, <1>6, <1>7 DEF ServerNext

LEMMA NextOverlapped == overlapped \in BOOLEAN /\ [ServerNext]_serverVars => overlapped' \in BOOLEAN
<1> SUFFICES ASSUME overlapped \in BOOLEAN, [ServerNext]_serverVars PROVE overlapped' \in BOOLEAN
  OBVIOUS
<1>1. ASSUME NEW c, NEW working, Crosses(c, working) PROVE overlapped' \in BOOLEAN
  BY <1>1 DEF Crosses
<1>2. CASE overlapped' = overlapped
  BY <1>2
<1>3. ASSUME NEW c \in Client, ClientStep(c) \/ WriteFails(c) \/ Dies(c)
      PROVE  overlapped' \in BOOLEAN
  BY <1>1, <1>2, <1>3, Zenon
     DEF ClientStep, StatusRead, StatusHealth, CleanSocket, CleanPID, CleanMetadata,
         StartServer, WritePID, WriteMetadata, WriteFails, Dies, Signal
<1>4. ASSUME NEW s \in Server, ServerStep(s) \/ OpenStore(s) \/ Crash(s)
      PROVE  overlapped' \in BOOLEAN
  BY <1>1, <1>2, <1>4, Zenon
     DEF ServerStep, OpenStore, Crash, Unlink, Listen, Ready, Shutdown, RemoveSocket, Exit
<1>5. QED
  BY <1>1, <1>2, <1>3, <1>4 DEF ServerNext, Command, serverVars

\* The files, the lock and the clients always refer to a server or to none, and
\* every process and its store are in a state there is.
THEOREM ServerTypeCorrect == ServerSpec => []ServerTypeOK
<1>1. ServerInit => ServerShape /\ overlapped \in BOOLEAN
  BY InitServer DEF ServerInit
<1>2. ServerShape /\ overlapped \in BOOLEAN /\ [ServerNext]_serverVars
        => (ServerShape /\ overlapped \in BOOLEAN)'
  BY NextServerShape, NextOverlapped
<1>3. ServerShape /\ overlapped \in BOOLEAN => ServerTypeOK
  BY DEF ServerShape, ServerTypeOK, Record
<1>4. QED
  BY <1>1, <1>2, <1>3, PTL DEF ServerSpec

\* A process that ends lets go of the lock.
LEMMA EndsLock ==
  ASSUME ServerShape, StoreLockInv, NEW s \in Server, Ends(s)
  PROVE  StoreLockInv'
BY ServerAssumption DEF ServerShape, StoreLockInv, Ends, Alive, ServerAssumption

LEMMA NextStoreLock == ServerShape /\ StoreLockInv /\ [ServerNext]_serverVars => StoreLockInv'
<1> SUFFICES ASSUME ServerShape, StoreLockInv, [ServerNext]_serverVars PROVE StoreLockInv'
  OBVIOUS
<1>1. CASE UNCHANGED <<storeLock, proc, store>>
  BY <1>1 DEF StoreLockInv, Alive
<1>2. ASSUME NEW c \in Client, WriteFails(c) PROVE StoreLockInv'
  BY <1>2, EndsLock DEF WriteFails, ServerShape
<1>3. ASSUME NEW c \in Client, Signal(c) PROVE StoreLockInv'
  <2>1. client[c].pid \in Server
    BY <1>3 DEF Signal, ServerShape
  <2>2. CASE Ends(client[c].pid)
    BY <2>1, <2>2, EndsLock
  <2>3. CASE UNCHANGED <<storeLock, store>> /\ proc' = [proc EXCEPT ![client[c].pid] = "stopping"]
    BY <2>1, <2>3 DEF ServerShape, StoreLockInv, Alive
  <2>4. QED
    BY <1>1, <1>3, <2>2, <2>3 DEF Signal, Terminate
<1>4. ASSUME NEW s \in Server, ServerStep(s) PROVE StoreLockInv'
  <2>1. CASE Ends(s)
    BY <2>1, EndsLock
  <2>2. ASSUME NEW state \in {"binding", "bound", "serving", "draining", "closing"},
               Become(s, state), storeLock' = storeLock, store' = store
        PROVE  StoreLockInv'
    BY <2>2 DEF ServerShape, StoreLockInv, Alive, Become
  <2>3. QED
    BY <1>4, <2>1, <2>2
       DEF ServerStep, Unlink, Listen, Ready, Shutdown, RemoveSocket, Exit
<1>5. ASSUME NEW s \in Server, OpenStore(s) \/ Crash(s) PROVE StoreLockInv'
  <2>1. CASE OpenStore(s)
    BY <2>1 DEF OpenStore, ServerShape, StoreLockInv, Alive, Answers
  <2>2. CASE Crash(s)
    BY <2>2, EndsLock DEF Crash
  <2>3. QED
    BY <1>5, <2>1, <2>2
<1>6. ASSUME NEW c \in Client, NEW s \in Server, StartServer(c, s) PROVE StoreLockInv'
  BY <1>6 DEF StartServer, ServerShape, StoreLockInv, Alive
<1>7. QED
  BY <1>1, <1>2, <1>3, <1>4, <1>5, <1>6
     DEF ServerNext, ClientStep, Command, StatusRead, StatusHealth, CleanSocket, CleanPID,
         CleanMetadata, WritePID, WriteMetadata, Dies, serverVars

-----------------------------------------------------------------------------
\* Commands that take turns.

Turns == Alone /\ OneAlive /\ \A s \in Server : Reached(s) /\ Known(s)

\* A client that moves is the only one that is not idle.
LEMMA MovesAlone ==
  ASSUME ServerShape, NEW c \in Client, NEW label, NEW pid, NEW mine,
         Moves(c, label, pid, mine), Alone,
         ~At(c, "idle") \/ \A d \in Client \ {c} : At(d, "idle")
  PROVE  /\ Alone' /\ \A d \in Client \ {c} : At(d, "idle") /\ At(d, "idle")'
         /\ \A d \in Client \ {c} : ~Writes(d) /\ ~Writes(d)' /\ ~Cleans(d)'
BY DEF ServerShape, Alone, Moves, At, Writes, Cleans

\* A step that reads, or decides, writes nothing.
LEMMA ReadTurns ==
  ASSUME ServerShape, Turns, NEW c \in Client, NEW label, NEW pid, NEW mine,
         Moves(c, label, pid, mine), ~Writes(c),
         label \in {"idle", "read", "health", "unlink", "start", "signal"},
         ~At(c, "idle") \/ \A d \in Client \ {c} : At(d, "idle"),
         UNCHANGED <<socket, pidFile, metadata, proc, store, orphaned>>
  PROVE  Turns'
<1>1. /\ Alone' /\ \A d \in Client \ {c} : ~Writes(d) /\ ~Writes(d)' /\ ~Cleans(d)'
  BY MovesAlone DEF Turns
<1>2. ~Writes(c)' /\ ~Cleans(c)' /\ ~At(c, "metadata")'
  BY DEF Moves, Writes, Cleans, At
<1>3. OneAlive' /\ \A s \in Server : Reached(s)'
  BY DEF Turns, OneAlive, Reached, Alive, Answers
<1>4. \A d \in Client : ~Writes(d) /\ ~Writes(d)' /\ ~Cleans(d)'
  BY <1>1, <1>2
<1>5. ASSUME NEW s \in Server PROVE Known(s)'
  <2>1. \A d \in Client : ~At(d, "metadata")'
    BY <1>4 DEF Writes
  <2>2. Alive(s)' => Alive(s)
    BY DEF Alive
  <2>3. QED
    BY <1>4, <2>1, <2>2 DEF Turns, Known
<1>6. QED
  BY <1>1, <1>3, <1>5 DEF Turns

\* A command cleans up, and starts a server, when there is none.
LEMMA CleanTurns ==
  ASSUME ServerShape, Turns, NEW c \in Client, CleanSocket(c), ~overlapped'
  PROVE  Turns'
<1>1. \A s \in Server : ~Alive(s)
  BY Zenon DEF CleanSocket, Crosses
<1>2. /\ proc' = proc /\ store' = store /\ Moves(c, "cleanup", client[c].pid, client[c].mine)
  BY CleanMoves DEF CleanSocket
<1>3. Alone'
  BY <1>2, MovesAlone DEF Turns, CleanSocket, At
<1>4. \A s \in Server : ~Alive(s)'
  BY <1>1, <1>2 DEF Alive
<1>5. \A s \in Server : Reached(s)' /\ Known(s)'
  BY <1>2, <1>4 DEF Turns, Reached, Known, Answers, Alive
<1>6. QED
  BY <1>3, <1>4, <1>5 DEF Turns, OneAlive

LEMMA CleanFilesTurns ==
  ASSUME ServerShape, Turns, NEW c \in Client, CleanPID(c) \/ CleanMetadata(c)
  PROVE  Turns'
<1>1. \A s \in Server : ~Alive(s)
  BY DEF Turns, Known, Cleans, CleanPID, CleanMetadata
<1>2. proc' = proc /\ store' = store
  BY DEF CleanPID, CleanMetadata
<1>3. Alone'
  BY CleanMoves, MovesAlone DEF Turns, CleanPID, CleanMetadata, At
<1>4. \A s \in Server : ~Alive(s)'
  BY <1>1, <1>2 DEF Alive
<1>5. \A s \in Server : Reached(s)' /\ Known(s)'
  BY <1>2, <1>4 DEF Turns, Reached, Known, Answers, Alive
<1>6. QED
  BY <1>3, <1>4, <1>5 DEF Turns, OneAlive

\* A command that ends half way leaves the server it has started an orphan.
LEMMA DiesTurns ==
  ASSUME ServerShape, Turns, NEW c \in Client, Dies(c)
  PROVE  Turns'
<1>1. Moves(c, "idle", NoServer, NoServer) /\ UNCHANGED <<socket, pidFile, metadata, proc, store>>
  BY CleanMoves DEF Dies, files
<1>2. /\ Alone' /\ \A d \in Client \ {c} : ~Writes(d) /\ ~Writes(d)' /\ ~Cleans(d)'
  BY <1>1, MovesAlone DEF Turns, Dies
<1>3. ~Writes(c)' /\ ~Cleans(c)'
  BY <1>1 DEF Moves, Writes, Cleans, At
<1>4. \A d \in Client : ~Writes(d)' /\ ~Cleans(d)' /\ ~At(d, "metadata")'
  BY <1>2, <1>3 DEF Writes
<1>5. OneAlive' /\ \A s \in Server : Reached(s)' /\ (Alive(s)' <=> Alive(s))
  BY <1>1 DEF Turns, OneAlive, Reached, Alive, Answers
<1>6. ASSUME NEW s \in Server, Alive(s)
      PROVE  s \in orphaned' \/ (pidFile' = s /\ metadata' = s)
  <2>1. CASE Writes(c)
    <3>1. client[c].mine = s
      BY <1>6, <2>1 DEF Turns, Known
    <3>2. QED
      BY <2>1, <3>1 DEF Dies, Writes
  <2>2. CASE ~Writes(c)
    <3>1. \A d \in Client : ~Writes(d)
      BY <1>2, <2>2
    <3>2. s \in orphaned \/ (pidFile = s /\ metadata = s)
      BY <1>6, <3>1 DEF Turns, Known
    <3>3. QED
      BY <1>1, <2>2, <3>2 DEF Dies, Writes
  <2>3. QED
    BY <2>1, <2>2
<1>7. \A s \in Server : Known(s)'
  BY <1>4, <1>5, <1>6 DEF Known
<1>8. QED
  BY <1>2, <1>5, <1>7 DEF Turns

LEMMA StartTurns ==
  ASSUME ServerShape, Turns, NEW c \in Client, NEW s \in Server, StartServer(c, s), ~overlapped'
  PROVE  Turns'
<1>1. \A t \in Server : ~Alive(t)
  BY Zenon DEF StartServer, Crosses
<1>2. /\ UNCHANGED <<socket, pidFile, metadata, store, orphaned>> /\ Moves(c, "pid", client[c].pid, s)
  BY StartMoves DEF StartServer, files
<1>3. /\ Alone' /\ \A d \in Client \ {c} : ~Writes(d)' /\ ~Cleans(d)'
  BY <1>2, MovesAlone DEF Turns, StartServer, At
<1>4. proc'[s] = "starting" /\ \A t \in Server \ {s} : ~Alive(t)'
  BY <1>1 DEF StartServer, ServerShape, Alive
<1>5. OneAlive'
  BY <1>4 DEF OneAlive
<1>6. \A t \in Server : Reached(t)'
  BY <1>2, <1>4 DEF Turns, Reached, Answers, Alive
<1>7. /\ ~Cleans(c)' /\ Writes(c)' /\ ~At(c, "metadata")' /\ client'[c].mine = s
  BY <1>2 DEF Moves, Writes, Cleans, At
<1>8. \A d \in Client : ~At(d, "metadata")' /\ ~Cleans(d)' /\ (Writes(d)' => d = c)
  BY <1>3, <1>7 DEF Writes
<1>9. \A t \in Server : Known(t)'
  BY <1>4, <1>7, <1>8 DEF Known
<1>10. QED
  BY <1>3, <1>5, <1>6, <1>9 DEF Turns

\* The client writes the files of the one server there may be, which it started.
LEMMA WriteTurns ==
  ASSUME ServerShape, Turns, NEW c \in Client, WritePID(c) \/ WriteMetadata(c)
  PROVE  Turns'
<1>1. UNCHANGED <<socket, proc, store>> /\ Writes(c)
  BY DEF WritePID, WriteMetadata, Writes
<1>2. \A s \in Server : Alive(s) => client[c].mine = s
  BY <1>1 DEF Turns, Known
<1>3. OneAlive' /\ \A s \in Server : Reached(s)' /\ (Alive(s)' <=> Alive(s))
  BY <1>1 DEF Turns, OneAlive, Reached, Alive, Answers
<1>4. CASE WritePID(c)
  <2>1. Moves(c, "metadata", client[c].pid, client[c].mine)
    BY <1>4, CleanMoves
  <2>2. Alone' /\ \A d \in Client \ {c} : ~Writes(d)' /\ ~Cleans(d)'
    BY <1>4, <2>1, MovesAlone DEF Turns, WritePID, At
  <2>3. Writes(c)' /\ ~Cleans(c)' /\ client'[c].mine = client[c].mine
    BY <2>1 DEF Moves, Writes, Cleans, At
  <2>4. \A d \in Client : ~Cleans(d)' /\ (Writes(d)' => d = c)
    BY <2>2, <2>3
  <2>5. pidFile' = client[c].mine
    BY <1>4 DEF WritePID
  <2>6. \A d \in Client : At(d, "metadata")' => Writes(d)'
    BY DEF Writes
  <2>7. \A s \in Server : Known(s)'
    BY <1>2, <1>3, <2>3, <2>4, <2>5, <2>6 DEF Known
  <2>8. QED
    BY <1>3, <2>2, <2>7 DEF Turns
<1>5. CASE WriteMetadata(c)
  <2>1. Moves(c, "read", client[c].pid, client[c].mine)
    BY <1>5, CleanMoves
  <2>2. Alone' /\ \A d \in Client \ {c} : ~Writes(d)' /\ ~Cleans(d)'
    BY <1>5, <2>1, MovesAlone DEF Turns, WriteMetadata, At
  <2>3. ~Writes(c)' /\ ~Cleans(c)'
    BY <2>1 DEF Moves, Writes, Cleans, At
  <2>4. \A d \in Client : ~Cleans(d)' /\ ~Writes(d)'
    BY <2>2, <2>3
  <2>5. metadata' = client[c].mine /\ pidFile' = pidFile
    BY <1>5 DEF WriteMetadata
  <2>6. \A s \in Server : Alive(s) => pidFile = s
    BY <1>5 DEF Turns, Known, WriteMetadata
  <2>7. \A d \in Client : ~At(d, "metadata")'
    BY <2>4 DEF Writes
  <2>8. \A s \in Server : Known(s)'
    BY <1>2, <1>3, <2>4, <2>5, <2>6, <2>7 DEF Known
  <2>9. QED
    BY <1>3, <2>2, <2>8 DEF Turns
<1>6. QED
  BY <1>4, <1>5

\* The end of a process leaves the other clauses to those that stay, of which
\* there are none.
LEMMA EndsTurns ==
  ASSUME ServerShape, Turns, NEW s \in Server, Ends(s), Alone',
         socket' = socket,
         Alive(s) \/ UNCHANGED <<pidFile, metadata, client, orphaned>>
  PROVE  Turns'
<1>1. /\ proc'[s] = "gone" /\ store'[s] = "none"
      /\ \A t \in Server \ {s} : proc'[t] = proc[t] /\ store'[t] = store[t]
  BY DEF Ends, ServerShape
<1>2. OneAlive'
  BY <1>1 DEF Turns, OneAlive, Alive
<1>3. \A t \in Server : Reached(t)'
  BY <1>1 DEF Turns, Reached, Answers
<1>4. CASE Alive(s)
  <2>1. \A t \in Server : ~Alive(t)'
    BY <1>1, <1>4 DEF Turns, OneAlive, Alive
  <2>2. QED
    BY <1>2, <1>3, <2>1 DEF Turns, Known
<1>5. CASE UNCHANGED <<pidFile, metadata, client, orphaned>>
  <2>1. \A t \in Server : Known(t)'
    BY <1>1, <1>5 DEF Turns, Known, Alive, At, Writes, Cleans
  <2>2. QED
    BY <1>2, <1>3, <2>1 DEF Turns
<1>6. QED
  BY <1>4, <1>5

LEMMA WriteFailsTurns ==
  ASSUME ServerShape, Turns, NEW c \in Client, WriteFails(c)
  PROVE  Turns'
<1>1. client[c].mine \in Server /\ Ends(client[c].mine) /\ socket' = socket /\ Writes(c)
  BY DEF WriteFails, ServerShape, Writes
<1>2. Alone'
  BY CleanMoves, MovesAlone DEF Turns, WriteFails, At
<1>3. CASE Alive(client[c].mine)
  BY <1>1, <1>2, <1>3, EndsTurns
<1>4. CASE ~Alive(client[c].mine)
  <2>1. \A s \in Server : ~Alive(s)
    BY <1>1, <1>4 DEF Turns, Known
  <2>2. \A s \in Server : ~Alive(s)' /\ store'[s] # "memory"
    BY <1>1, <2>1 DEF Ends, Alive, ServerShape, Turns, Reached
  <2>3. \A s \in Server : Reached(s)' /\ Known(s)'
    BY <2>2 DEF Reached, Known, Alive, Answers
  <2>4. QED
    BY <1>2, <2>2, <2>3 DEF Turns, OneAlive
<1>5. QED
  BY <1>3, <1>4

LEMMA SignalTurns ==
  ASSUME ServerShape, Turns, NEW c \in Client, Signal(c)
  PROVE  Turns'
<1> DEFINE s == client[c].pid
<1>1. /\ s \in Server /\ UNCHANGED <<socket, pidFile, metadata, orphaned>>
      /\ ~Writes(c) /\ ~At(c, "idle")
  BY DEF Signal, ServerShape, files, At, Writes, Cleans
<1>2. PICK label \in {"idle", "read"}, pid \in Server \cup {NoServer},
        mine \in Server \cup {NoServer} : Moves(c, label, pid, mine)
  BY <1>1, SignalMoves DEF ServerShape, Record
<1>3. CASE UNCHANGED <<proc, store>>
  BY <1>1, <1>2, <1>3, ReadTurns
<1>4. Alone'
  BY <1>1, <1>2, MovesAlone DEF Turns
<1>5. CASE Alive(s) /\ Ends(s)
  BY <1>1, <1>4, <1>5, EndsTurns
<1>6. CASE Alive(s) /\ proc[s] = "serving" /\ proc' = [proc EXCEPT ![s] = "stopping"]
           /\ store' = store
  <2>1. \A t \in Server : (Alive(t)' <=> Alive(t)) /\ (Answers(t)' => Answers(t))
    BY <1>1, <1>6 DEF ServerShape, Alive, Answers
  <2>2. OneAlive' /\ \A t \in Server : Reached(t)'
    BY <1>1, <1>6, <2>1 DEF Turns, OneAlive, Reached, ServerShape
  <2>3. \A d \in Client : ~Writes(d) /\ ~Writes(d)' /\ ~Cleans(d)'
    <3>1. ~Writes(c)' /\ ~Cleans(c)'
      BY <1>2 DEF Moves, Writes, Cleans, At
    <3>2. QED
      BY <1>1, <1>2, <3>1, MovesAlone DEF Turns
  <2>4. \A d \in Client : ~At(d, "metadata")'
    BY <2>3 DEF Writes
  <2>5. \A t \in Server : Known(t)'
    BY <1>1, <2>1, <2>3, <2>4 DEF Turns, Known
  <2>6. QED
    BY <1>4, <2>2, <2>5 DEF Turns
<1>7. CASE Alive(s) /\ UNCHANGED <<proc, storeLock, store>>
  BY <1>3, <1>7
<1>8. QED
  BY <1>3, <1>5, <1>6, <1>7 DEF Signal, Terminate

\* The one server process unlinks, binds, serves and removes its own socket.
LEMMA ServerTurns ==
  ASSUME ServerShape, Turns, NEW s \in Server, ServerStep(s)
  PROVE  Turns'
<1>0. Alone'
  BY DEF Turns, Alone, At, ServerStep, Unlink, Listen, Ready, Shutdown, RemoveSocket, Exit
<1>1. Alive(s) /\ \A t \in Server \ {s} : ~Alive(t)
  BY DEF Turns, OneAlive, Alive, ServerStep, Unlink, Listen, Ready, Shutdown,
         RemoveSocket, Exit
<1>2. CASE Ends(s) /\ socket' = socket
  BY <1>0, <1>1, <1>2, EndsTurns
<1>3. ASSUME NEW state \in {"binding", "bound", "serving", "draining", "closing"},
             Become(s, state), UNCHANGED <<pidFile, metadata, store, client, orphaned>>,
             state = "binding" => socket' = NoServer,
             state \in {"bound", "serving"} => socket' = s
      PROVE  Turns'
  <2>1. proc'[s] = state /\ \A t \in Server \ {s} : ~Alive(t)'
    BY <1>1, <1>3 DEF Become, ServerShape, Alive
  <2>2. OneAlive'
    BY <2>1 DEF OneAlive
  <2>3. \A t \in Server : Reached(t)'
    BY <1>3, <2>1 DEF Turns, Reached, Answers, Alive
  <2>4. \A t \in Server : Known(t)'
    BY <1>1, <1>3, <2>1 DEF Turns, Known, At, Writes, Cleans
  <2>5. QED
    BY <1>0, <2>2, <2>3, <2>4 DEF Turns
<1>4. CASE Unlink(s)
  BY <1>3, <1>4 DEF Unlink
<1>5. CASE Listen(s)
  BY <1>2, <1>3, <1>5 DEF Listen
<1>6. CASE Ready(s)
  BY <1>3, <1>6 DEF Ready, files, Turns, Reached, Answers
<1>7. CASE Shutdown(s) \/ RemoveSocket(s)
  BY <1>3, <1>7 DEF Shutdown, RemoveSocket
<1>8. CASE Exit(s)
  BY <1>2, <1>8 DEF Exit, files
<1>9. QED
  BY <1>4, <1>5, <1>6, <1>7, <1>8 DEF ServerStep

\* The lock is held by nobody else, so the store opens its file.
LEMMA OpenTurns ==
  ASSUME ServerShape, StoreLockInv, Turns, NEW s \in Server, OpenStore(s)
  PROVE  Turns'
<1>1. storeLock = NoServer
  <2>1. Alive(s) /\ store[s] = "none"
    BY DEF OpenStore, Alive, Answers
  <2>2. QED
    BY <2>1 DEF StoreLockInv, ServerShape, Turns, OneAlive
<1>2. UNCHANGED <<socket, pidFile, metadata, proc, client, orphaned>>
  BY DEF OpenStore, files
<1>3. \A t \in Server : store'[t] # "memory"
  BY <1>1 DEF OpenStore, ServerShape, Turns, Reached
<1>4. QED
  BY <1>2, <1>3 DEF Turns, Alone, OneAlive, Reached, Known, Alive, Answers, At, Writes, Cleans

LEMMA CrashTurns ==
  ASSUME ServerShape, Turns, NEW s \in Server, Crash(s)
  PROVE  Turns'
<1>1. Ends(s) /\ Alive(s) /\ socket' = socket /\ client' = client
  BY DEF Crash, files
<1>2. Alone'
  BY <1>1 DEF Turns, Alone, At
<1>3. QED
  BY <1>1, <1>2, EndsTurns

LEMMA NextTurn == ServerShape /\ StoreLockInv /\ TurnInv /\ [ServerNext]_serverVars => TurnInv'
<1> SUFFICES ASSUME ServerShape, StoreLockInv, TurnInv, [ServerNext]_serverVars, ~overlapped' PROVE Turns'
  BY DEF TurnInv, Turns
<1>1. ~overlapped
  BY Zenon
     DEF ServerNext, ClientStep, ServerStep, Command, StatusRead, StatusHealth, CleanSocket,
         CleanPID, CleanMetadata, StartServer, WritePID, WriteMetadata, WriteFails, Dies,
         Signal, Unlink,
         Listen, Ready, OpenStore, Shutdown, RemoveSocket, Exit, Crash, Crosses, serverVars
<1>2. Turns
  BY <1>1 DEF TurnInv, Turns
<1>3. ASSUME NEW c \in Client, NEW g \in {"ensure", "stop"}, Command(c, g) PROVE Turns'
  <2>1. \A d \in Client \ {c} : At(d, "idle")
    BY <1>3, Zenon DEF Command, Crosses
  <2>2. ~Writes(c) /\ UNCHANGED <<socket, pidFile, metadata, proc, store, orphaned>>
    BY <1>3 DEF Command, files, Writes, At
  <2>3. QED
    BY <1>2, <1>3, <2>1, <2>2, CommandMoves, ReadTurns
<1>4. ASSUME NEW c \in Client, StatusRead(c) PROVE Turns'
  <2>1. ~Writes(c) /\ ~At(c, "idle") /\ UNCHANGED <<socket, pidFile, metadata, proc, store, orphaned>>
    BY <1>4 DEF StatusRead, files, Writes, At
  <2>2. QED
    BY <1>2, <1>4, <2>1, StatusReadMoves, ReadTurns
<1>5. ASSUME NEW c \in Client, StatusHealth(c) PROVE Turns'
  <2>1. ~Writes(c) /\ ~At(c, "idle") /\ UNCHANGED <<socket, pidFile, metadata, proc, store, orphaned>>
    BY <1>5 DEF StatusHealth, files, Writes, At
  <2>2. CASE Moves(c, "idle", NoServer, NoServer)
    BY <1>2, <2>1, <2>2, ReadTurns
  <2>3. CASE Moves(c, "signal", client[c].pid, client[c].mine)
    BY <1>2, <2>1, <2>3, ReadTurns
  <2>4. ASSUME NEW label \in {"read", "unlink", "start"},
               Moves(c, label, client[c].pid, client[c].mine)
        PROVE  Turns'
    BY <1>2, <2>1, <2>4, ReadTurns
  <2>5. QED
    BY <1>5, <2>2, <2>3, <2>4, StatusHealthMoves
<1>6. ASSUME NEW c \in Client,
             \/ CleanSocket(c) \/ CleanPID(c) \/ CleanMetadata(c) \/ WritePID(c)
             \/ WriteMetadata(c) \/ WriteFails(c) \/ Dies(c) \/ Signal(c)
      PROVE  Turns'
  BY <1>2, <1>6, CleanTurns, CleanFilesTurns, WriteTurns, WriteFailsTurns, DiesTurns,
     SignalTurns
<1>7. ASSUME NEW c \in Client, NEW s \in Server, StartServer(c, s) PROVE Turns'
  BY <1>2, <1>7, StartTurns
<1>8. ASSUME NEW s \in Server, ServerStep(s) \/ OpenStore(s) \/ Crash(s) PROVE Turns'
  BY <1>2, <1>8, ServerTurns, OpenTurns, CrashTurns
<1>9. CASE UNCHANGED serverVars
  BY <1>2, <1>9
     DEF serverVars, files, Turns, Alone, OneAlive, Reached, Known, Alive, Answers, At, Writes, Cleans
<1>10. QED
  BY <1>3, <1>4, <1>5, <1>6, <1>7, <1>8, <1>9 DEF ServerNext, ClientStep

\* Commands that take turns, each after the process of the last server is gone,
\* leave one server that clients reach, whose PID the files hold and whose jobs
\* are on disk, whatever crashed or failed before, for every number of clients,
\* server processes and faults.
THEOREM TurnsLeaveOneServer == ServerSpec => []OneServer
<1>1. TurnInv => OneServer
  <2> SUFFICES ASSUME TurnInv, ~overlapped, NEW s \in Server, Answers(s)
               PROVE  /\ socket = s /\ store[s] # "memory"
                      /\ (\A c \in Client : ~Busy(c)) =>
                           s \in orphaned \/ (pidFile = s /\ metadata = s)
    BY DEF OneServer
  <2>1. Alive(s)
    BY DEF Alive, Answers
  <2>2. \A c \in Client : ~Busy(c) => ~Writes(c)
    BY DEF Busy, Writes, At
  <2>3. QED
    BY <2>1, <2>2 DEF TurnInv, Reached, Known
<1>2. QED
  BY <1>1, InitServer, NextServerShape, NextStoreLock, NextTurn, PTL DEF ServerSpec
=============================================================================
