------------------------------ MODULE AuthFlow ------------------------------
(***************************************************************************)
(* Logins of the authentication service (internal/core/service/auth) and   *)
(* the refresh of the Charmhub token (adapter/secondary/charmhub).         *)
(*                                                                         *)
(* A behaviour is about one provider, since providers share no state.      *)
(* Launchpad and GitHub keep a pending flow between begin and finalize;    *)
(* Charmhub and the Snap Store leave it to the client.  A caller is a      *)
(* request to the API, or a user of Charmhub's publisher API.  X_Bug is a  *)
(* faulty variant of X.                                                    *)
(***************************************************************************)
EXTENDS Naturals, FiniteSets

CONSTANTS
  Flow,        \* logins begun: flow ids, or discharged bundles
  Caller,
  NoFlow,
  MaxFaults,   \* bound: logins that meet a failing or lost step
  MaxExpiries  \* bound: times the stored publisher token expires

ASSUME AuthAssumption ==
  NoFlow \notin Flow /\ IsFiniteSet(Flow) /\ MaxFaults \in Nat /\ MaxExpiries \in Nat

Kind == {"launchpad", "github", "snapstore", "charmhub"}

VARIABLES
  kind,      \* the provider of this behaviour
  fromEnv,   \* its credentials come from the environment
  flows,     \* the pending flows of the flow store
  old,       \* logins whose time is over, for the store and the provider
  grant,     \* what the provider makes of each login
  file,      \* the login whose credentials are in the file, if any
  expired,   \* the stored publisher token has expired
  expiries,
  pc, at,    \* each caller: its next step, the login it handles
  lock,      \* CredentialProvider.mu
  saved,     \* history: logins whose credentials were saved
  last,      \* history: what the last login or logout left in the file
  crossed,   \* history: a login or logout wrote during a refresh
  hurt       \* history: logins that met a fault

remote == <<kind, fromEnv, old, grant>>
local == <<file, expired, saved, last, crossed>>
vars == <<remote, flows, local, expiries, pc, at, lock, hurt>>

UsesFlows == kind \in {"launchpad", "github"}

Init ==
  /\ kind \in Kind /\ fromEnv \in BOOLEAN
  /\ flows = {} /\ old = {} /\ grant = [f \in Flow |-> "none"]
  /\ file = NoFlow /\ expired = FALSE /\ expiries = 0
  /\ pc = [c \in Caller |-> "idle"] /\ at = [c \in Caller |-> NoFlow]
  /\ lock = {}
  /\ saved = {} /\ last = NoFlow /\ crossed = FALSE /\ hurt = {}

-----------------------------------------------------------------------------
\* The user and the provider.

Decide(f) ==
  /\ grant[f] = "asked" /\ f \notin old
  /\ \E g \in {"granted", "denied"} : grant' = [grant EXCEPT ![f] = g]
  /\ UNCHANGED <<kind, fromEnv, old, flows, local, expiries, pc, at, lock, hurt>>

TimeOut(f) ==
  /\ grant[f] # "none" /\ f \notin old
  /\ old' = old \cup {f}
  /\ UNCHANGED <<kind, fromEnv, grant, flows, local, expiries, pc, at, lock, hurt>>

TokenExpires ==
  /\ kind = "charmhub" /\ ~expired /\ expiries < MaxExpiries
  /\ expired' = TRUE /\ expiries' = expiries + 1
  /\ UNCHANGED <<remote, flows, file, saved, last, crossed, pc, at, lock, hurt>>

-----------------------------------------------------------------------------
\* Steps of a caller.

Goto(c, label) == pc' = [pc EXCEPT ![c] = label]

\* Put prunes the expired flows in the transaction that adds the new one.
Begin(c, f) ==
  /\ pc[c] = "idle" /\ grant[f] = "none"
  /\ fromEnv => kind = "launchpad"
  /\ grant' = [grant EXCEPT ![f] = "asked"]
  /\ flows' = IF UsesFlows THEN (flows \ old) \cup {f} ELSE flows
  /\ UNCHANGED <<kind, fromEnv, old, local, expiries, pc, at, lock, hurt>>

StartFinalize(c, f) ==
  /\ pc[c] = "idle" /\ grant[f] # "none"
  /\ ~UsesFlows => grant[f] = "granted"
  /\ at' = [at EXCEPT ![c] = f]
  /\ Goto(c, CASE UsesFlows -> "get" [] kind = "charmhub" -> "exchange" [] OTHER -> "save")
  /\ UNCHANGED <<remote, flows, local, expiries, lock, hurt>>

\* Get drops the flow it was asked for when that one has expired, and all other
\* expired ones.
FlowGet(c) ==
  /\ pc[c] = "get"
  /\ flows' = flows \ old
  /\ Goto(c, IF at[c] \in flows \ old THEN "exchange" ELSE "idle")
  /\ UNCHANGED <<remote, local, expiries, at, lock, hurt>>

Granted(f) == grant[f] = "granted" /\ (kind = "launchpad" \/ f \notin old)

Exchange(c) ==
  /\ pc[c] = "exchange" /\ Granted(at[c])
  /\ grant' = IF UsesFlows THEN [grant EXCEPT ![at[c]] = "spent"] ELSE grant
  /\ Goto(c, IF UsesFlows THEN "delete" ELSE "save")
  /\ UNCHANGED <<kind, fromEnv, old, flows, local, expiries, at, lock, hurt>>

PollsOn_Bug(f) == kind = "github" /\ grant[f] = "asked"

\* GitHub is polled while it waits for the user (nothing changes), and a final
\* no of it ends the flow.  Launchpad's no leaves the flow.
PollsOn(f) == kind = "github" /\ grant[f] = "asked" /\ f \notin old

DropsFlow_Bug(f) == kind = "github" \/ grant[f] = "asked"

DropsFlow(f) == kind = "github"

ExchangeRefused(c) ==
  /\ pc[c] = "exchange" /\ ~Granted(at[c]) /\ ~PollsOn(at[c])
  /\ flows' = IF DropsFlow(at[c]) THEN flows \ {at[c]} ELSE flows
  /\ Goto(c, "idle")
  /\ UNCHANGED <<remote, local, expiries, at, lock, hurt>>

\* The context of the request ends, or the provider cannot be reached.
ExchangeFails(c) ==
  /\ pc[c] = "exchange"
  /\ Goto(c, "idle")
  /\ UNCHANGED <<remote, flows, local, expiries, at, lock, hurt>>

\* The provider's answer is lost, a store fails, or the server ends.
Faulty(c) ==
  /\ pc[c] \in {"exchange", "delete", "save"}
  /\ at[c] \notin hurt /\ Cardinality(hurt) < MaxFaults
  /\ hurt' = hurt \cup {at[c]}
  /\ grant' = IF UsesFlows /\ pc[c] = "exchange" /\ Granted(at[c])
                THEN [grant EXCEPT ![at[c]] = "spent"] ELSE grant
  /\ Goto(c, "idle")
  /\ UNCHANGED <<kind, fromEnv, old, flows, local, expiries, at, lock>>

DeleteFlow(c) ==
  /\ pc[c] = "delete"
  /\ flows' = flows \ {at[c]}
  /\ Goto(c, "save")
  /\ UNCHANGED <<remote, local, expiries, at, lock, hurt>>

\* A login or a logout leaves f (or nothing) in the file.
Write(f) ==
  /\ file' = f /\ last' = f /\ crossed' = (crossed \/ lock # {})

SaveCredentials(c) ==
  /\ pc[c] = "save"
  /\ Write(at[c]) /\ expired' = FALSE /\ saved' = saved \cup {at[c]}
  /\ Goto(c, "idle")
  /\ UNCHANGED <<remote, flows, expiries, at, lock, hurt>>

Logout(c) ==
  /\ pc[c] = "idle" /\ file # NoFlow /\ ~fromEnv
  /\ Goto(c, "clear")
  /\ UNCHANGED <<remote, flows, local, expiries, at, lock, hurt>>

ClearCredentials(c) ==
  /\ pc[c] = "clear"
  /\ Write(NoFlow)
  /\ Goto(c, "idle")
  /\ UNCHANGED <<remote, flows, expired, saved, expiries, at, lock, hurt>>

-----------------------------------------------------------------------------
\* A request to the publisher API: send, refresh, send again.

Accepted == ~expired /\ (fromEnv \/ file # NoFlow)
Bundle == IF fromEnv THEN NoFlow ELSE file

Send(c) ==
  /\ pc[c] = "idle" /\ kind = "charmhub"
  /\ at' = [at EXCEPT ![c] = Bundle]
  /\ Goto(c, IF Accepted THEN "idle" ELSE "refresh")
  /\ UNCHANGED <<remote, flows, local, expiries, lock, hurt>>

RefreshLoad_Bug(c) ==
  /\ pc[c] = "refresh" /\ lock = {}
  /\ IF at[c] = NoFlow THEN Goto(c, "idle") /\ lock' = {}
                       ELSE Goto(c, "reexchange") /\ lock' = {c}
  /\ UNCHANGED <<remote, flows, local, expiries, at, hurt>>

\* mu.Lock and Load.
RefreshLoad(c) ==
  /\ pc[c] = "refresh" /\ lock = {}
  /\ at' = [at EXCEPT ![c] = Bundle]
  /\ IF Bundle = NoFlow THEN Goto(c, "idle") /\ lock' = {}
                        ELSE Goto(c, "reexchange") /\ lock' = {c}
  /\ UNCHANGED <<remote, flows, local, expiries, hurt>>

RefreshExchange_Bug(c) ==
  /\ pc[c] = "reexchange"
  /\ \/ Goto(c, "resave") \/ Goto(c, "idle")
  /\ UNCHANGED <<remote, flows, local, expiries, at, lock, hurt>>

\* The bundle may be exhausted, which asks for a new login.
RefreshExchange(c) ==
  /\ pc[c] = "reexchange"
  /\ \/ Goto(c, "resave") /\ UNCHANGED lock
     \/ Goto(c, "idle") /\ lock' = {}
  /\ UNCHANGED <<remote, flows, local, expiries, at, hurt>>

RefreshSave(c) ==
  /\ pc[c] = "resave"
  /\ file' = at[c] /\ expired' = FALSE
  /\ lock' = {} /\ Goto(c, "resend")
  /\ UNCHANGED <<remote, flows, saved, last, crossed, expiries, at, hurt>>

\* The second answer is final, whatever it is.
Resend(c) ==
  /\ pc[c] = "resend"
  /\ Goto(c, "idle")
  /\ UNCHANGED <<remote, flows, local, expiries, at, lock, hurt>>

-----------------------------------------------------------------------------
\* Steps a caller takes once it has started.
Step(c) ==
  \/ FlowGet(c) \/ Exchange(c) \/ ExchangeRefused(c) \/ DeleteFlow(c)
  \/ SaveCredentials(c) \/ ClearCredentials(c)
  \/ RefreshExchange(c) \/ RefreshSave(c) \/ Resend(c)

Next ==
  \/ TokenExpires
  \/ \E f \in Flow : Decide(f) \/ TimeOut(f)
  \/ \E c \in Caller :
       \/ Step(c) \/ RefreshLoad(c) \/ ExchangeFails(c) \/ Faulty(c)
       \/ Logout(c) \/ Send(c)
       \/ \E f \in Flow : Begin(c, f) \/ StartFinalize(c, f)

Spec == Init /\ [][Next]_vars

Fairness ==
  /\ \A c \in Caller : WF_vars(Step(c)) /\ SF_vars(RefreshLoad(c))
  /\ \A f \in Flow : WF_vars(TimeOut(f))

FairSpec == Spec /\ Fairness

-----------------------------------------------------------------------------
TypeOK ==
  /\ kind \in Kind /\ fromEnv \in BOOLEAN
  /\ flows \in SUBSET Flow /\ old \in SUBSET Flow
  /\ grant \in [Flow -> {"none", "asked", "granted", "denied", "spent"}]
  /\ file \in Flow \cup {NoFlow} /\ last \in Flow \cup {NoFlow}
  /\ expired \in BOOLEAN /\ expiries \in 0..MaxExpiries /\ crossed \in BOOLEAN
  /\ pc \in [Caller -> {"idle", "get", "exchange", "delete", "save", "clear",
                        "refresh", "reexchange", "resave", "resend"}]
  /\ at \in [Caller -> Flow \cup {NoFlow}]
  /\ lock = {c \in Caller : pc[c] \in {"reexchange", "resave"}}
  /\ saved \in SUBSET Flow /\ hurt \in SUBSET Flow

Carries(c, f) == pc[c] \in {"delete", "save"} /\ at[c] = f

\* A login the user has agreed to is never lost to another call: until it times
\* out it can be finalized, also after a finalize that failed or came too early,
\* and once the provider has handed out its credentials they are saved or on
\* their way to the file (FinalizeLaunchpad, FinalizeGitHub), unless a step of
\* its own finalize failed.
NothingLost ==
  \A f \in Flow \ hurt :
    /\ UsesFlows /\ grant[f] = "granted" /\ f \notin old => f \in flows
    /\ grant[f] = "spent" => f \in saved \/ \E c \in Caller : Carries(c, f)

\* The file holds what the last login or logout left there: a refresh of the
\* token brings back no credentials that were replaced or cleared, however long
\* it waited for another refresh, except when that happened between its own load
\* and save (credential_provider.go:67-86).
RefreshKeepsLogin == ~crossed => file = last

\* Every call ends: no poll of GitHub outlives the flow, and a token that is
\* rejected again and again leads to one refresh, not to a loop.
CallsReturn == \A c \in Caller : pc[c] # "idle" ~> pc[c] = "idle"
=============================================================================
