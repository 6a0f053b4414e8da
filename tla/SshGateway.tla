------------------------------ MODULE SshGateway ------------------------------
(***************************************************************************)
(* Connecting: host keys, ProxyJump and keyboard-interactive.              *)
(*                                                                         *)
(* RustSshGateway.connect (lib/infrastructure/ssh/rust_ssh_gateway.dart)   *)
(* and RustSftpGateway.connect (lib/infrastructure/ftp/                    *)
(* rust_sftp_gateway.dart) decide, on the Dart side, whether a host key is *)
(* trusted, and ask the user; ssh_connect, ssh_continue_host_key,          *)
(* ssh_continue_authentication and sftp_connect (rust/src/api/core.rs)     *)
(* hold the transports meanwhile.  All attempts share the known_hosts      *)
(* store and the registries of the Rust side.                              *)
(*                                                                         *)
(* A step of an attempt runs from one await of the Dart code to the next;  *)
(* a call into Rust, which touches nothing that other attempts read until  *)
(* it returns, is one step.                                                *)
(***************************************************************************)
EXTENDS Naturals, Sequences

CONSTANTS
    Attempts,   \* the connect() calls of the tabs
    Profiles,   \* what each attempt may be for: sets of [kind, target, route]
    Hosts,      \* normalised host and port
    Keys,       \* algorithm and fingerprint
    NoKey

AllProfiles == UNION {Profiles[a] : a \in Attempts}

ASSUME ConstantsAssumption ==
    /\ AllProfiles \subseteq [kind : {"ssh", "sftp"}, target : Hosts, route : Seq(Hosts)]
    /\ \A p \in AllProfiles : p.kind = "sftp" => p.route = <<>>
    /\ NoKey \notin Keys

VARIABLES
    att,          \* the local state of each attempt
    known,        \* known_hosts: the approved keys of each host
    pendingKeys,  \* PENDING_HOST_KEYS: attempts whose transport is held for approval
    pendingAuths, \* PENDING_AUTHS: attempts whose transport waits for responses
    sessions,     \* SSH_SESSIONS and SFTP_SESSIONS
    approved,     \* history: which keys the user approved, and for which host
    saved,        \* history: which keys were saved, and under which host
    authTo        \* history: to which host and key credentials were sent

registryVars == <<pendingKeys, pendingAuths, sessions>>
historyVars == <<approved, saved, authTo>>
vars == <<att, known, registryVars, historyVars>>

\* "find", "read": awaiting the store, for the target's keys and for the jump
\* hosts'.  "connect", "continue", "refuse", "respond": inside Rust.
\* "jumpFind", "jumpAsk", "jumpSave" and "ask", "save": an untrusted key of a
\* jump host, and of the target.  "challenge": a question of the server.
Waits == {"find", "read", "connect", "jumpFind", "jumpSave", "save", "continue", "refuse",
          "respond"}
Asks == {"jumpAsk", "ask", "challenge"}
Ends == {"opened", "failed"}

Idle == "idle"

\* The local variables of connect().
Locals ==
    [pc : {Idle} \cup Waits \cup Asks \cup Ends,
     profile : AllProfiles,
     stage : {"first", "retry", "again"},  \* which of the calls of _connect
     snap : SUBSET Keys,                   \* knownHosts
     trusted : SUBSET Keys,                \* trustedKeys, for the target
     jumps : [Hosts -> SUBSET Keys],       \* trustedHostKeys of the jump hosts
     leg : Nat,                            \* which server presented the key
     key : Keys \cup {NoKey},              \* the key in the result
     held : BOOLEAN]                       \* pendingHostKeyId != null

TypeOK ==
    /\ att \in [Attempts -> Locals]
    /\ known \in [Hosts -> SUBSET Keys]
    /\ pendingKeys \subseteq Attempts /\ pendingAuths \subseteq Attempts
    /\ sessions \subseteq Attempts
    /\ approved \subseteq Hosts \X Keys /\ saved \subseteq Hosts \X Keys
    /\ authTo \subseteq Hosts \X Keys

NoJumps == [h \in Hosts |-> {}]

Fresh(pc, p) ==
    [pc |-> pc, profile |-> p, stage |-> "first", snap |-> {}, trusted |-> {},
     jumps |-> NoJumps, leg |-> 0, key |-> NoKey, held |-> FALSE]

Init ==
    /\ \E prof \in [Attempts -> AllProfiles] :
          /\ \A a \in Attempts : prof[a] \in Profiles[a]
          /\ att = [a \in Attempts |-> Fresh(Idle, prof[a])]
    /\ known \in [Hosts -> SUBSET Keys]
    /\ pendingKeys = {} /\ pendingAuths = {} /\ sessions = {}
    /\ authTo = {}
    /\ saved = {hk \in Hosts \X Keys : hk[2] \in known[hk[1]]}
    /\ approved = saved

Target(a) == att[a].profile.target
Route(a) == att[a].profile.route

\* The servers an attempt passes, the target last.
Legs(a) == Append(Route(a), Target(a))

\* The keys a leg is trusted by.
Trusted(a, i) == IF i = Len(Legs(a)) THEN att[a].trusted ELSE att[a].jumps[Route(a)[i]]

GoTo(a, pc) == att' = [att EXCEPT ![a].pc = pc]

\* connect() returns or throws, and its locals are gone.
End(a, pc) == att' = [att EXCEPT ![a] = Fresh(pc, att[a].profile)]

\* The outcomes of authentication: another question is not the end.
Conclude(a, outcome) == IF outcome \in Ends THEN End(a, outcome) ELSE GoTo(a, outcome)

\* The result carries the key the i-th server presented; the arguments of the
\* call are gone.
Receive(a, pc, i, k) ==
    att' = [att EXCEPT ![a].pc = pc, ![a].jumps = NoJumps, ![a].leg = i, ![a].key = k]

-----------------------------------------------------------------------------
(* Before Rust is called.                                                  *)

Begin(a) ==
    /\ att[a].pc = Idle
    /\ GoTo(a, "find")
    /\ UNCHANGED <<known, registryVars, historyVars>>

FindTarget(a) ==
    /\ att[a].pc = "find"
    /\ att' = [att EXCEPT ![a].pc = "read", ![a].snap = known[Target(a)],
                          ![a].trusted = known[Target(a)]]
    /\ UNCHANGED <<known, registryVars, historyVars>>

\* _connect and _jumpHost: the jump hosts' keys are read again for every call.
ReadJumpKeys(a) ==
    /\ att[a].pc = "read"
    /\ att' = [att EXCEPT ![a].pc = "connect",
                          ![a].jumps = [h \in Hosts |-> IF \E i \in 1..Len(Route(a)) : Route(a)[i] = h
                                                        THEN known[h] ELSE {}]]
    /\ UNCHANGED <<known, registryVars, historyVars>>

-----------------------------------------------------------------------------
(* ssh_connect, ssh_connect_via_jumps, sftp_connect.                       *)

\* The first n legs are passed: they present trusted keys (HostKeyHandler) and
\* are sent credentials.
Passes(a, n, ks) ==
    /\ att[a].pc = "connect"
    /\ ks \in [1..n -> Keys]
    /\ \A i \in 1..n : ks[i] \in Trusted(a, i)
    /\ authTo' = authTo \cup {<<Legs(a)[i], ks[i]>> : i \in 1..n}

\* Without a key in the result: a leg is not reached, authentication is
\* refused, or the shell cannot be opened.
ConnectFails(a, n, ks) ==
    /\ Passes(a, n, ks)
    /\ End(a, "failed")
    /\ UNCHANGED <<known, registryVars, approved, saved>>

\* Authenticated on every leg: a session, or a challenge when the target is
\* reached directly.
ConnectSucceeds(a, ks) ==
    /\ Passes(a, Len(Legs(a)), ks)
    /\ End(a, "opened")
    /\ sessions' = sessions \cup {a}
    /\ UNCHANGED <<known, pendingKeys, pendingAuths, approved, saved>>

ConnectChallenges(a, ks) ==
    /\ att[a].profile.kind = "ssh" /\ Route(a) = <<>>
    /\ Passes(a, 1, ks)
    /\ GoTo(a, "challenge")
    /\ pendingAuths' = pendingAuths \cup {a}
    /\ UNCHANGED <<known, pendingKeys, sessions, approved, saved>>

\* After n legs a server presents k and the handshake ends there: the key is
\* not trusted, or something fails after it was looked at.  On the first call,
\* jump_host_key_rejected: look at that host's keys.
JumpKeyUntrusted(a, n, ks, k) ==
    /\ n < Len(Route(a)) /\ att[a].stage = "first"
    /\ Passes(a, n, ks)
    /\ Receive(a, "jumpFind", n + 1, k)
    /\ UNCHANGED <<known, registryVars, approved, saved>>

\* Mutant: the keys known for the target are not looked at.
KeyUntrusted_Unchecked(a, n, ks, k) ==
    /\ n = Len(Route(a)) \/ att[a].stage # "first"
    /\ Passes(a, n, ks)
    /\ IF att[a].stage = "again" THEN End(a, "failed") ELSE Receive(a, "ask", n + 1, k)
    /\ UNCHANGED <<known, registryVars, approved, saved>>

\* Any other key in the result is taken for the target's, a jump host's key on
\* the second call included.  It is compared with the keys found at the start;
\* a third call is not followed by another question.
KeyUntrusted(a, n, ks, k) ==
    /\ n = Len(Route(a)) \/ att[a].stage # "first"
    /\ Passes(a, n, ks)
    /\ IF att[a].stage = "again" \/ att[a].snap # {} THEN End(a, "failed")
       ELSE Receive(a, "ask", n + 1, k)
    /\ UNCHANGED <<known, registryVars, approved, saved>>

\* ssh_connect to a host without approved keys: the transport is held, with no
\* authentication begun, and a timer is started.
HoldForApproval(a, k) ==
    /\ att[a].pc = "connect"
    /\ att[a].profile.kind = "ssh" /\ Route(a) = <<>> /\ att[a].trusted = {}
    /\ pendingKeys' = pendingKeys \cup {a}
    /\ att' = [att EXCEPT ![a].pc = "ask", ![a].leg = 1, ![a].key = k, ![a].held = TRUE]
    /\ UNCHANGED <<known, pendingAuths, sessions, approved, saved, authTo>>

\* HOST_KEY_CONFIRMATION_TIMEOUT_SECS went by.
PendingExpires(a) ==
    /\ a \in pendingKeys
    /\ pendingKeys' = pendingKeys \ {a}
    /\ UNCHANGED <<att, known, pendingAuths, sessions, historyVars>>

-----------------------------------------------------------------------------
(* The key of a jump host.                                                 *)

JumpHost(a) == Route(a)[att[a].leg]

FindJump(a) ==
    /\ att[a].pc = "jumpFind"
    /\ IF known[JumpHost(a)] # {} /\ att[a].key \notin known[JumpHost(a)]
       THEN End(a, "failed") ELSE GoTo(a, "jumpAsk")
    /\ UNCHANGED <<known, registryVars, historyVars>>

\* Mutant: the key is dropped with the question.
Approve_DropsKey(a, h, pc) ==
    /\ approved' = approved \cup {<<h, att[a].key>>}
    /\ att' = [att EXCEPT ![a].pc = pc, ![a].key = NoKey]
    /\ UNCHANGED <<known, registryVars, saved, authTo>>

Approve(a, h, pc) ==
    /\ approved' = approved \cup {<<h, att[a].key>>}
    /\ GoTo(a, pc)
    /\ UNCHANGED <<known, registryVars, saved, authTo>>

ApproveJump(a) == att[a].pc = "jumpAsk" /\ Approve(a, JumpHost(a), "jumpSave")

RefuseJump(a) ==
    /\ att[a].pc = "jumpAsk"
    /\ End(a, "failed")
    /\ UNCHANGED <<known, registryVars, historyVars>>

\* HostKeyRepository.trust
Trust(h, k) ==
    /\ known' = [known EXCEPT ![h] = @ \cup {k}]
    /\ saved' = saved \cup {<<h, k>>}
    /\ UNCHANGED <<approved, authTo>>

SaveJump(a) ==
    /\ att[a].pc = "jumpSave"
    /\ Trust(JumpHost(a), att[a].key)
    /\ att' = [att EXCEPT ![a].pc = "read", ![a].stage = "retry",
                          ![a].leg = 0, ![a].key = NoKey]
    /\ UNCHANGED registryVars

SaveJumpFails(a) ==
    /\ att[a].pc = "jumpSave"
    /\ End(a, "failed")
    /\ UNCHANGED <<known, registryVars, historyVars>>

-----------------------------------------------------------------------------
(* The key of the target.                                                  *)

\* Mutant: the key is used before it is saved.
ApproveTarget_Unsaved(a) ==
    /\ att[a].pc = "ask"
    /\ Approve(a, Target(a), IF att[a].held THEN "continue" ELSE "save")

ApproveTarget(a) == att[a].pc = "ask" /\ Approve(a, Target(a), "save")

\* Mutant: a refused transport is left to the timer.
RefuseTarget_Forgets(a) ==
    /\ att[a].pc = "ask"
    /\ End(a, "failed")
    /\ UNCHANGED <<known, registryVars, historyVars>>

\* Mutant: saving is not made to depend on the answer.
RefuseTarget_Saves(a) ==
    /\ att[a].pc = "ask"
    /\ GoTo(a, "save")
    /\ UNCHANGED <<known, registryVars, historyVars>>

\* A transport that is held is told of the refusal.
RefuseTarget(a) ==
    /\ att[a].pc = "ask"
    /\ IF att[a].held THEN GoTo(a, "refuse") ELSE End(a, "failed")
    /\ UNCHANGED <<known, registryVars, historyVars>>

\* Saved: go on with the transport that is held, or connect once more trusting
\* this key.
SaveTarget(a) ==
    /\ att[a].pc = "save"
    /\ Trust(Target(a), att[a].key)
    /\ att' = IF att[a].held
              THEN [att EXCEPT ![a].pc = "continue"]
              ELSE [att EXCEPT ![a].pc = "read", ![a].stage = "again",
                               ![a].trusted = {att[a].key}, ![a].leg = 0, ![a].key = NoKey]
    /\ UNCHANGED registryVars

SaveTargetFails(a) ==
    /\ att[a].pc = "save"
    /\ IF att[a].held THEN GoTo(a, "refuse") ELSE End(a, "failed")
    /\ UNCHANGED <<known, registryVars, historyVars>>

\* Mutant: an expired confirmation is not an error.
ContinueEnds_NotExpired(a) ==
    /\ att[a].pc \in {"continue", "refuse"} /\ a \in pendingKeys
    /\ End(a, "failed")
    /\ pendingKeys' = pendingKeys \ {a}
    /\ UNCHANGED <<known, pendingAuths, sessions, historyVars>>

\* ssh_continue_host_key: the transport is gone, or was refused.
ContinueEnds(a) ==
    /\ att[a].pc \in {"continue", "refuse"}
    /\ att[a].pc = "refuse" \/ a \notin pendingKeys
    /\ End(a, "failed")
    /\ pendingKeys' = pendingKeys \ {a}
    /\ UNCHANGED <<known, pendingAuths, sessions, historyVars>>

\* ssh_continue_host_key, approved: authentication on the transport that was
\* held, with its three outcomes.
Continue(a, outcome) ==
    /\ att[a].pc = "continue" /\ a \in pendingKeys
    /\ pendingKeys' = pendingKeys \ {a}
    /\ authTo' = authTo \cup {<<Target(a), att[a].key>>}
    /\ Conclude(a, outcome)
    /\ sessions' = IF outcome = "opened" THEN sessions \cup {a} ELSE sessions
    /\ pendingAuths' = IF outcome = "challenge" THEN pendingAuths \cup {a} ELSE pendingAuths
    /\ UNCHANGED <<known, approved, saved>>

-----------------------------------------------------------------------------
(* Keyboard-interactive.                                                   *)

AnswerChallenge(a) ==
    /\ att[a].pc = "challenge"
    /\ GoTo(a, "respond")
    /\ UNCHANGED <<known, registryVars, historyVars>>

\* The user dismisses the question: Rust is not told and keeps the transport.
CancelChallenge(a) ==
    /\ att[a].pc = "challenge"
    /\ End(a, "failed")
    /\ UNCHANGED <<known, registryVars, historyVars>>

\* Mutant: another question does not put the entry back.
Respond_NotPutBack(a, outcome) ==
    /\ att[a].pc = "respond" /\ a \in pendingAuths
    /\ pendingAuths' = pendingAuths \ {a}
    /\ sessions' = IF outcome = "opened" THEN sessions \cup {a} ELSE sessions
    /\ Conclude(a, outcome)
    /\ UNCHANGED <<known, pendingKeys, historyVars>>

\* ssh_continue_authentication: the entry is taken out, and put back only for
\* another question.
Respond(a, outcome) ==
    /\ att[a].pc = "respond" /\ a \in pendingAuths
    /\ pendingAuths' = IF outcome = "challenge" THEN pendingAuths ELSE pendingAuths \ {a}
    /\ sessions' = IF outcome = "opened" THEN sessions \cup {a} ELSE sessions
    /\ Conclude(a, outcome)
    /\ UNCHANGED <<known, pendingKeys, historyVars>>

\* The user removes a host in the key management screen.
Forget(h) ==
    /\ known[h] # {}
    /\ known' = [known EXCEPT ![h] = {}]
    /\ UNCHANGED <<att, registryVars, historyVars>>

-----------------------------------------------------------------------------
Outcomes == {"opened", "challenge", "failed"}

ConnectReturns(a) ==
    \/ \E n \in 0..Len(Legs(a)) : \E ks \in [1..n -> Keys] :
          \/ ConnectFails(a, n, ks)
          \/ n = Len(Legs(a)) /\ ConnectSucceeds(a, ks)
          \/ n = 1 /\ ConnectChallenges(a, ks)
          \/ n < Len(Legs(a)) /\ \E k \in Keys :
                \/ JumpKeyUntrusted(a, n, ks, k)
                \/ KeyUntrusted(a, n, ks, k)
    \/ \E k \in Keys : HoldForApproval(a, k)

\* What an attempt does when it does not wait for the user.
Proceeds(a) ==
    \/ FindTarget(a) \/ ReadJumpKeys(a) \/ ConnectReturns(a)
    \/ FindJump(a) \/ SaveJump(a) \/ SaveJumpFails(a)
    \/ SaveTarget(a) \/ SaveTargetFails(a) \/ ContinueEnds(a)
    \/ \E o \in Outcomes : Continue(a, o) \/ Respond(a, o)

UserActs(a) ==
    \/ Begin(a)
    \/ ApproveJump(a) \/ RefuseJump(a) \/ ApproveTarget(a) \/ RefuseTarget(a)
    \/ AnswerChallenge(a) \/ CancelChallenge(a)

Next ==
    \/ \E a \in Attempts : Proceeds(a) \/ UserActs(a) \/ PendingExpires(a)
    \/ \E h \in Hosts : Forget(h)

Spec == Init /\ [][Next]_vars

\* Calls into Rust and into the store return; the timer fires.
Fairness == \A a \in Attempts : WF_vars(Proceeds(a)) /\ WF_vars(PendingExpires(a))

FairSpec == Spec /\ Fairness

-----------------------------------------------------------------------------
(* Properties.                                                             *)

\* Credentials are only sent to a server whose key had been saved, at that
\* moment or before, for the host the user knows it as.
AuthenticatesSavedKeys == authTo \subseteq saved

\* Nothing is saved that the user did not approve for that host.
SavesApprovedKeys == saved \subseteq approved

\* A failed attempt holds no transport for approval and left no session.
FailureReleases ==
    \A a \in Attempts : att[a].pc = "failed" => a \notin pendingKeys \cup sessions

\* While a question of the server is open or being answered, its transport is
\* there: an answer never finds the request expired.
ChallengeHasTransport ==
    \A a \in Attempts : att[a].pc \in {"challenge", "respond"} => a \in pendingAuths

\* An attempt that found approved keys for its target never offers, saves or
\* uses a key the target presents instead.
MismatchBlocks ==
    \A a \in Attempts : att[a].snap # {} => att[a].pc \notin {"ask", "save", "continue"}

\* An attempt that does not wait for the user goes on.
OnlyWaitsForUser ==
    \A a \in Attempts : att[a].pc \in Waits ~> att[a].pc \in Asks \cup Ends

-----------------------------------------------------------------------------
(* What the documentation promises and the code does not keep.             *)

\* A host that has an approved key does not get another one.
NoSecondKey ==
    [][\A h \in Hosts : known[h] # {} => known'[h] \subseteq known[h]]_vars

\* The user is asked about a key under the name of the server that presented
\* it.
AskedForItsServer ==
    \A a \in Attempts :
        /\ att[a].pc = "ask" => att[a].leg = Len(Legs(a))
        /\ att[a].pc = "jumpAsk" => att[a].leg < Len(Legs(a))

\* A failed attempt leaves no transport waiting for responses.
DismissedReleases == \A a \in Attempts : att[a].pc = "failed" => a \notin pendingAuths
=============================================================================
