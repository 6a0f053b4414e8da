--------------------------- MODULE SshGatewayProofs ---------------------------
(***************************************************************************)
(* Proofs about SshGateway: for any number of attempts, hosts, keys and    *)
(* jump hosts, credentials only go where a saved key was presented, keys   *)
(* are only saved when they were approved, a mismatch is never offered for *)
(* approval, and what Rust holds belongs to an attempt that goes on.       *)
(***************************************************************************)
EXTENDS SshGateway, TLAPS

\* What is known is saved.
KnownSaved == \A h \in Hosts : \A k \in known[h] : <<h, k>> \in saved

\* What an attempt knows: the keys it trusts were saved, the key in its hand
\* is a key of a server it can name, it was approved when it is about to be
\* saved, and saved when it is about to be used.
LocalOK(a) ==
    /\ \A k \in att[a].trusted : <<Target(a), k>> \in saved
    /\ \A h \in Hosts : \A k \in att[a].jumps[h] : <<h, k>> \in saved
    /\ att[a].pc \in {"jumpFind", "jumpAsk", "jumpSave"} =>
          att[a].leg \in 1..Len(Route(a)) /\ att[a].key \in Keys
    /\ att[a].pc \in {"ask", "save", "continue"} => att[a].key \in Keys
    /\ att[a].pc = "jumpSave" => <<JumpHost(a), att[a].key>> \in approved
    /\ att[a].pc = "save" => <<Target(a), att[a].key>> \in approved
    /\ att[a].pc = "continue" => <<Target(a), att[a].key>> \in saved

Inv ==
    /\ TypeOK
    /\ KnownSaved
    /\ SavesApprovedKeys
    /\ AuthenticatesSavedKeys
    /\ \A a \in Attempts : LocalOK(a)

-----------------------------------------------------------------------------
(* An attempt and the servers it passes.                                   *)

\* The servers of a route are its jump hosts, then the target.
LEMMA LegFacts ==
    ASSUME TypeOK, NEW a \in Attempts
    PROVE  /\ att[a] \in Locals
           /\ Target(a) \in Hosts /\ Route(a) \in Seq(Hosts)
           /\ Len(Legs(a)) = Len(Route(a)) + 1
           /\ \A i \in 1..Len(Route(a)) : Legs(a)[i] = Route(a)[i] /\ Route(a)[i] \in Hosts
           /\ Legs(a)[Len(Route(a)) + 1] = Target(a)
<1>1. att[a] \in Locals
  BY DEF TypeOK
<1>2. att[a].profile \in [kind : {"ssh", "sftp"}, target : Hosts, route : Seq(Hosts)]
  BY <1>1, ConstantsAssumption DEF Locals
<1>3. Target(a) \in Hosts /\ Route(a) \in Seq(Hosts)
  BY <1>2 DEF Target, Route
<1>4. QED
  BY <1>1, <1>3 DEF Legs

\* The servers that are passed present keys that were saved for them.
LEMMA PassedAreSaved ==
    ASSUME Inv, NEW a \in Attempts, NEW n \in 0..Len(Legs(a)), NEW ks, Passes(a, n, ks)
    PROVE  authTo' \subseteq saved
<1>1. SUFFICES ASSUME NEW i \in 1..n PROVE <<Legs(a)[i], ks[i]>> \in saved
  BY DEF Passes, Inv, AuthenticatesSavedKeys
<1>2. ks[i] \in Trusted(a, i) /\ n \in Nat /\ n <= Len(Route(a)) + 1
  BY LegFacts DEF Passes, Inv
<1>3. LocalOK(a)
  BY DEF Inv
<1>4. CASE i = Len(Legs(a))
  BY <1>2, <1>3, <1>4, LegFacts DEF Trusted, LocalOK, Inv
<1>5. CASE i # Len(Legs(a))
  <2>1. i \in 1..Len(Route(a))
    BY <1>2, <1>5, LegFacts DEF Inv
  <2>2. Legs(a)[i] = Route(a)[i] /\ Route(a)[i] \in Hosts
    BY <2>1, LegFacts DEF Inv
  <2>3. QED
    BY <1>2, <1>3, <1>5, <2>2 DEF Trusted, LocalOK
<1>6. QED
  BY <1>4, <1>5

\* One step of an attempt leaves the others alone: the invariant follows from
\* what the step does to its own variables and to the shared state.
LEMMA OneAttemptMoves ==
    ASSUME Inv, NEW a \in Attempts, NEW r \in Locals,
           att' = [att EXCEPT ![a] = r],
           known' \in [Hosts -> SUBSET Keys], KnownSaved',
           pendingKeys' \subseteq Attempts, pendingAuths' \subseteq Attempts,
           sessions' \subseteq Attempts, approved' \subseteq Hosts \X Keys,
           saved' \subseteq approved', authTo' \subseteq saved',
           approved \subseteq approved', saved \subseteq saved',
           LocalOK(a)'
    PROVE  Inv'
<1>1. TypeOK'
  BY DEF TypeOK, Inv
<1>2. ASSUME NEW b \in Attempts, b # a PROVE LocalOK(b)'
  <2>1. att'[b] = att[b]
    BY <1>2 DEF Inv, TypeOK
  <2>2. LocalOK(b)
    BY DEF Inv
  <2>3. QED
    BY <2>1, <2>2 DEF LocalOK, Target, Route, JumpHost
<1>3. QED
  BY <1>1, <1>2 DEF Inv, SavesApprovedKeys, AuthenticatesSavedKeys

\* The variables of an attempt that is over.
LEMMA EndedOK ==
    ASSUME Inv, NEW a \in Attempts, NEW pc \in Ends, End(a, pc)
    PROVE  /\ \E r \in Locals : att' = [att EXCEPT ![a] = r]
           /\ LocalOK(a)'
<1>. DEFINE r == Fresh(pc, att[a].profile)
<1>1. att[a].profile \in AllProfiles
  BY LegFacts DEF Inv, Locals
<1>2. NoJumps \in [Hosts -> SUBSET Keys]
  BY DEF NoJumps
<1>3. r \in Locals
  BY <1>1, <1>2 DEF Locals, Fresh, Ends
<1>4. att' = [att EXCEPT ![a] = r]
  BY DEF End
<1>5. att'[a] = r
  BY <1>4 DEF Inv, TypeOK
<1>6. r.trusted = {} /\ r.jumps = NoJumps /\ r.pc \in Ends
  BY DEF Fresh
<1>7. LocalOK(a)'
  BY <1>5, <1>6 DEF LocalOK, NoJumps, Ends
<1>8. QED
  BY <1>3, <1>4, <1>7


\* A step that approves and saves nothing, and sends credentials only where a
\* saved key was presented.
LEMMA QuietMove ==
    ASSUME Inv, NEW a \in Attempts, NEW r \in Locals,
           att' = [att EXCEPT ![a] = r], UNCHANGED <<known, approved, saved>>,
           authTo' \subseteq saved,
           pendingKeys' \subseteq Attempts, pendingAuths' \subseteq Attempts,
           sessions' \subseteq Attempts, LocalOK(a)'
    PROVE  Inv'
<1>1. KnownSaved' /\ known' \in [Hosts -> SUBSET Keys]
  BY DEF Inv, TypeOK, KnownSaved
<1>2. approved' \subseteq Hosts \X Keys /\ saved' \subseteq approved'
  BY DEF Inv, TypeOK, SavesApprovedKeys
<1>3. QED
  BY <1>1, <1>2, OneAttemptMoves

\* An attempt ends.
LEMMA EndMove ==
    ASSUME Inv, NEW a \in Attempts, NEW pc \in Ends, End(a, pc),
           UNCHANGED <<known, approved, saved>>, authTo' \subseteq saved,
           pendingKeys' \subseteq Attempts, pendingAuths' \subseteq Attempts,
           sessions' \subseteq Attempts
    PROVE  Inv'
<1>1. PICK r \in Locals : att' = [att EXCEPT ![a] = r]
  BY EndedOK
<1>2. LocalOK(a)'
  BY EndedOK
<1>3. QED
  BY <1>1, <1>2, QuietMove

\* An attempt goes on to a step that knows no more than the last one did.
LEMMA GoToMove ==
    ASSUME Inv, NEW a \in Attempts,
           NEW pc \in {Idle} \cup Waits \cup Asks, GoTo(a, pc),
           UNCHANGED <<known, approved, saved>>, authTo' \subseteq saved,
           pendingKeys' \subseteq Attempts, pendingAuths' \subseteq Attempts,
           sessions' \subseteq Attempts,
           pc \notin {"jumpFind", "ask", "save", "jumpSave", "continue"},
           pc = "jumpAsk" => att[a].pc = "jumpFind"
    PROVE  Inv'
<1>. DEFINE r == [att[a] EXCEPT !.pc = pc]
<1>1. att[a] \in Locals /\ LocalOK(a)
  BY LegFacts DEF Inv
<1>2. r \in Locals
  BY <1>1 DEF Locals
<1>3. att' = [att EXCEPT ![a] = r]
  BY DEF GoTo
<1>4. att'[a] = r
  BY <1>3 DEF Inv, TypeOK
<1>5. /\ r.pc = pc /\ r.profile = att[a].profile /\ r.trusted = att[a].trusted
      /\ r.jumps = att[a].jumps /\ r.leg = att[a].leg /\ r.key = att[a].key
  BY <1>1 DEF Locals
<1>6. LocalOK(a)'
  BY <1>1, <1>4, <1>5 DEF LocalOK, Target, Route, JumpHost
<1>7. QED
  BY <1>2, <1>3, <1>6, QuietMove

\* A key is received and the user is asked about it, or a jump host's keys are
\* looked at.
LEMMA ReceiveMove ==
    ASSUME Inv, NEW a \in Attempts, NEW pc \in {"jumpFind", "ask"}, NEW i \in 1..Len(Legs(a)),
           NEW k \in Keys, Receive(a, pc, i, k),
           pc = "jumpFind" => i <= Len(Route(a)),
           UNCHANGED <<known, approved, saved>>, authTo' \subseteq saved,
           pendingKeys' \subseteq Attempts, pendingAuths' \subseteq Attempts,
           sessions' \subseteq Attempts
    PROVE  Inv'
<1>. DEFINE r == [att[a] EXCEPT !.pc = pc, !.jumps = NoJumps, !.leg = i, !.key = k]
<1>1. att[a] \in Locals /\ LocalOK(a) /\ Len(Legs(a)) = Len(Route(a)) + 1 /\ Len(Route(a)) \in Nat
  BY LegFacts DEF Inv
<1>2. NoJumps \in [Hosts -> SUBSET Keys] /\ \A h \in Hosts : NoJumps[h] = {}
  BY DEF NoJumps
<1>3. r \in Locals
  <2>1. i \in Nat
    BY <1>1
  <2>2. QED
    BY <1>1, <1>2, <2>1 DEF Locals, Waits, Asks
<1>4. att' = [att EXCEPT ![a] = r]
  BY DEF Receive
<1>5. att'[a] = r
  BY <1>4 DEF Inv, TypeOK
<1>6. /\ r.pc = pc /\ r.profile = att[a].profile /\ r.trusted = att[a].trusted
      /\ r.jumps = NoJumps /\ r.leg = i /\ r.key = k
  BY <1>1 DEF Locals
<1>7. LocalOK(a)'
  BY <1>1, <1>2, <1>5, <1>6 DEF LocalOK, Target, Route
<1>8. QED
  BY <1>3, <1>4, <1>7, QuietMove

-----------------------------------------------------------------------------
(* The steps.                                                              *)

\* What every step may use.
LEMMA Shared ==
    ASSUME Inv
    PROVE  /\ authTo \subseteq saved
           /\ pendingKeys \subseteq Attempts /\ pendingAuths \subseteq Attempts
           /\ sessions \subseteq Attempts
  BY DEF Inv, TypeOK, AuthenticatesSavedKeys

\* Reading the keys of the target and of the jump hosts.
LEMMA LookupStep ==
    ASSUME Inv, NEW a \in Attempts, FindTarget(a) \/ ReadJumpKeys(a)
    PROVE  Inv'
<1>. DEFINE r1 == [att[a] EXCEPT !.pc = "read", !.snap = known[Target(a)],
                                 !.trusted = known[Target(a)]]
            j2 == [h \in Hosts |-> IF \E i \in 1..Len(Route(a)) : Route(a)[i] = h
                                   THEN known[h] ELSE {}]
            r2 == [att[a] EXCEPT !.pc = "connect", !.jumps = j2]
<1>1. /\ att[a] \in Locals /\ LocalOK(a) /\ Target(a) \in Hosts
      /\ known \in [Hosts -> SUBSET Keys] /\ KnownSaved
  BY LegFacts DEF Inv, TypeOK
<1>2. CASE FindTarget(a)
  <2>1. r1 \in Locals
    BY <1>1 DEF Locals, Waits
  <2>2. att' = [att EXCEPT ![a] = r1]
    BY <1>2 DEF FindTarget
  <2>3. att'[a] = r1
    BY <2>2 DEF Inv, TypeOK
  <2>4. /\ r1.pc = "read" /\ r1.profile = att[a].profile /\ r1.trusted = known[Target(a)]
        /\ r1.jumps = att[a].jumps
    BY <1>1 DEF Locals
  <2>5. LocalOK(a)'
    <3>1. saved' = saved /\ att'[a].profile.target = Target(a) /\ Target(a)' = Target(a)
      BY <1>2, <2>3, <2>4 DEF FindTarget, historyVars, Target
    <3>2. /\ \A k \in known[Target(a)] : <<Target(a), k>> \in saved
          /\ \A h \in Hosts : \A k \in att[a].jumps[h] : <<h, k>> \in saved
      BY <1>1 DEF KnownSaved, LocalOK
    <3>3. QED
      BY <2>3, <2>4, <3>1, <3>2 DEF LocalOK
  <2>6. QED
    BY <1>2, <2>1, <2>2, <2>5, QuietMove, Shared DEF FindTarget, historyVars, registryVars
<1>3. CASE ReadJumpKeys(a)
  <2>1. j2 \in [Hosts -> SUBSET Keys] /\ \A h \in Hosts : j2[h] \subseteq known[h]
    BY <1>1
  <2>2. r2 \in Locals
    BY <1>1, <2>1 DEF Locals, Waits
  <2>3. att' = [att EXCEPT ![a] = r2]
    BY <1>3 DEF ReadJumpKeys
  <2>4. att'[a] = r2
    BY <2>3 DEF Inv, TypeOK
  <2>5. /\ r2.pc = "connect" /\ r2.profile = att[a].profile /\ r2.trusted = att[a].trusted
        /\ r2.jumps = j2
    BY <1>1 DEF Locals
  <2>6. LocalOK(a)'
    <3>1. saved' = saved /\ Target(a)' = Target(a)
      BY <1>3, <2>4, <2>5 DEF ReadJumpKeys, historyVars, Target
    <3>2. /\ \A k \in att[a].trusted : <<Target(a), k>> \in saved
          /\ \A h \in Hosts : \A k \in j2[h] : <<h, k>> \in saved
      BY <1>1, <2>1 DEF KnownSaved, LocalOK
    <3>. HIDE DEF j2
    <3>3. QED
      BY <2>4, <2>5, <3>1, <3>2 DEF LocalOK
  <2>7. QED
    BY <1>3, <2>2, <2>3, <2>6, QuietMove, Shared DEF ReadJumpKeys, historyVars, registryVars
<1>4. QED
  BY <1>2, <1>3

\* A result of ssh_connect or sftp_connect, of each kind.
LEMMA ConnectStep ==
    ASSUME Inv, NEW a \in Attempts, ConnectReturns(a)
    PROVE  Inv'
<1>1. Len(Legs(a)) = Len(Route(a)) + 1 /\ Len(Route(a)) \in Nat
  BY LegFacts DEF Inv
<1>2. ASSUME NEW n \in 0..Len(Legs(a)), NEW ks, ConnectFails(a, n, ks) PROVE Inv'
  BY <1>2, PassedAreSaved, EndMove, Shared DEF ConnectFails, registryVars, Ends
<1>3. ASSUME NEW ks, ConnectSucceeds(a, ks) PROVE Inv'
  BY <1>1, <1>3, PassedAreSaved, EndMove, Shared DEF ConnectSucceeds, Ends
<1>4. ASSUME NEW ks, ConnectChallenges(a, ks) PROVE Inv'
  BY <1>1, <1>4, PassedAreSaved, GoToMove, Shared DEF ConnectChallenges, Asks
<1>5. ASSUME NEW n \in 0..Len(Legs(a)), NEW ks, NEW k \in Keys, n < Len(Legs(a)),
             JumpKeyUntrusted(a, n, ks, k)
      PROVE  Inv'
  <2>1. n + 1 \in 1..Len(Legs(a)) /\ n + 1 <= Len(Route(a))
    BY <1>1, <1>5 DEF JumpKeyUntrusted
  <2>2. QED
    BY <1>5, <2>1, PassedAreSaved, ReceiveMove, Shared DEF JumpKeyUntrusted, registryVars
<1>6. ASSUME NEW n \in 0..Len(Legs(a)), NEW ks, NEW k \in Keys, n < Len(Legs(a)),
             KeyUntrusted(a, n, ks, k)
      PROVE  Inv'
  <2>1. n + 1 \in 1..Len(Legs(a))
    BY <1>1, <1>6
  <2>2. authTo' \subseteq saved
    BY <1>6, PassedAreSaved DEF KeyUntrusted
  <2>3. CASE End(a, "failed")
    BY <1>6, <2>2, <2>3, EndMove, Shared DEF KeyUntrusted, registryVars, Ends
  <2>4. CASE Receive(a, "ask", n + 1, k)
    BY <1>6, <2>1, <2>2, <2>4, ReceiveMove, Shared DEF KeyUntrusted, registryVars
  <2>5. QED
    BY <1>6, <2>3, <2>4 DEF KeyUntrusted
<1>7. ASSUME NEW k \in Keys, HoldForApproval(a, k) PROVE Inv'
  <2>. DEFINE r == [att[a] EXCEPT !.pc = "ask", !.leg = 1, !.key = k, !.held = TRUE]
  <2>1. att[a] \in Locals /\ LocalOK(a)
    BY LegFacts DEF Inv
  <2>2. r \in Locals
    BY <2>1 DEF Locals, Asks
  <2>3. att' = [att EXCEPT ![a] = r]
    BY <1>7 DEF HoldForApproval
  <2>4. att'[a] = r
    BY <2>3 DEF Inv, TypeOK
  <2>5. /\ r.pc = "ask" /\ r.profile = att[a].profile /\ r.trusted = att[a].trusted
        /\ r.jumps = att[a].jumps /\ r.key = k
    BY <2>1 DEF Locals
  <2>6. LocalOK(a)'
    BY <1>7, <2>1, <2>4, <2>5 DEF HoldForApproval, LocalOK, Target
  <2>7. QED
    BY <1>7, <2>2, <2>3, <2>6, QuietMove, Shared DEF HoldForApproval
<1>8. QED
  BY <1>1, <1>2, <1>3, <1>4, <1>5, <1>6, <1>7 DEF ConnectReturns

\* The ends of the question about a jump host.
LEMMA JumpStep ==
    ASSUME Inv, NEW a \in Attempts,
           FindJump(a) \/ SaveJumpFails(a) \/ RefuseJump(a)
    PROVE  Inv'
<1>1. CASE FindJump(a)
  <2>1. CASE End(a, "failed")
    BY <1>1, <2>1, EndMove, Shared DEF FindJump, historyVars, registryVars, Ends
  <2>2. CASE GoTo(a, "jumpAsk")
    BY <1>1, <2>2, GoToMove, Shared DEF FindJump, historyVars, registryVars, Asks
  <2>3. QED
    BY <1>1, <2>1, <2>2 DEF FindJump
<1>2. CASE SaveJumpFails(a)
  BY <1>2, EndMove, Shared DEF SaveJumpFails, historyVars, registryVars, Ends
<1>3. CASE RefuseJump(a)
  BY <1>3, EndMove, Shared DEF RefuseJump, historyVars, registryVars, Ends
<1>4. QED
  BY <1>1, <1>2, <1>3

\* The user approves a key.
LEMMA ApproveStep ==
    ASSUME Inv, NEW a \in Attempts, ApproveJump(a) \/ ApproveTarget(a)
    PROVE  Inv'
<1>. DEFINE h == IF att[a].pc = "jumpAsk" THEN JumpHost(a) ELSE Target(a)
            pc == IF att[a].pc = "jumpAsk" THEN "jumpSave" ELSE "save"
            r == [att[a] EXCEPT !.pc = pc]
<1>1. att[a] \in Locals /\ LocalOK(a) /\ Target(a) \in Hosts /\ att[a].pc \in {"jumpAsk", "ask"}
  BY LegFacts DEF Inv, ApproveJump, ApproveTarget
<1>2. h \in Hosts /\ att[a].key \in Keys
  BY <1>1, LegFacts DEF LocalOK, JumpHost, Inv
<1>3. Approve(a, h, pc)
  BY DEF ApproveJump, ApproveTarget
<1>4. r \in Locals
  BY <1>1 DEF Locals, Waits
<1>5. att' = [att EXCEPT ![a] = r]
  BY <1>3 DEF Approve, GoTo
<1>6. att'[a] = r
  BY <1>5 DEF Inv, TypeOK
<1>7. /\ r.pc = pc /\ r.profile = att[a].profile /\ r.trusted = att[a].trusted
      /\ r.jumps = att[a].jumps /\ r.leg = att[a].leg /\ r.key = att[a].key
  BY <1>1 DEF Locals
<1>8. <<h, att[a].key>> \in approved' /\ saved' = saved
  BY <1>3 DEF Approve
<1>9. LocalOK(a)'
  BY <1>1, <1>2, <1>6, <1>7, <1>8 DEF LocalOK, Target, Route, JumpHost
<1>10. KnownSaved' /\ known' \in [Hosts -> SUBSET Keys]
  BY <1>3 DEF Inv, TypeOK, KnownSaved, Approve
<1>11. /\ approved' \subseteq Hosts \X Keys /\ approved \subseteq approved'
       /\ saved' \subseteq approved' /\ authTo' \subseteq saved'
  BY <1>2, <1>3 DEF Approve, Inv, TypeOK, SavesApprovedKeys, AuthenticatesSavedKeys
<1>12. QED
  BY <1>3, <1>4, <1>5, <1>8, <1>9, <1>10, <1>11, OneAttemptMoves, Shared DEF Approve, registryVars

\* What saving does to the store and the histories.
LEMMA TrustFacts ==
    ASSUME Inv, NEW h \in Hosts, NEW k \in Keys, Trust(h, k), <<h, k>> \in approved
    PROVE  /\ known' \in [Hosts -> SUBSET Keys] /\ KnownSaved'
           /\ approved' \subseteq Hosts \X Keys /\ saved' \subseteq approved'
           /\ authTo' \subseteq saved' /\ approved \subseteq approved' /\ saved \subseteq saved'
           /\ <<h, k>> \in saved'
  BY DEF Inv, TypeOK, KnownSaved, Trust, SavesApprovedKeys, AuthenticatesSavedKeys

\* The approved key of a jump host is saved.
LEMMA SaveJumpStep ==
    ASSUME Inv, NEW a \in Attempts, SaveJump(a)
    PROVE  Inv'
<1>. DEFINE r == [att[a] EXCEPT !.pc = "read", !.stage = "retry", !.leg = 0, !.key = NoKey]
<1>1. att[a] \in Locals /\ LocalOK(a) /\ att[a].pc = "jumpSave"
  BY LegFacts DEF Inv, SaveJump
<1>2. JumpHost(a) \in Hosts /\ att[a].key \in Keys
  BY <1>1, LegFacts DEF LocalOK, JumpHost, Inv
<1>3. Trust(JumpHost(a), att[a].key) /\ <<JumpHost(a), att[a].key>> \in approved
  BY <1>1 DEF SaveJump, LocalOK
<1>4. r \in Locals
  BY <1>1 DEF Locals, Waits
<1>5. att' = [att EXCEPT ![a] = r]
  BY DEF SaveJump
<1>6. att'[a] = r
  BY <1>5 DEF Inv, TypeOK
<1>7. /\ r.pc = "read" /\ r.profile = att[a].profile /\ r.trusted = att[a].trusted
      /\ r.jumps = att[a].jumps
  BY <1>1 DEF Locals
<1>8. LocalOK(a)'
  BY <1>1, <1>2, <1>3, <1>6, <1>7, TrustFacts DEF LocalOK, Target
<1>9. QED
  BY <1>2, <1>3, <1>4, <1>5, <1>8, TrustFacts, OneAttemptMoves, Shared DEF SaveJump, registryVars

\* The approved key of the target is saved.
LEMMA SaveTargetStep ==
    ASSUME Inv, NEW a \in Attempts, SaveTarget(a)
    PROVE  Inv'
<1>. DEFINE r1 == [att[a] EXCEPT !.pc = "continue"]
            r2 == [att[a] EXCEPT !.pc = "read", !.stage = "again", !.trusted = {att[a].key},
                                 !.leg = 0, !.key = NoKey]
<1>1. att[a] \in Locals /\ LocalOK(a) /\ att[a].pc = "save" /\ Target(a) \in Hosts
  BY LegFacts DEF Inv, SaveTarget
<1>2. att[a].key \in Keys
  BY <1>1 DEF LocalOK
<1>3. Trust(Target(a), att[a].key) /\ <<Target(a), att[a].key>> \in approved
  BY <1>1 DEF SaveTarget, LocalOK
<1>4. CASE att[a].held
  <2>1. r1 \in Locals
    BY <1>1 DEF Locals, Waits
  <2>2. att' = [att EXCEPT ![a] = r1]
    BY <1>4 DEF SaveTarget
  <2>3. att'[a] = r1
    BY <2>2 DEF Inv, TypeOK
  <2>4. /\ r1.pc = "continue" /\ r1.profile = att[a].profile /\ r1.trusted = att[a].trusted
        /\ r1.jumps = att[a].jumps /\ r1.key = att[a].key
    BY <1>1 DEF Locals
  <2>5. LocalOK(a)'
    BY <1>1, <1>2, <1>3, <2>3, <2>4, TrustFacts DEF LocalOK, Target
  <2>6. QED
    BY <1>1, <1>2, <1>3, <2>1, <2>2, <2>5, TrustFacts, OneAttemptMoves, Shared
    DEF SaveTarget, registryVars
<1>5. CASE ~att[a].held
  <2>1. r2 \in Locals
    BY <1>1, <1>2 DEF Locals, Waits
  <2>2. att' = [att EXCEPT ![a] = r2]
    BY <1>5 DEF SaveTarget
  <2>3. att'[a] = r2
    BY <2>2 DEF Inv, TypeOK
  <2>4. /\ r2.pc = "read" /\ r2.profile = att[a].profile /\ r2.trusted = {att[a].key}
        /\ r2.jumps = att[a].jumps
    BY <1>1 DEF Locals
  <2>5. LocalOK(a)'
    BY <1>1, <1>2, <1>3, <2>3, <2>4, TrustFacts DEF LocalOK, Target
  <2>6. QED
    BY <1>1, <1>2, <1>3, <2>1, <2>2, <2>5, TrustFacts, OneAttemptMoves, Shared
    DEF SaveTarget, registryVars
<1>6. QED
  BY <1>4, <1>5

\* The ends of the question about the target.
LEMMA TargetStep ==
    ASSUME Inv, NEW a \in Attempts,
           RefuseTarget(a) \/ SaveTargetFails(a) \/ ContinueEnds(a)
    PROVE  Inv'
<1>1. CASE RefuseTarget(a) \/ SaveTargetFails(a)
  <2>1. CASE End(a, "failed")
    BY <1>1, <2>1, EndMove, Shared DEF RefuseTarget, SaveTargetFails, historyVars, registryVars, Ends
  <2>2. CASE GoTo(a, "refuse")
    BY <1>1, <2>2, GoToMove, Shared DEF RefuseTarget, SaveTargetFails, historyVars, registryVars, Waits
  <2>3. QED
    BY <1>1, <2>1, <2>2 DEF RefuseTarget, SaveTargetFails
<1>2. CASE ContinueEnds(a)
  BY <1>2, EndMove, Shared DEF ContinueEnds, historyVars, Ends
<1>3. QED
  BY <1>1, <1>2

\* Continuing a held transport, and responding to a question.
LEMMA AuthenticateStep ==
    ASSUME Inv, NEW a \in Attempts, NEW o \in Outcomes, Continue(a, o) \/ Respond(a, o)
    PROVE  Inv'
<1>1. LocalOK(a)
  BY DEF Inv
<1>2. authTo' \subseteq saved /\ UNCHANGED <<known, approved, saved>>
  BY <1>1, Shared DEF Continue, Respond, LocalOK, historyVars
<1>3. /\ pendingKeys' \subseteq Attempts /\ pendingAuths' \subseteq Attempts
      /\ sessions' \subseteq Attempts
  BY Shared DEF Continue, Respond
<1>4. CASE o \in Ends
  <2>1. End(a, o)
    BY <1>4 DEF Continue, Respond, Conclude
  <2>2. QED
    BY <1>2, <1>3, <1>4, <2>1, EndMove
<1>5. CASE o = "challenge"
  <2>1. GoTo(a, o)
    BY <1>5 DEF Continue, Respond, Conclude, Ends
  <2>2. QED
    BY <1>2, <1>3, <1>5, <2>1, GoToMove DEF Asks
<1>6. QED
  BY <1>4, <1>5 DEF Outcomes, Ends

\* The other steps of the user.
LEMMA UserStep ==
    ASSUME Inv, NEW a \in Attempts, Begin(a) \/ AnswerChallenge(a) \/ CancelChallenge(a)
    PROVE  Inv'
<1>1. CASE Begin(a)
  BY <1>1, GoToMove, Shared DEF Begin, historyVars, registryVars, Waits
<1>2. CASE AnswerChallenge(a)
  BY <1>2, GoToMove, Shared DEF AnswerChallenge, historyVars, registryVars, Waits
<1>3. CASE CancelChallenge(a)
  BY <1>3, EndMove, Shared DEF CancelChallenge, historyVars, registryVars, Ends
<1>4. QED
  BY <1>1, <1>2, <1>3

\* Steps that no attempt takes.
LEMMA OtherStep ==
    ASSUME Inv, \/ \E a \in Attempts : PendingExpires(a)
                \/ \E h \in Hosts : Forget(h)
                \/ UNCHANGED vars
    PROVE  Inv'
<1>1. UNCHANGED <<att, approved, saved, authTo>>
  BY DEF PendingExpires, Forget, vars, historyVars
<1>2. \A a \in Attempts : LocalOK(a)'
  BY <1>1 DEF Inv, LocalOK, Target, Route, JumpHost
<1>3. TypeOK'
  BY <1>1 DEF Inv, TypeOK, PendingExpires, Forget, vars, registryVars
<1>4. KnownSaved'
  BY <1>1 DEF Inv, TypeOK, KnownSaved, PendingExpires, Forget, vars
<1>5. QED
  BY <1>1, <1>2, <1>3, <1>4 DEF Inv, SavesApprovedKeys, AuthenticatesSavedKeys

\* Nothing is known of what has not been saved at the start.
LEMMA InitOK == Init => Inv
<1>1. SUFFICES ASSUME Init PROVE Inv
  OBVIOUS
<1>2. PICK prof \in [Attempts -> AllProfiles] : att = [a \in Attempts |-> Fresh(Idle, prof[a])]
  BY <1>1 DEF Init
<1>3. NoJumps \in [Hosts -> SUBSET Keys] /\ \A h \in Hosts : NoJumps[h] = {}
  BY DEF NoJumps
<1>4. \A a \in Attempts : Fresh(Idle, prof[a]) \in Locals
  BY <1>2, <1>3 DEF Fresh, Locals
<1>5. TypeOK
  BY <1>1, <1>2, <1>4 DEF Init, TypeOK
<1>6. ASSUME NEW a \in Attempts PROVE LocalOK(a)
  <2>1. att[a].pc = "idle" /\ att[a].trusted = {} /\ att[a].jumps = NoJumps
    BY <1>2 DEF Fresh, Idle
  <2>2. QED
    BY <1>3, <2>1 DEF LocalOK
<1>7. KnownSaved
  BY <1>1 DEF Init, KnownSaved
<1>8. SavesApprovedKeys /\ AuthenticatesSavedKeys
  BY <1>1 DEF Init, SavesApprovedKeys, AuthenticatesSavedKeys
<1>9. QED
  BY <1>5, <1>6, <1>7, <1>8 DEF Inv

\* The invariant of the keys, in every state.
LEMMA InvHolds == Spec => []Inv
<1>1. Init => Inv
  BY InitOK
<1>2. Inv /\ [Next]_vars => Inv'
  <2>1. SUFFICES ASSUME Inv, [Next]_vars PROVE Inv'
    OBVIOUS
  <2>2. ASSUME NEW a \in Attempts, Proceeds(a) PROVE Inv'
    BY <2>1, <2>2, LookupStep, ConnectStep, JumpStep, SaveJumpStep, SaveTargetStep, TargetStep,
       AuthenticateStep DEF Proceeds
  <2>3. ASSUME NEW a \in Attempts, UserActs(a) PROVE Inv'
    BY <2>1, <2>3, JumpStep, ApproveStep, TargetStep, UserStep DEF UserActs
  <2>4. QED
    BY <2>1, <2>2, <2>3, OtherStep DEF Next
<1>3. QED
  BY <1>1, <1>2, PTL DEF Spec

-----------------------------------------------------------------------------
(* Transports, sessions and mismatches.                                    *)

\* A session belongs to an attempt that opened it, a held transport to one that
\* will still continue or refuse it, and a question of the server to a
\* transport; an attempt that found keys trusts some and has no other in hand.
TransportOK(a) ==
    /\ a \in sessions => att[a].pc = "opened"
    /\ a \in pendingKeys => att[a].held /\ att[a].pc \in {"ask", "save", "continue", "refuse"}
    /\ att[a].pc \in {"challenge", "respond"} => a \in pendingAuths
    /\ att[a].snap # {} => /\ att[a].trusted # {}
                           /\ att[a].pc \notin {"ask", "save", "continue"}

Transports == \A a \in Attempts : TransportOK(a)

\* Where an attempt ends, it has no locals.
LEMMA EndLocals ==
    ASSUME Inv, NEW a \in Attempts, NEW pc, End(a, pc)
    PROVE  /\ att'[a].pc = pc /\ att'[a].snap = {} /\ ~att'[a].held
  BY DEF Inv, TypeOK, End, Fresh

\* Where it goes on, it keeps them.
LEMMA GoToLocals ==
    ASSUME Inv, NEW a \in Attempts, NEW pc, GoTo(a, pc)
    PROVE  /\ att'[a].pc = pc /\ att'[a].snap = att[a].snap
           /\ att'[a].trusted = att[a].trusted /\ att'[a].held = att[a].held
<1>1. att[a] \in Locals /\ att'[a] = [att[a] EXCEPT !.pc = pc]
  BY DEF Inv, TypeOK, GoTo
<1>2. QED
  BY <1>1 DEF Locals

\* What an attempt keeps when it hears of a key.
LEMMA ReceiveLocals ==
    ASSUME Inv, NEW a \in Attempts, NEW pc, NEW i, NEW k, Receive(a, pc, i, k)
    PROVE  /\ att'[a].pc = pc /\ att'[a].snap = att[a].snap
           /\ att'[a].trusted = att[a].trusted /\ att'[a].held = att[a].held
<1>1. /\ att[a] \in Locals
      /\ att'[a] = [att[a] EXCEPT !.pc = pc, !.jumps = NoJumps, !.leg = i, !.key = k]
  BY DEF Inv, TypeOK, Receive
<1>2. QED
  BY <1>1 DEF Locals

\* A failed or opened attempt owes nothing.
LEMMA EndTransport ==
    ASSUME Inv, NEW a \in Attempts, NEW pc \in Ends, End(a, pc),
           a \notin pendingKeys', a \in sessions' => pc = "opened"
    PROVE  TransportOK(a)'
  BY EndLocals DEF TransportOK, Ends

\* A step that only moves on, within what its place allows.
LEMMA GoToTransport ==
    ASSUME Inv, Transports, NEW a \in Attempts, NEW pc \in Waits \cup Asks, GoTo(a, pc),
           UNCHANGED registryVars,
           a \notin sessions, a \in pendingKeys => pc \in {"ask", "save", "continue", "refuse"},
           pc \in {"challenge", "respond"} => a \in pendingAuths,
           pc \in {"ask", "save", "continue"} => att[a].snap = {}
    PROVE  TransportOK(a)'
  BY GoToLocals DEF Transports, TransportOK, registryVars

\* Up to the call of Rust an attempt holds nothing.
LEMMA LookupTransport ==
    ASSUME Inv, Transports, NEW a \in Attempts,
           Begin(a) \/ FindTarget(a) \/ ReadJumpKeys(a) \/ FindJump(a) \/ RefuseJump(a)
    PROVE  TransportOK(a)'
<1>1. TransportOK(a) /\ att[a] \in Locals
  BY DEF Transports, Inv, TypeOK
<1>2. CASE Begin(a)
  BY <1>1, <1>2, GoToTransport DEF Begin, TransportOK, Waits, Idle
<1>3. CASE FindTarget(a)
  <2>1. att'[a] = [att[a] EXCEPT !.pc = "read", !.snap = known[Target(a)],
                                 !.trusted = known[Target(a)]]
    BY <1>3 DEF FindTarget, Inv, TypeOK
  <2>2. att'[a].pc = "read" /\ att'[a].snap = att'[a].trusted
    BY <1>1, <2>1 DEF Locals
  <2>3. a \notin sessions /\ a \notin pendingKeys
    BY <1>1, <1>3 DEF TransportOK, FindTarget
  <2>4. QED
    BY <1>3, <2>2, <2>3 DEF FindTarget, TransportOK, registryVars
<1>4. CASE ReadJumpKeys(a)
  <2>1. /\ att'[a].pc = "connect" /\ att'[a].snap = att[a].snap
        /\ att'[a].trusted = att[a].trusted
    <3>1. PICK j : att' = [att EXCEPT ![a] = [att[a] EXCEPT !.pc = "connect", !.jumps = j]]
      BY <1>4 DEF ReadJumpKeys
    <3>2. att'[a] = [att[a] EXCEPT !.pc = "connect", !.jumps = j]
      BY <3>1 DEF Inv, TypeOK
    <3>3. QED
      BY <1>1, <3>2 DEF Locals
  <2>2. a \notin sessions /\ a \notin pendingKeys
    BY <1>1, <1>4 DEF TransportOK, ReadJumpKeys
  <2>3. QED
    BY <1>1, <1>4, <2>1, <2>2 DEF ReadJumpKeys, TransportOK, registryVars
<1>5. CASE FindJump(a)
  <2>1. a \notin sessions /\ a \notin pendingKeys
    BY <1>1, <1>5 DEF TransportOK, FindJump
  <2>2. CASE End(a, "failed")
    BY <1>5, <2>1, <2>2, EndTransport DEF FindJump, registryVars, Ends
  <2>3. CASE GoTo(a, "jumpAsk")
    BY <1>5, <2>1, <2>3, GoToTransport DEF FindJump, Asks
  <2>4. QED
    BY <1>5, <2>2, <2>3 DEF FindJump
<1>6. CASE RefuseJump(a)
  BY <1>1, <1>6, EndTransport DEF RefuseJump, TransportOK, registryVars, Ends
<1>7. QED
  BY <1>2, <1>3, <1>4, <1>5, <1>6

\* A call that connects holds nothing yet; it may hold a transport for a host
\* without keys, open a session, or leave a question.
LEMMA ConnectTransport ==
    ASSUME Inv, Transports, NEW a \in Attempts, ConnectReturns(a)
    PROVE  TransportOK(a)'
<1>1. TransportOK(a) /\ att[a] \in Locals
  BY DEF Transports, Inv, TypeOK
<1>2. att[a].pc = "connect" /\ a \notin sessions /\ a \notin pendingKeys
  <2>1. ASSUME NEW n, NEW ks, Passes(a, n, ks) PROVE att[a].pc = "connect"
    BY <2>1 DEF Passes
  <2>2. ASSUME NEW k, HoldForApproval(a, k) PROVE att[a].pc = "connect"
    BY <2>2 DEF HoldForApproval
  <2>3. (\E n, ks : Passes(a, n, ks)) \/ (\E k : HoldForApproval(a, k))
    BY DEF ConnectReturns, ConnectFails, ConnectSucceeds, ConnectChallenges,
           JumpKeyUntrusted, KeyUntrusted
  <2>4. att[a].pc = "connect"
    BY <2>1, <2>2, <2>3
  <2>5. QED
    BY <1>1, <2>4 DEF TransportOK
<1>3. ASSUME NEW n, NEW ks, ConnectFails(a, n, ks) PROVE TransportOK(a)'
  BY <1>2, <1>3, EndTransport DEF ConnectFails, registryVars, Ends
<1>4. ASSUME NEW ks, ConnectSucceeds(a, ks) PROVE TransportOK(a)'
  BY <1>2, <1>4, EndTransport DEF ConnectSucceeds, Ends
<1>5. ASSUME NEW ks, ConnectChallenges(a, ks) PROVE TransportOK(a)'
  BY <1>1, <1>2, <1>5, GoToLocals DEF ConnectChallenges, TransportOK
<1>6. ASSUME NEW n, NEW ks, NEW k, JumpKeyUntrusted(a, n, ks, k) PROVE TransportOK(a)'
  BY <1>1, <1>2, <1>6, ReceiveLocals DEF JumpKeyUntrusted, TransportOK, registryVars
<1>7. ASSUME NEW n, NEW ks, NEW k, KeyUntrusted(a, n, ks, k) PROVE TransportOK(a)'
  <2>1. CASE End(a, "failed")
    BY <1>2, <1>7, <2>1, EndTransport DEF KeyUntrusted, registryVars, Ends
  <2>2. CASE att[a].snap = {} /\ Receive(a, "ask", n + 1, k)
    BY <1>1, <1>2, <1>7, <2>2, ReceiveLocals DEF KeyUntrusted, TransportOK, registryVars
  <2>3. QED
    BY <1>7, <2>1, <2>2 DEF KeyUntrusted
<1>8. ASSUME NEW k, HoldForApproval(a, k) PROVE TransportOK(a)'
  <2>1. att'[a] = [att[a] EXCEPT !.pc = "ask", !.leg = 1, !.key = k, !.held = TRUE]
    BY <1>8 DEF HoldForApproval, Inv, TypeOK
  <2>2. att'[a].pc = "ask" /\ att'[a].snap = att[a].snap /\ att'[a].held
    BY <1>1, <2>1 DEF Locals
  <2>3. att[a].snap = {}
    BY <1>1, <1>8 DEF HoldForApproval, TransportOK
  <2>4. QED
    BY <1>2, <1>8, <2>2, <2>3 DEF HoldForApproval, TransportOK
<1>9. QED
  BY <1>3, <1>4, <1>5, <1>6, <1>7, <1>8 DEF ConnectReturns

\* Approving and saving leave the held transport where it is.
LEMMA SaveTransport ==
    ASSUME Inv, Transports, NEW a \in Attempts,
           ApproveJump(a) \/ ApproveTarget(a) \/ SaveJump(a) \/ SaveJumpFails(a) \/ SaveTarget(a)
    PROVE  TransportOK(a)'
<1>1. TransportOK(a) /\ att[a] \in Locals
  BY DEF Transports, Inv, TypeOK
<1>2. CASE ApproveJump(a)
  BY <1>1, <1>2, GoToTransport DEF ApproveJump, Approve, TransportOK, Waits
<1>3. CASE ApproveTarget(a)
  BY <1>1, <1>3, GoToTransport DEF ApproveTarget, Approve, TransportOK, Waits
<1>4. CASE SaveJump(a)
  <2>1. att'[a] = [att[a] EXCEPT !.pc = "read", !.stage = "retry", !.leg = 0, !.key = NoKey]
    BY <1>4 DEF SaveJump, Inv, TypeOK
  <2>2. /\ att'[a].pc = "read" /\ att'[a].snap = att[a].snap
        /\ att'[a].trusted = att[a].trusted
    BY <1>1, <2>1 DEF Locals
  <2>3. QED
    BY <1>1, <1>4, <2>2 DEF SaveJump, TransportOK, registryVars
<1>5. CASE SaveJumpFails(a)
  BY <1>1, <1>5, EndTransport DEF SaveJumpFails, TransportOK, registryVars, Ends
<1>6. CASE SaveTarget(a)
  <2>1. att[a].snap = {} /\ a \notin sessions /\ (a \in pendingKeys => att[a].held)
    BY <1>1, <1>6 DEF SaveTarget, TransportOK
  <2>2. CASE att[a].held
    <3>1. att'[a] = [att[a] EXCEPT !.pc = "continue"]
      BY <1>6, <2>2 DEF SaveTarget, Inv, TypeOK
    <3>2. att'[a].pc = "continue" /\ att'[a].snap = {} /\ att'[a].held
      BY <1>1, <2>1, <2>2, <3>1 DEF Locals
    <3>3. QED
      BY <1>6, <2>1, <3>2 DEF SaveTarget, TransportOK, registryVars
  <2>3. CASE ~att[a].held
    <3>1. att'[a] = [att[a] EXCEPT !.pc = "read", !.stage = "again", !.trusted = {att[a].key},
                                   !.leg = 0, !.key = NoKey]
      BY <1>6, <2>3 DEF SaveTarget, Inv, TypeOK
    <3>2. att'[a].pc = "read" /\ att'[a].snap = {}
      BY <1>1, <2>1, <3>1 DEF Locals
    <3>3. QED
      BY <1>6, <2>1, <2>3, <3>2 DEF SaveTarget, TransportOK, registryVars
  <2>4. QED
    BY <2>2, <2>3
<1>7. QED
  BY <1>2, <1>3, <1>4, <1>5, <1>6

\* What follows an answer takes its transport out of the table.
LEMMA AnswerTransport ==
    ASSUME Inv, Transports, NEW a \in Attempts,
           \/ RefuseTarget(a) \/ SaveTargetFails(a) \/ ContinueEnds(a)
           \/ AnswerChallenge(a) \/ CancelChallenge(a)
           \/ \E o \in Outcomes : Continue(a, o) \/ Respond(a, o)
    PROVE  TransportOK(a)'
<1>1. TransportOK(a) /\ att[a] \in Locals
  BY DEF Transports, Inv, TypeOK
<1>2. CASE RefuseTarget(a) \/ SaveTargetFails(a)
  <2>1. a \notin sessions
    BY <1>1, <1>2 DEF RefuseTarget, SaveTargetFails, TransportOK
  <2>2. CASE att[a].held
    BY <1>1, <1>2, <2>1, <2>2, GoToTransport DEF RefuseTarget, SaveTargetFails, Waits
  <2>3. CASE ~att[a].held
    BY <1>1, <1>2, <2>1, <2>3, EndTransport
    DEF RefuseTarget, SaveTargetFails, TransportOK, registryVars, Ends
  <2>4. QED
    BY <2>2, <2>3
<1>3. CASE ContinueEnds(a)
  BY <1>1, <1>3, EndTransport DEF ContinueEnds, TransportOK, Ends
<1>4. CASE AnswerChallenge(a)
  BY <1>1, <1>4, GoToTransport DEF AnswerChallenge, TransportOK, Waits
<1>5. CASE CancelChallenge(a)
  BY <1>1, <1>5, EndTransport DEF CancelChallenge, TransportOK, registryVars, Ends
<1>6. ASSUME NEW o \in Outcomes, Continue(a, o) \/ Respond(a, o) PROVE TransportOK(a)'
  <2>1. a \notin sessions /\ a \notin pendingKeys'
    BY <1>1, <1>6 DEF Continue, Respond, TransportOK
  <2>2. CASE o \in Ends
    <3>1. End(a, o) /\ (a \in sessions' => o = "opened")
      BY <1>6, <2>1, <2>2 DEF Continue, Respond, Conclude
    <3>2. QED
      BY <2>1, <2>2, <3>1, EndTransport
  <2>3. CASE o = "challenge"
    <3>1. GoTo(a, o) /\ a \notin sessions' /\ a \in pendingAuths'
      BY <1>6, <2>1, <2>3 DEF Continue, Respond, Conclude, Ends
    <3>2. QED
      BY <1>1, <2>1, <2>3, <3>1, GoToLocals DEF TransportOK
  <2>4. QED
    BY <2>2, <2>3 DEF Outcomes, Ends
<1>7. QED
  BY <1>2, <1>3, <1>4, <1>5, <1>6

\* The entries of another attempt are its own.
LEMMA OthersTransport ==
    ASSUME Inv, Transports, NEW a \in Attempts, Proceeds(a) \/ UserActs(a) \/ PendingExpires(a),
           NEW b \in Attempts, b # a
    PROVE  TransportOK(b)'
<1>1. att'[b] = att[b]
  BY ZenonT(30) DEF Inv, TypeOK, Proceeds, UserActs, PendingExpires, Begin, FindTarget, ReadJumpKeys,
         ConnectReturns, ConnectFails, ConnectSucceeds, ConnectChallenges, JumpKeyUntrusted,
         KeyUntrusted, HoldForApproval, FindJump, ApproveJump, RefuseJump, SaveJump,
         SaveJumpFails, ApproveTarget, Approve, RefuseTarget, SaveTarget, SaveTargetFails,
         ContinueEnds, Continue, Respond, Conclude, AnswerChallenge, CancelChallenge,
         End, GoTo, Receive
<1>2. /\ b \in sessions' <=> b \in sessions
      /\ b \in pendingKeys' <=> b \in pendingKeys
      /\ b \in pendingAuths' <=> b \in pendingAuths
  BY DEF Proceeds, UserActs, PendingExpires, Begin, FindTarget, ReadJumpKeys, ConnectReturns,
         ConnectFails, ConnectSucceeds, ConnectChallenges, JumpKeyUntrusted, KeyUntrusted,
         HoldForApproval, FindJump, ApproveJump, RefuseJump, SaveJump, SaveJumpFails,
         ApproveTarget, Approve, RefuseTarget, SaveTarget, SaveTargetFails, ContinueEnds,
         Continue, Respond, AnswerChallenge, CancelChallenge, registryVars
<1>3. QED
  BY <1>1, <1>2 DEF Transports, TransportOK

\* Every step keeps the entries of the Rust tables with their attempts.
LEMMA TransportStep ==
    ASSUME Inv, Transports, [Next]_vars
    PROVE  Transports'
<1>1. CASE UNCHANGED vars \/ \E h \in Hosts : Forget(h)
  BY <1>1 DEF Forget, vars, registryVars, Transports, TransportOK
<1>2. ASSUME NEW a \in Attempts, Proceeds(a) \/ UserActs(a) \/ PendingExpires(a)
      PROVE  Transports'
  <2>1. TransportOK(a)'
    <3>1. CASE PendingExpires(a)
      BY <3>1 DEF PendingExpires, Transports, TransportOK
    <3>2. CASE Proceeds(a) \/ UserActs(a)
      BY <3>2, LookupTransport, ConnectTransport, SaveTransport, AnswerTransport
      DEF Proceeds, UserActs
    <3>3. QED
      BY <1>2, <3>1, <3>2
  <2>2. QED
    BY <1>2, <2>1, OthersTransport DEF Transports
<1>3. QED
  BY <1>1, <1>2 DEF Next

\* The invariant of the transports, in every state.
LEMMA TransportsHold == Spec => []Transports
<1>1. Init => Transports
  <2>1. SUFFICES ASSUME Init, NEW a \in Attempts PROVE TransportOK(a)
    BY DEF Transports
  <2>2. att[a].pc = "idle" /\ att[a].snap = {}
    BY <2>1 DEF Init, Fresh, Idle
  <2>3. QED
    BY <2>1, <2>2 DEF Init, TransportOK
<1>2. Inv /\ Transports /\ [Next]_vars => Transports'
  BY TransportStep
<1>3. QED
  BY <1>1, <1>2, InvHolds, PTL DEF Spec

-----------------------------------------------------------------------------
(* The theorems.                                                           *)

\* The state of the gateway has its types, for any hosts, keys and routes.
THEOREM TypeCorrect == Spec => []TypeOK
<1>1. Inv => TypeOK
  BY DEF Inv
<1>2. QED
  BY <1>1, InvHolds, PTL

\* However many attempts run, and whatever the servers present: credentials are
\* only sent to a server that presented a key saved for the host it is reached
\* as (Rust's check of the trusted keys).
THEOREM CredentialsFollowApproval == Spec => []AuthenticatesSavedKeys
<1>1. Inv => AuthenticatesSavedKeys
  BY DEF Inv
<1>2. QED
  BY <1>1, InvHolds, PTL

\* Every saved key was approved by the user for its host (the known_hosts store).
THEOREM SavedIsApproved == Spec => []SavesApprovedKeys
<1>1. Inv => SavesApprovedKeys
  BY DEF Inv
<1>2. QED
  BY <1>1, InvHolds, PTL

\* An attempt that failed holds no transport for approval and left no session,
\* whatever it failed at (connect(), ssh_continue_host_key).
THEOREM FailedIsReleased == Spec => []FailureReleases
<1>1. Transports => FailureReleases
  BY DEF Transports, TransportOK, FailureReleases
<1>2. QED
  BY <1>1, TransportsHold, PTL

\* A question of the server is only asked and answered while its transport waits
\* for the answer (PENDING_AUTHS).
THEOREM QuestionHasTransport == Spec => []ChallengeHasTransport
<1>1. Transports => ChallengeHasTransport
  BY DEF Transports, TransportOK, ChallengeHasTransport
<1>2. QED
  BY <1>1, TransportsHold, PTL

\* A key the target presents instead of the ones the attempt found is not
\* offered, saved or used, on any of the attempt's calls (connect()).
THEOREM MismatchIsBlocked == Spec => []MismatchBlocks
<1>1. Transports => MismatchBlocks
  BY DEF Transports, TransportOK, MismatchBlocks
<1>2. QED
  BY <1>1, TransportsHold, PTL
=============================================================================
