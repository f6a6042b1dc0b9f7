-------------------------- MODULE FtlScripts_proofs --------------------------
(***************************************************************************)
(* Three claims of the mains of folder 06: consistent() holds between any  *)
(* two calls, with or without a reserve, and one hot LBA wears the drive   *)
(* evenly, on drives of every geometry; and the mains of samples 09, 11    *)
(* and 12 end with the 0 their exit tests stand for, on drives the 20      *)
(* pages of sample 09 fit.  The samples' host has 16 LBAs.                 *)
(***************************************************************************)
EXTENDS FtlScriptsInvariant, Ftl_proofs, SequenceTheorems

SixteenLbas == 0..15 \subseteq LBA

-----------------------------------------------------------------------------
(* Scripts *)

LEMMA OnceIsOften == 1 \in Nat \ {0}
OBVIOUS

LEMMA CallIsACall ==
    ASSUME NEW op, NEW lbas \in SUBSET LBA, NEW n \in Nat \ {0}
    PROVE  Call(op, lbas, n) \in Calls({op}, SUBSET LBA)
BY DEF Call, Calls

LEMMA FewerCalls ==
    ASSUME NEW S, NEW T, S \subseteq T, NEW s \in Seq(S)
    PROVE  s \in Seq(T)
OBVIOUS

(* A list of calls, one per LBA. *)
LEMMA EachIsAScript ==
    ASSUME NEW op, NEW n \in Nat, NEW lbas \in [1..n -> LBA]
    PROVE  /\ Each(op, lbas) \in Seq(Calls({op}, SUBSET LBA))
           /\ Len(Each(op, lbas)) = n
           /\ \A i \in 1..n : Each(op, lbas)[i] = Call(op, {lbas[i]}, 1)
<1>1. DOMAIN lbas = 1..n
  OBVIOUS
<1>2. ASSUME NEW i \in 1..n PROVE Call(op, {lbas[i]}, 1) \in Calls({op}, SUBSET LBA)
  <2>1. lbas[i] \in LBA
    BY <1>2
  <2>2. {lbas[i]} \in SUBSET LBA
    BY <2>1, Zenon
  <2> QED BY <2>2, OnceIsOften, CallIsACall, Zenon
<1>3. Each(op, lbas) = [i \in 1..n |-> Call(op, {lbas[i]}, 1)]
  BY <1>1 DEF Each
<1>4. Each(op, lbas) \in [1..n -> Calls({op}, SUBSET LBA)]
  BY <1>2, <1>3
<1>5. Each(op, lbas) \in Seq(Calls({op}, SUBSET LBA))
  BY <1>4, SeqDef, Zenon
<1> HIDE DEF Each
<1>6. Len(Each(op, lbas)) = n
  BY <1>4, <1>5, LenProperties
<1> QED BY <1>3, <1>5, <1>6

LEMMA PlainCalls ==
    /\ \A op \in {"write", "trim", "reset"} : Calls({op}, SUBSET LBA) \subseteq PlainCall
    /\ PlainCall \subseteq AnyCall
    /\ \A op \in {"write_no_gc", "collect"} : Calls({op}, SUBSET LBA) \subseteq AnyCall
BY DEF Calls, PlainCall, AnyCall

LEMMA PlainIsAny ==
    ASSUME NEW s \in Seq(PlainCall)
    PROVE  s \in Seq(AnyCall)
BY PlainCalls, FewerCalls, Zenon

LEMMA FillIsAScript ==
    ASSUME SixteenLbas, NEW n \in 0..16
    PROVE  /\ Fill(n) \in Seq(PlainCall)
           /\ Len(Fill(n)) = n
           /\ \A i \in 1..n : Fill(n)[i] = Call("write", {i - 1}, 1)
<1>1. [i \in 1..n |-> i - 1] \in [1..n -> LBA]
  BY DEF SixteenLbas
<1>2. n \in Nat
  OBVIOUS
<1> DEFINE lbas == [i \in 1..n |-> i - 1]
<1>3. /\ Fill(n) \in Seq(Calls({"write"}, SUBSET LBA))
      /\ Len(Fill(n)) = n
      /\ \A i \in 1..n : Fill(n)[i] = Call("write", {lbas[i]}, 1)
  <2>1. Fill(n) = Each("write", lbas)
    BY DEF Fill
  <2> HIDE DEF lbas
  <2>2. lbas \in [1..n -> LBA]
    BY <1>1 DEF lbas
  <2>3. /\ Each("write", lbas) \in Seq(Calls({"write"}, SUBSET LBA))
        /\ Len(Each("write", lbas)) = n
        /\ \A i \in 1..n : Each("write", lbas)[i] = Call("write", {lbas[i]}, 1)
    BY <2>2, <1>2, EachIsAScript, Zenon
  <2> QED BY <2>1, <2>3, Zenon
<1>4. Fill(n) \in Seq(PlainCall)
  <2>1. Calls({"write"}, SUBSET LBA) \subseteq PlainCall
    BY PlainCalls
  <2> QED BY <1>3, <2>1, FewerCalls, Zenon
<1> QED BY <1>3, <1>4

(* One list of calls after the other. *)
LEMMA BothParts ==
    ASSUME NEW S, NEW s \in Seq(S), NEW t \in Seq(S)
    PROVE  /\ s \o t \in Seq(S)
           /\ Len(s \o t) = Len(s) + Len(t)
           /\ \A i \in 1..Len(s) : (s \o t)[i] = s[i]
           /\ \A i \in (Len(s) + 1)..(Len(s) + Len(t)) : (s \o t)[i] = t[i - Len(s)]
BY ConcatProperties

LEMMA OneCallIsAScript ==
    ASSUME NEW C, NEW c \in C
    PROVE  <<c>> \in Seq(C)
OBVIOUS

(* The mains that leave the collections to write(). *)
PlainScripts ==
    {FtlModel, FtlWrite, Hot, FullRandom, NoTrim, WithTrim, Mixed}
    \union {SteadyState(used) : used \in {4, 8, 12, 16}}

LEMMA PlainScriptsArePlain ==
    ASSUME SixteenLbas
    PROVE  PlainScripts \subseteq Seq(PlainCall)
<1>1. ASSUME NEW lbas \in SUBSET LBA, NEW n \in Nat \ {0}
      PROVE  Call("write", lbas, n) \in PlainCall
  BY CallIsACall, PlainCalls
<1>2. \A lbas \in SUBSET LBA : Random(lbas) \in PlainCall
  BY <1>1, RoundsAssumption DEF Random
<1>3. Reset \in PlainCall
  BY DEF Reset, Call, PlainCall, Calls
<1>4. OddLbas \in SUBSET LBA /\ 0..15 \in SUBSET LBA /\ 0..7 \in SUBSET LBA /\ {7} \in SUBSET LBA
  BY DEF SixteenLbas, OddLbas
<1>5. FtlModel \in Seq(PlainCall)
  BY FillIsAScript DEF FtlModel
<1>6. FtlWrite \in Seq(PlainCall)
  <2>1. Call("write", {7}, 8) \in PlainCall /\ Call("write", {7}, 12) \in PlainCall
    BY <1>1, <1>4
  <2> QED BY <2>1 DEF FtlWrite
<1>7. Hot \in Seq(PlainCall)
  <2>1. Call("write", {7}, HotRounds) \in PlainCall
    BY <1>1, <1>4, RoundsAssumption
  <2> QED BY <2>1 DEF Hot
<1>8. FullRandom \in Seq(PlainCall)
  <2>1. Fill(16) \in Seq(PlainCall)
    BY FillIsAScript
  <2>2. Random(0..15) \in PlainCall
    BY <1>2, <1>4, Zenon
  <2> QED BY <2>1, <2>2, OneCallIsAScript, ConcatProperties DEF FullRandom
<1>9. <<Reset, Random(OddLbas)>> \in Seq(PlainCall)
  BY <1>2, <1>3, <1>4
<1>10. NoTrim \in Seq(PlainCall)
  BY <1>9, FillIsAScript, ConcatProperties DEF NoTrim
<1>11. WithTrim \in Seq(PlainCall)
  <2>1. [i \in 1..8 |-> 2 * (i - 1)] \in [1..8 -> LBA]
    BY DEF SixteenLbas
  <2>2. Each("trim", [i \in 1..8 |-> 2 * (i - 1)]) \in Seq(PlainCall)
    <3>1. 8 \in Nat
      OBVIOUS
    <3>2. Each("trim", [i \in 1..8 |-> 2 * (i - 1)]) \in Seq(Calls({"trim"}, SUBSET LBA))
      BY <2>1, <3>1, EachIsAScript, Zenon
    <3> QED BY <3>2, PlainCalls, FewerCalls
  <2>3. Fill(16) \o Each("trim", [i \in 1..8 |-> 2 * (i - 1)]) \in Seq(PlainCall)
    BY <2>2, FillIsAScript, ConcatProperties
  <2> QED BY <1>9, <2>3, ConcatProperties DEF WithTrim
<1>12. Mixed \in Seq(PlainCall)
  <2>1. Fill(8) \in Seq(PlainCall)
    BY FillIsAScript
  <2>2. Random(0..7) \in PlainCall
    BY <1>2, <1>4, Zenon
  <2> QED BY <2>1, <2>2, OneCallIsAScript, ConcatProperties DEF Mixed
<1>13. ASSUME NEW used \in {4, 8, 12, 16} PROVE SteadyState(used) \in Seq(PlainCall)
  <2>1. used \in 0..16 /\ 0..(used - 1) \in SUBSET LBA
    BY DEF SixteenLbas
  <2>2. Random(0..(used - 1)) \in PlainCall
    BY <1>2, <2>1, Zenon
  <2>3. <<Reset, Random(0..(used - 1))>> \in Seq(PlainCall)
    BY <1>3, <2>2
  <2> QED BY <2>1, <2>3, FillIsAScript, ConcatProperties DEF SteadyState
<1> QED BY <1>5, <1>6, <1>7, <1>8, <1>10, <1>11, <1>12, <1>13, Zenon DEF PlainScripts

(* Sample 09: 16 writes, 4 more without the trigger, one collection. *)
LEMMA GarbageCollectCalls ==
    ASSUME SixteenLbas
    PROVE  /\ GarbageCollect \in Seq(AnyCall)
           /\ Len(GarbageCollect) = 21
           /\ \A i \in 1..16 : GarbageCollect[i] = Call("write", {i - 1}, 1)
           /\ \A i \in 17..20 :
                 GarbageCollect[i] = Call("write_no_gc", {<<0, 1, 2, 5>>[i - 16]}, 1)
           /\ GarbageCollect[21] = Collect
<1> DEFINE lbas == <<0, 1, 2, 5>>
           F == Fill(16)
           E == Each("write_no_gc", lbas)
           C == <<Collect>>
<1>1. /\ F \in Seq(AnyCall) /\ Len(F) = 16
      /\ \A i \in 1..16 : F[i] = Call("write", {i - 1}, 1)
  BY FillIsAScript, PlainIsAny
<1>2. /\ E \in Seq(Calls({"write_no_gc"}, SUBSET LBA)) /\ Len(E) = 4
      /\ \A i \in 1..4 : E[i] = Call("write_no_gc", {lbas[i]}, 1)
  <2>1. lbas \in [1..4 -> LBA]
    BY DEF SixteenLbas
  <2>2. 4 \in Nat
    OBVIOUS
  <2> HIDE DEF lbas
  <2> QED BY <2>1, <2>2, EachIsAScript, Zenon
<1>3. E \in Seq(AnyCall)
  <2>1. Calls({"write_no_gc"}, SUBSET LBA) \subseteq AnyCall
    BY PlainCalls
  <2> QED BY <1>2, <2>1, FewerCalls, Zenon
<1>4. Len(F) = 16 /\ Len(E) = 4
  BY <1>1, <1>2
<1>5. C \in Seq(AnyCall) /\ Len(C) = 1 /\ C[1] = Collect
  BY DEF Collect, Call, AnyCall, Calls
<1>7. GarbageCollect = F \o E \o C
  BY DEF GarbageCollect
<1> HIDE DEF lbas, F, E, C
<1>8. /\ F \o E \in Seq(AnyCall)
      /\ Len(F \o E) = Len(F) + Len(E)
      /\ \A i \in 1..Len(F) : (F \o E)[i] = F[i]
      /\ \A i \in (Len(F) + 1)..(Len(F) + Len(E)) : (F \o E)[i] = E[i - Len(F)]
  BY <1>1, <1>3, BothParts, Zenon
<1> DEFINE FE == F \o E
<1> HIDE DEF FE
<1>9. /\ FE \in Seq(AnyCall) /\ Len(FE) = 20
      /\ \A i \in 1..16 : FE[i] = F[i]
      /\ \A i \in 17..20 : FE[i] = E[i - 16]
  <2>1. /\ FE \in Seq(AnyCall)
        /\ Len(FE) = Len(F) + Len(E)
        /\ \A i \in 1..Len(F) : FE[i] = F[i]
        /\ \A i \in (Len(F) + 1)..(Len(F) + Len(E)) : FE[i] = E[i - Len(F)]
    BY <1>8, Zenon DEF FE
  <2> QED BY <1>4, <2>1
<1>10. GarbageCollect = FE \o C
  BY <1>7, Zenon DEF FE
<1>11. /\ GarbageCollect \in Seq(AnyCall) /\ Len(GarbageCollect) = 21
       /\ \A i \in 1..20 : GarbageCollect[i] = FE[i]
       /\ GarbageCollect[21] = Collect
  <2>1. /\ GarbageCollect \in Seq(AnyCall)
        /\ Len(GarbageCollect) = Len(FE) + Len(C)
        /\ \A i \in 1..Len(FE) : GarbageCollect[i] = FE[i]
        /\ \A i \in (Len(FE) + 1)..(Len(FE) + Len(C)) : GarbageCollect[i] = C[i - Len(FE)]
    <3>1. FE \in Seq(AnyCall) /\ C \in Seq(AnyCall)
      BY <1>5, <1>9
    <3> QED BY <1>10, <3>1, BothParts, Zenon
  <2>2. /\ GarbageCollect \in Seq(AnyCall) /\ Len(GarbageCollect) = 21
        /\ \A i \in 1..20 : GarbageCollect[i] = FE[i]
    BY <1>5, <1>9, <2>1
  <2>3. GarbageCollect[21] = C[1]
    BY <1>5, <1>9, <2>1
  <2> QED BY <1>5, <2>2, <2>3
<1> QED
  <2>1. ASSUME NEW i \in 1..16 PROVE GarbageCollect[i] = Call("write", {i - 1}, 1)
    <3>1. i \in 1..20
      OBVIOUS
    <3>2. GarbageCollect[i] = FE[i] /\ FE[i] = F[i]
      BY <1>9, <1>11, <3>1, Zenon
    <3>3. F[i] = Call("write", {i - 1}, 1)
      BY <1>1, Zenon
    <3> QED BY <3>2, <3>3
  <2>2. ASSUME NEW i \in 17..20
        PROVE  GarbageCollect[i] = Call("write_no_gc", {lbas[i - 16]}, 1)
    <3>1. i \in 1..20 /\ i - 16 \in 1..4
      OBVIOUS
    <3>2. \A j \in 1..4 : E[j] = Call("write_no_gc", {lbas[j]}, 1)
      BY <1>2, Zenon
    <3>3. E[i - 16] = Call("write_no_gc", {lbas[i - 16]}, 1)
      BY <3>1, <3>2, Zenon
    <3>4. GarbageCollect[i] = FE[i] /\ FE[i] = E[i - 16]
      BY <1>9, <1>11, <3>1
    <3> QED BY <3>3, <3>4
  <2> QED BY <1>11, <2>1, <2>2 DEF lbas

LEMMA CleanDriveCalls ==
    ASSUME SixteenLbas
    PROVE  /\ CleanDrive \in Seq(AnyCall)
           /\ Len(CleanDrive) = 5
           /\ \A i \in 1..4 : CleanDrive[i] = Call("write", {i - 1}, 1)
           /\ CleanDrive[5] = Collect
<1> DEFINE F == Fill(4)
           C == <<Collect>>
<1>1. /\ F \in Seq(AnyCall) /\ Len(F) = 4
      /\ \A i \in 1..4 : F[i] = Call("write", {i - 1}, 1)
  BY FillIsAScript, PlainIsAny
<1>2. C \in Seq(AnyCall) /\ Len(C) = 1 /\ C[1] = Collect
  BY DEF Collect, Call, AnyCall, Calls
<1> HIDE DEF F, C
<1>3. CleanDrive = F \o C
  BY DEF CleanDrive, F, C
<1>4. /\ CleanDrive \in Seq(AnyCall)
      /\ Len(CleanDrive) = Len(F) + Len(C)
      /\ \A i \in 1..Len(F) : CleanDrive[i] = F[i]
      /\ \A i \in (Len(F) + 1)..(Len(F) + Len(C)) : CleanDrive[i] = C[i - Len(F)]
  BY <1>1, <1>2, <1>3, BothParts, Zenon
<1>5. CleanDrive \in Seq(AnyCall) /\ Len(CleanDrive) = 5 /\ \A i \in 1..4 : CleanDrive[i] = F[i]
  BY <1>1, <1>2, <1>4
<1>6. CleanDrive[5] = C[1]
  BY <1>1, <1>2, <1>4
<1> QED BY <1>1, <1>2, <1>5, <1>6

(* What each main starts with. *)
LEMMA ScriptsByKind ==
    ASSUME NEW s \in Scripts
    PROVE  \/ s = <<"09_collected", GarbageCollect>>
           \/ s = <<"09_clean", CleanDrive>>
           \/ s[1] \notin {"09_collected", "09_clean"} /\ s[2] \in PlainScripts
<1>1. ASSUME NEW who, who # "09_collected", who # "09_clean", NEW calls \in PlainScripts,
             s = <<who, calls>>
      PROVE  s[1] \notin {"09_collected", "09_clean"} /\ s[2] \in PlainScripts
  BY <1>1
<1>2. CASE \E used \in {4, 8, 12, 16} : s = <<"10_steady", SteadyState(used)>>
  <2>1. PICK used \in {4, 8, 12, 16} : s = <<"10_steady", SteadyState(used)>>
    BY <1>2
  <2>2. SteadyState(used) \in PlainScripts
    BY Zenon DEF PlainScripts
  <2>3. "10_steady" # "09_collected" /\ "10_steady" # "09_clean"
    OBVIOUS
  <2> QED BY <1>1, <2>1, <2>2, <2>3, Zenon
<1>3. {FtlModel, FtlWrite, Hot, FullRandom, NoTrim, WithTrim, Mixed} \subseteq PlainScripts
  BY Zenon DEF PlainScripts
<1>4. \A who \in {"07", "08", "10_hot", "10_full", "11_no_trim", "11_trim", "12_mixed"} :
         who # "09_collected" /\ who # "09_clean"
  OBVIOUS
<1>5. CASE s \in {<<"07", FtlModel>>, <<"08", FtlWrite>>, <<"10_hot", Hot>>, <<"10_full", FullRandom>>}
  BY <1>1, <1>3, <1>4, <1>5, Zenon
<1>6. CASE s \in {<<"11_no_trim", NoTrim>>, <<"11_trim", WithTrim>>, <<"12_mixed", Mixed>>}
  BY <1>1, <1>3, <1>4, <1>6, Zenon
<1> QED BY <1>2, <1>5, <1>6, Zenon DEF Scripts

(* Every main makes calls the drive has, on LBAs it has. *)
LEMMA ScriptsAreScripts ==
    ASSUME SixteenLbas
    PROVE  \A s \in Scripts : s[2] \in Seq(AnyCall)
<1> SUFFICES ASSUME NEW s \in Scripts PROVE s[2] \in Seq(AnyCall)
  OBVIOUS
<1>1. CASE s[2] \in PlainScripts
  BY <1>1, PlainScriptsArePlain, PlainIsAny
<1>2. CASE s = <<"09_collected", GarbageCollect>>
  BY <1>2, GarbageCollectCalls
<1>3. CASE s = <<"09_clean", CleanDrive>>
  BY <1>3, CleanDriveCalls
<1> QED BY <1>1, <1>2, <1>3, ScriptsByKind

(* One turn of a call leaves a script of the same calls. *)
LEMMA AdvanceKeepsCalls ==
    ASSUME NEW D, NEW L, script \in Seq(Calls(D, L)), script # <<>>, Advance
    PROVE  script' \in Seq(Calls(D, L))
<1> DEFINE C == Calls(D, L)
           h == Head(script)
<1>1. h \in C /\ Tail(script) \in Seq(C)
  BY HeadTailProperties
<1>2. CASE h.times = 1
  BY <1>1, <1>2 DEF Advance
<1>3. CASE h.times # 1
  <2>1. h.times \in Nat \ {0}
    BY <1>1 DEF Calls
  <2>2. h.times - 1 \in Nat \ {0}
    BY <1>3, <2>1
  <2>3. [h EXCEPT !.times = @ - 1] \in C
    BY <1>1, <2>2 DEF Calls
  <2>4. <<[h EXCEPT !.times = @ - 1]>> \in Seq(C)
    BY <2>3
  <2>5. script' = <<[h EXCEPT !.times = @ - 1]>> \o Tail(script)
    BY <1>3 DEF Advance
  <2> QED BY <1>1, <2>4, <2>5, ConcatProperties
<1> QED BY <1>2, <1>3

-----------------------------------------------------------------------------
(* The map, between calls and within *)

LEMMA ScriptInitEstablishesInv ==
    ASSUME SixteenLbas
    PROVE  ScriptInit => ScriptInv
<1>1. ScriptInit => MapInv
  BY InitEstablishesMapInv DEF ScriptInit
<1>2. ScriptInit => ScriptTypeOK
  BY ScriptsAreScripts DEF ScriptInit, ScriptTypeOK
<1> QED BY <1>1, <1>2 DEF ScriptInv

LEMMA CallsStayTyped ==
    ASSUME ScriptTypeOK, ScriptNext \/ UNCHANGED <<vars, scriptVars>>
    PROVE  ScriptTypeOK'
<1> USE DEF ScriptTypeOK
<1>1. ASSUME script # <<>>, Advance PROVE script' \in Seq(AnyCall)
  BY <1>1, AdvanceKeepsCalls DEF AnyCall
<1>2. ASSUME NEW call, IsNextCall(call), Advance, by_hand' = by_hand PROVE ScriptTypeOK'
  BY <1>1, <1>2 DEF IsNextCall
<1>3. CASE HostWrite \/ WriteNoGc \/ HostTrim \/ HostReset
  BY <1>2, <1>3, Zenon DEF HostWrite, WriteNoGc, HostTrim, HostReset
<1>4. CASE CollectByHand
  <2>1. CASE by_hand' = TRUE /\ pc' = "copy" /\ script' = script /\ script # <<>>
    BY <2>1
  <2>2. CASE Advance /\ by_hand' = by_hand
    BY <1>2, <1>4, <2>2 DEF CollectByHand
  <2> QED BY <1>4, <2>1, <2>2 DEF CollectByHand, IsNextCall
<1>5. CASE ReturnToMain
  BY <1>1, <1>5 DEF ReturnToMain
<1>6. CASE InsideCall
  <2>1. script' = script /\ by_hand' = by_hand
    BY <1>6 DEF InsideCall, scriptVars
  <2>2. by_hand => pc' # "idle"
    BY <1>6 DEF InsideCall, CopyPage, EraseVictim
  <2> QED BY <2>1, <2>2
<1>7. CASE UNCHANGED <<vars, scriptVars>>
  BY <1>7 DEF vars, scriptVars
<1> QED BY <1>3, <1>4, <1>5, <1>6, <1>7 DEF ScriptNext, Exit

LEMMA ScriptStepKeepsInv ==
    ASSUME ScriptInv, ScriptNext \/ UNCHANGED <<vars, scriptVars>>
    PROVE  ScriptInv'
<1> USE DEF ScriptInv
<1>1. ScriptTypeOK'
  BY CallsStayTyped
<1>2. MapInv'
  <2>1. host_writes \in Nat /\ nand_writes \in Nat /\ host_writes + 1 \in Nat
    BY DEF MapInv, TypeOK
  <2>2. ASSUME NEW call, IsNextCall(call) PROVE Head(script).lbas \in SUBSET LBA
    <3>1. Head(script) \in AnyCall
      BY <2>2, HeadTailProperties DEF IsNextCall, ScriptTypeOK
    <3> QED BY <3>1 DEF AnyCall, Calls
  <2>3. CASE HostWrite
    <3>1. PICK l \in Head(script).lbas : Write(l)
      BY <2>3 DEF HostWrite
    <3>2. l \in LBA
      BY <2>2, <2>3, <3>1 DEF HostWrite
    <3>3. PICK b \in Block : IsTarget(b) /\ Program(l, Retire(l), b)
      BY <3>1 DEF Write
    <3>4. /\ pc = "idle" /\ pc' = "collect" /\ host_writes' = host_writes + 1
          /\ UNCHANGED <<erases, victim, cursor>>
      BY <3>1 DEF Write
    <3> QED BY <2>1, <3>2, <3>3, <3>4, HostProgramKeepsMapInv
  <2>4. CASE WriteNoGc
    <3>1. PICK l \in Head(script).lbas, b \in Block : IsTarget(b) /\ Program(l, Retire(l), b)
      BY <2>4 DEF WriteNoGc
    <3>2. l \in LBA
      BY <2>2, <2>4, <3>1 DEF WriteNoGc
    <3>3. /\ pc = "idle" /\ pc' = pc /\ host_writes' = host_writes + 1
          /\ UNCHANGED <<erases, victim, cursor>>
      BY <2>4 DEF WriteNoGc, IsNextCall
    <3> QED BY <2>1, <3>1, <3>2, <3>3, HostProgramKeepsMapInv
  <2>5. CASE HostTrim
    <3>1. PICK l \in Head(script).lbas : Trim(l)
      BY <2>5 DEF HostTrim
    <3>2. l \in LBA
      BY <2>2, <2>5, <3>1 DEF HostTrim
    <3> QED BY <3>1, <3>2, TrimKeepsMapInv
  <2>6. CASE HostReset
    BY <2>6, QuietStepsKeepMapInv DEF HostReset, ResetCounters
  <2>7. CASE CollectByHand
    <3>1. /\ pc = "idle"
          /\ UNCHANGED <<state, lba, next, erases, map, active, host_writes, nand_writes>>
      BY <2>7 DEF CollectByHand, IsNextCall
    <3>2. CASE UNCHANGED <<pc, victim, cursor>>
      BY <2>1, <3>1, <3>2, QuietStepsKeepMapInv
    <3>3. CASE cursor' = 0 /\ pc' = "copy" /\ \E b \in Block : IsVictim(b) /\ victim' = b
      BY <3>1, <3>3, StartKeepsMapInv
    <3> QED BY <2>7, <3>2, <3>3 DEF CollectByHand
  <2>8. CASE ReturnToMain
    BY <2>1, <2>8, QuietStepsKeepMapInv DEF ReturnToMain
  <2>9. CASE CopyPage \/ EraseVictim
    BY <2>9, CopyPageKeepsMapInv, EraseVictimKeepsMapInv
  <2>10. CASE StartCollection
    <3>1. PICK b \in Block : IsVictim(b) /\ victim' = b
      BY <2>10 DEF StartCollection
    <3>2. pc = "collect" /\ pc' = "copy" /\ cursor' = 0
          /\ UNCHANGED <<state, lba, next, erases, map, active, host_writes, nand_writes>>
      BY <2>10 DEF StartCollection
    <3> QED BY <3>1, <3>2, StartKeepsMapInv
  <2>11. CASE FinishWrite
    BY <2>1, <2>11, QuietStepsKeepMapInv DEF FinishWrite
  <2>12. CASE UNCHANGED vars
    BY <2>1, <2>12, QuietStepsKeepMapInv DEF vars
  <2> QED BY <2>3, <2>4, <2>5, <2>6, <2>7, <2>8, <2>9, <2>10, <2>11, <2>12
          DEF ScriptNext, InsideCall, Exit
<1> QED BY <1>1, <1>2

(* Between calls the LBAs that are mapped and the Valid pages are paired   *)
(* off by map.                                                             *)
LEMMA MapIsConsistent ==
    ASSUME MapInv, pc = "idle"
    PROVE  Consistent
<1> DEFINE Mapped == {l \in LBA : map[l] # None}
           Live == {ppn \in Ppn : state[ppn] = "Valid"}
           m == [l \in Mapped |-> map[l]]
<1>1. m \in Injection(Mapped, Live)
  <2>1. \A l \in Mapped : map[l] \in Live /\ lba[map[l]] = l
    BY DEF MapInv, TypeOK, MapPointsAtOwnPage
  <2> QED BY <2>1 DEF Injection, IsInjective
<1>2. \A ppn \in Live : \E l \in Mapped : m[l] = ppn
  <2> SUFFICES ASSUME NEW ppn \in Live PROVE \E l \in Mapped : m[l] = ppn
    OBVIOUS
  <2>1. lba[ppn] \in LBA /\ map[lba[ppn]] = ppn
    BY DEF MapInv, ValidPagesAreMapped
  <2>2. ppn # None
    BY NoneAssumption
  <2> QED BY <2>1, <2>2
<1>3. ExistsBijection(Mapped, Live)
  BY <1>1, <1>2 DEF ExistsBijection, Bijection, Surjection, Injection
<1>4. IsFiniteSet(Mapped)
  BY FS_Subset, GeometryAssumption
<1>5. Cardinality(Live) = Cardinality(Mapped)
  BY <1>3, <1>4, FS_Bijection
<1> QED BY <1>5 DEF Consistent, MapInv

(* MapInv holds in the mains too, whose collections by hand and writes     *)
(* without a collection keep no reserve.                                   *)
THEOREM ScriptsKeepTheMap ==
    ASSUME SixteenLbas
    PROVE  ScriptSpec => []ScriptInv
BY ScriptInitEstablishesInv, ScriptStepKeepsInv, PTL DEF ScriptSpec

(* ConsistentBetweenCalls: consistent() holds between any two calls of the *)
(* mains, on drives of every geometry.                                     *)
THEOREM MainsStayConsistent ==
    ASSUME SixteenLbas
    PROVE  ScriptSpec => []ConsistentBetweenCalls
<1>1. ScriptInv => ConsistentBetweenCalls
  BY MapIsConsistent DEF ScriptInv, ConsistentBetweenCalls
<1> QED BY <1>1, ScriptsKeepTheMap, PTL

-----------------------------------------------------------------------------
(* One hot LBA *)

LEMMA HotInit ==
    ASSUME ScriptInit
    PROVE  HotInv
<1> SUFFICES ASSUME IsHot
             PROVE  /\ OnlyHotCalls
                    /\ OnlyHotIsMapped
                    /\ OpenBlockIsLive
                    /\ nand_writes = host_writes
                    /\ WearIsInOrder
                    /\ VictimIsLeastWorn
  BY DEF HotInv
<1>1. PICK s \in Scripts : name = s[1] /\ script = s[2]
  BY DEF ScriptInit
<1>2. s \in {<<"08", FtlWrite>>, <<"10_hot", Hot>>}
  <2>1. \A x, y : <<x, y>>[1] = x
    OBVIOUS
  <2>2. s[1] \in {"08", "10_hot"}
    BY <1>1 DEF IsHot
  <2>3. \A x : /\ <<"07", x>>[1] = "07" /\ <<"09_collected", x>>[1] = "09_collected"
              /\ <<"09_clean", x>>[1] = "09_clean" /\ <<"10_full", x>>[1] = "10_full"
              /\ <<"11_no_trim", x>>[1] = "11_no_trim" /\ <<"11_trim", x>>[1] = "11_trim"
              /\ <<"12_mixed", x>>[1] = "12_mixed" /\ <<"10_steady", x>>[1] = "10_steady"
    BY <2>1
  <2>4. \A x : /\ s # <<"07", x>> /\ s # <<"09_collected", x>> /\ s # <<"09_clean", x>>
              /\ s # <<"10_full", x>> /\ s # <<"11_no_trim", x>> /\ s # <<"11_trim", x>>
              /\ s # <<"12_mixed", x>> /\ s # <<"10_steady", x>>
    BY <2>2, <2>3
  <2> QED BY <2>4, Zenon DEF Scripts
<1>3. Call("write", {7}, 8) \in HotCall /\ Call("write", {7}, 12) \in HotCall
      /\ Call("write", {7}, HotRounds) \in HotCall
  BY RoundsAssumption DEF Call, HotCall, Calls
<1>4. OnlyHotCalls
  <2>1. \A x, y : <<x, y>>[2] = y
    OBVIOUS
  <2>2. script \in {FtlWrite, Hot}
    BY <1>1, <1>2, <2>1, Zenon
  <2>3. FtlWrite \in Seq(HotCall) /\ Hot \in Seq(HotCall)
    BY <1>3 DEF FtlWrite, Hot
  <2> QED BY <2>2, <2>3 DEF OnlyHotCalls, ScriptInit
<1>5. Init
  BY DEF ScriptInit
<1>6. OnlyHotIsMapped /\ OpenBlockIsLive /\ VictimIsLeastWorn /\ nand_writes = host_writes
  BY <1>5 DEF Init, OnlyHotIsMapped, OpenBlockIsLive, VictimIsLeastWorn
<1>7. WearIsInOrder
  <2>1. active \in Block /\ \A b \in Block : erases[b] = 0
    BY <1>5, GeometryAssumption DEF Init, Block
  <2>2. FullBlocks \subseteq Block /\ ErasedBlocks \subseteq Block
    BY DEF FullBlocks, ErasedBlocks
  <2> QED BY <2>1, <2>2 DEF WearIsInOrder
<1> QED BY <1>4, <1>6, <1>7

(* Opening a block: the least worn of the erased ones. *)
LEMMA OpenKeepsOrder ==
    ASSUME MapInv, WearIsInOrder, ~Naive, NEW l, NEW before, NEW b \in Block, IsTarget(b),
           Program(l, before, b), erases' = erases
    PROVE  WearIsInOrder'
<1>1. active' = b /\ next' = [next EXCEPT ![b] = @ + 1]
  BY DEF Program
<1>2. /\ active \in Block /\ next \in [Block -> 0 .. PAGES] /\ erases \in [Block -> Nat]
      /\ PAGES \in Nat /\ PAGES > 0
  BY GeometryAssumption DEF MapInv, TypeOK
<1>3. \A c, d \in Block : erases'[c] <= erases'[d] + 1
  BY DEF WearIsInOrder
<1>4. CASE b = active
  <2>1. FullBlocks' = FullBlocks /\ ErasedBlocks' = ErasedBlocks
    BY <1>1, <1>2, <1>4 DEF FullBlocks, ErasedBlocks, Block
  <2> QED BY <1>1, <1>3, <1>4, <2>1 DEF WearIsInOrder
<1>5. CASE b # active
  <2>1. IsErasedBlock(b) /\ b \in ErasedBlocks /\ next[active] = PAGES
    BY <1>5 DEF IsTarget, IsErasedBlock
  <2>2. ASSUME NEW c \in ErasedBlocks PROVE erases[b] <= erases[c]
    <3>1. erases[b] < erases[c] \/ erases[b] = erases[c]
      BY <2>1, <2>2 DEF IsErasedBlock
    <3>2. erases[b] \in Nat /\ erases[c] \in Nat
      BY <1>2, <2>1 DEF ErasedBlocks
    <3> QED BY <3>1, <3>2
  <2>3. \A f \in FullBlocks' : f \in FullBlocks \/ f = active
    BY <1>1, <1>2, <1>5 DEF FullBlocks, Block
  <2>4. \A e \in ErasedBlocks' : e \in ErasedBlocks
    BY <1>1, <1>2, <1>5, <2>1 DEF ErasedBlocks, Block
  <2>5. \A f \in FullBlocks' : erases[f] <= erases[b]
    BY <2>1, <2>3 DEF WearIsInOrder
  <2>6. \A e \in ErasedBlocks' : erases[b] <= erases[e]
    BY <2>2, <2>4
  <2>7. \A f \in FullBlocks', e \in ErasedBlocks' : erases[f] <= erases[e]
    BY <2>3, <2>4 DEF WearIsInOrder
  <2> QED BY <1>1, <1>3, <2>5, <2>6, <2>7 DEF WearIsInOrder
<1> QED BY <1>4, <1>5

(* Erasing the least worn of the full blocks: nobody falls a lap behind. *)
LEMMA EraseKeepsOrder ==
    ASSUME MapInv, WearIsInOrder, VictimIsLeastWorn, EraseVictim
    PROVE  WearIsInOrder'
<1>1. /\ pc = "copy" /\ active' = active /\ next' = [next EXCEPT ![victim] = 0]
      /\ erases' = [erases EXCEPT ![victim] = @ + 1]
  BY DEF EraseVictim
<1>2. /\ active \in Block /\ next \in [Block -> 0 .. PAGES] /\ erases \in [Block -> Nat]
      /\ victim \in Block /\ victim # active /\ next[victim] = PAGES
      /\ PAGES \in Nat /\ PAGES > 0
  BY <1>1, GeometryAssumption DEF MapInv, TypeOK, VictimIsClosed
<1>3. victim \in FullBlocks
  BY <1>2 DEF FullBlocks
<1>4. ASSUME NEW c \in Block PROVE erases[victim] <= erases[c]
  <2>1. CASE c = active
    BY <1>3, <2>1 DEF WearIsInOrder
  <2>2. CASE c # active /\ next[c] = 0
    BY <1>3, <2>2 DEF WearIsInOrder, ErasedBlocks
  <2>3. CASE c # active /\ next[c] # 0
    BY <1>1, <2>3 DEF VictimIsLeastWorn, FullBlocks
  <2> QED BY <2>1, <2>2, <2>3
<1>5. \A f \in FullBlocks' : f \in FullBlocks /\ f # victim
  BY <1>1, <1>2 DEF FullBlocks, Block
<1>6. \A e \in ErasedBlocks' : e \in ErasedBlocks \/ e = victim
  BY <1>1, <1>2 DEF ErasedBlocks, Block
<1>7. /\ erases'[victim] = erases[victim] + 1
      /\ \A c \in Block \ {victim} : erases'[c] = erases[c]
      /\ \A c \in Block : erases[c] \in Nat
  BY <1>1, <1>2
<1>8. \A c \in Block : erases[c] <= erases[victim] + 1
  BY <1>2 DEF WearIsInOrder
<1>9. ASSUME NEW f \in FullBlocks' PROVE erases'[f] <= erases'[active']
  <2>1. f \in FullBlocks /\ f \in Block /\ f # victim
    BY <1>5, <1>9 DEF FullBlocks
  <2>2. erases[f] <= erases[active]
    BY <2>1 DEF WearIsInOrder
  <2> QED BY <1>1, <1>2, <1>7, <2>1, <2>2
<1>10. ASSUME NEW e \in ErasedBlocks', NEW c \in FullBlocks' \cup {active'}
       PROVE  erases'[c] <= erases'[e]
  <2>1. c \in Block /\ c # victim /\ (c \in FullBlocks \/ c = active)
    BY <1>1, <1>2, <1>5, <1>10 DEF FullBlocks
  <2>2. CASE e = victim
    BY <1>7, <1>8, <2>1, <2>2
  <2>3. CASE e # victim
    <3>1. e \in ErasedBlocks /\ e \in Block
      BY <1>6, <2>3 DEF ErasedBlocks
    <3>2. erases[c] <= erases[e]
      BY <2>1, <3>1 DEF WearIsInOrder
    <3> QED BY <1>7, <2>1, <2>3, <3>1, <3>2
  <2> QED BY <2>2, <2>3
<1>11. ASSUME NEW c \in Block, NEW d \in Block PROVE erases'[c] <= erases'[d] + 1
  <2>1. erases[c] <= erases[d] + 1
    BY DEF WearIsInOrder
  <2>2. erases[victim] <= erases[d]
    BY <1>4
  <2> QED BY <1>7, <2>1, <2>2
<1> QED BY <1>9, <1>10, <1>11 DEF WearIsInOrder

(* With one live page, in the open block, every full block is stale as a   *)
(* whole: victim() is left to compare wear.                                *)
LEMMA VictimIsLeastWornAtStart ==
    ASSUME MapInv, OpenBlockIsLive, ~Naive, NEW v \in Block, IsVictim(v), NEW f \in FullBlocks
    PROVE  erases[v] <= erases[f]
<1>1. PAGES \in Nat /\ PAGES > 0 /\ next \in [Block -> 0 .. PAGES] /\ erases \in [Block -> Nat]
  BY GeometryAssumption DEF MapInv, TypeOK
<1>2. ASSUME NEW b \in FullBlocks PROVE StalePages(b) = Page
  <2>1. b \in Block /\ b # active /\ next[b] = PAGES
    BY DEF FullBlocks, MapInv, BlocksFillInOrder
  <2>2. ASSUME NEW p \in Page PROVE state[<<b, p>>] = "Stale"
    <3>1. <<b, p>> \in Ppn
      BY <2>1 DEF Ppn
    <3>2. state[<<b, p>>] # "Free"
      BY <1>1, <2>1 DEF MapInv, BlocksFillInOrder, Page
    <3>3. state[<<b, p>>] # "Valid"
      BY <2>1, <3>1 DEF OpenBlockIsLive
    <3> QED BY <3>1, <3>2, <3>3 DEF MapInv, TypeOK
  <2> QED BY <2>2 DEF StalePages
<1>3. v \in FullBlocks
  <2>1. v # active /\ \E p \in Page : state[<<v, p>>] = "Stale"
    BY DEF IsVictim, Collectable, StalePages
  <2>2. PICK p \in Page : state[<<v, p>>] = "Stale"
    BY <2>1
  <2>3. next[v] # 0
    BY <1>1, <2>2 DEF MapInv, BlocksFillInOrder, Page
  <2> QED BY <2>1, <2>3 DEF FullBlocks
<1>4. f \in Collectable
  <2>1. f \in Block \ {active} /\ StalePages(f) = Page
    BY <1>2 DEF FullBlocks
  <2>2. 0 \in Page
    BY <1>1 DEF Page
  <2> QED BY <2>1, <2>2 DEF Collectable
<1>5. Cardinality(Page) = PAGES
  BY GeometryAssumption, FS_Interval DEF Page
<1>6. erases[v] < erases[f] \/ erases[v] = erases[f]
  BY <1>1, <1>2, <1>3, <1>4, <1>5 DEF IsVictim
<1>7. erases[v] \in Nat /\ erases[f] \in Nat
  BY <1>1 DEF FullBlocks
<1> QED BY <1>6, <1>7

LEMMA HotWriteKeepsInv ==
    ASSUME SixteenLbas, ScriptInv, HotInv, IsHot, ~Naive, HostWrite
    PROVE  HotInv'
<1> USE DEF ScriptInv, MapInv, HotInv
<1>1. /\ IsNextCall("write") /\ Advance /\ UNCHANGED <<collected, by_hand>>
      /\ script # <<>> /\ pc = "idle"
  BY DEF HostWrite, IsNextCall
<1>2. Head(script) \in HotCall
  BY <1>1, HeadTailProperties DEF OnlyHotCalls
<1>3. Write(7)
  BY <1>2 DEF HostWrite, HotCall, Calls
<1>4. 7 \in LBA
  BY DEF SixteenLbas
<1>5. PICK b \in Block : IsTarget(b) /\ Program(7, Retire(7), b)
  BY <1>3 DEF Write
<1>6. pc' = "collect" /\ host_writes' = host_writes + 1 /\ erases' = erases
  BY <1>3 DEF Write
<1> DEFINE new == <<b, next[b]>>
<1>7. /\ state' = [Retire(7) EXCEPT ![new] = "Valid"] /\ map' = [map EXCEPT ![7] = new]
      /\ active' = b /\ nand_writes' = nand_writes + 1
  BY <1>5 DEF Program
<1>8. OnlyHotCalls'
  BY <1>1, AdvanceKeepsCalls DEF OnlyHotCalls, HotCall
<1>9. OnlyHotIsMapped'
  BY <1>7 DEF OnlyHotIsMapped, TypeOK
<1>10. OpenBlockIsLive'
  <2> SUFFICES ASSUME NEW ppn \in Ppn, state'[ppn] = "Valid", ppn # new PROVE FALSE
    BY <1>7 DEF OpenBlockIsLive
  <2>1. Retire(7)[ppn] = "Valid"
    BY <1>7 DEF Retire, TypeOK
  <2>2. ppn # map[7] /\ state[ppn] = "Valid"
    BY <2>1, NoneAssumption DEF Retire, TypeOK
  <2>3. lba[ppn] \in LBA /\ map[lba[ppn]] = ppn
    BY <1>1, <2>2 DEF ValidPagesAreMapped
  <2>4. lba[ppn] = 7
    BY <2>3, NoneAssumption DEF OnlyHotIsMapped
  <2> QED BY <2>2, <2>3, <2>4
<1>11. nand_writes' = host_writes'
  BY <1>6, <1>7
<1>12. WearIsInOrder'
  BY <1>5, <1>6, OpenKeepsOrder
<1>13. VictimIsLeastWorn'
  BY <1>6 DEF VictimIsLeastWorn
<1> QED BY <1>8, <1>9, <1>10, <1>11, <1>12, <1>13

LEMMA HotStepKeepsInv ==
    ASSUME SixteenLbas, ScriptInv, HotInv, ~Naive, ScriptNext \/ UNCHANGED <<vars, scriptVars>>
    PROVE  HotInv'
<1> SUFFICES ASSUME IsHot PROVE HotInv'
  <2>1. name' = name
    BY DEF ScriptNext, HostWrite, WriteNoGc, HostTrim, HostReset, CollectByHand, ReturnToMain,
           InsideCall, Exit, Advance, scriptVars
  <2> QED BY <2>1 DEF HotInv, IsHot
<1>1. OnlyHotCalls /\ OnlyHotIsMapped /\ OpenBlockIsLive /\ nand_writes = host_writes
      /\ WearIsInOrder /\ VictimIsLeastWorn /\ MapInv
  BY DEF HotInv, ScriptInv
<1>2. ASSUME NEW call, IsNextCall(call) PROVE call = "write"
  <2>1. Head(script) \in HotCall
    BY <1>1, <1>2, HeadTailProperties DEF OnlyHotCalls, IsNextCall
  <2> QED BY <1>2, <2>1 DEF HotCall, Calls, IsNextCall
<1>3. ~WriteNoGc /\ ~HostTrim /\ ~HostReset /\ ~CollectByHand /\ ~ReturnToMain
  BY <1>1, <1>2 DEF WriteNoGc, HostTrim, HostReset, CollectByHand, ReturnToMain, OnlyHotCalls
<1>4. ASSUME UNCHANGED scriptVars,
             UNCHANGED <<state, next, erases, map, active, host_writes, nand_writes>>,
             VictimIsLeastWorn'
      PROVE  HotInv'
  <2>1. OnlyHotCalls' /\ OnlyHotIsMapped' /\ OpenBlockIsLive' /\ nand_writes' = host_writes'
    BY <1>1, <1>4 DEF OnlyHotCalls, OnlyHotIsMapped, OpenBlockIsLive, scriptVars
  <2>2. WearIsInOrder'
    BY <1>1, <1>4 DEF WearIsInOrder, FullBlocks, ErasedBlocks
  <2> QED BY <1>4, <2>1, <2>2 DEF HotInv
<1>5. CASE HostWrite
  BY <1>5, HotWriteKeepsInv
<1>6. CASE InsideCall /\ StartCollection
  <2>1. PICK v \in Block : IsVictim(v) /\ victim' = v
    BY <1>6 DEF StartCollection
  <2>2. UNCHANGED <<state, next, erases, map, active, host_writes, nand_writes>>
    BY <1>6 DEF StartCollection
  <2>3. VictimIsLeastWorn'
    BY <1>1, <2>1, <2>2, VictimIsLeastWornAtStart DEF VictimIsLeastWorn, FullBlocks
  <2> QED BY <1>4, <1>6, <2>2, <2>3 DEF InsideCall
<1>7. CASE InsideCall /\ FinishWrite
  <2>1. UNCHANGED <<state, next, erases, map, active, host_writes, nand_writes>> /\ pc' = "idle"
    BY <1>7 DEF FinishWrite
  <2> QED BY <1>4, <1>7, <2>1 DEF InsideCall, VictimIsLeastWorn
<1>8. CASE InsideCall /\ CopyPage
  <2>1. state[<<victim, cursor>>] # "Valid"
    <3>1. <<victim, cursor>> \in Ppn /\ victim # active
      BY <1>1, <1>8, GeometryAssumption DEF CopyPage, MapInv, TypeOK, VictimIsClosed, Ppn, Page
    <3> QED BY <1>1, <3>1 DEF OpenBlockIsLive
  <2>2. /\ UNCHANGED <<state, next, erases, map, active, host_writes, nand_writes, victim>>
        /\ pc = "copy"
    BY <1>8, <2>1 DEF CopyPage
  <2>3. VictimIsLeastWorn'
    BY <1>1, <2>2 DEF VictimIsLeastWorn, FullBlocks
  <2> QED BY <1>4, <1>8, <2>2, <2>3 DEF InsideCall
<1>9. CASE InsideCall /\ EraseVictim
  <2>1. /\ pc' = "collect" /\ UNCHANGED scriptVars
        /\ UNCHANGED <<map, active, host_writes, nand_writes>>
        /\ state' = [ppn \in Ppn |-> IF ppn[1] = victim THEN "Free" ELSE state[ppn]]
    BY <1>9 DEF EraseVictim, InsideCall
  <2>2. OnlyHotCalls' /\ OnlyHotIsMapped' /\ OpenBlockIsLive' /\ nand_writes' = host_writes'
    BY <1>1, <2>1 DEF OnlyHotCalls, OnlyHotIsMapped, OpenBlockIsLive, scriptVars
  <2>3. WearIsInOrder' /\ VictimIsLeastWorn'
    BY <1>1, <1>9, <2>1, EraseKeepsOrder DEF VictimIsLeastWorn
  <2> QED BY <2>2, <2>3 DEF HotInv
<1>10. CASE UNCHANGED <<vars, scriptVars>>
  <2>1. UNCHANGED <<state, next, erases, map, active, host_writes, nand_writes>>
        /\ UNCHANGED scriptVars /\ UNCHANGED <<pc, victim>>
    BY <1>10 DEF vars
  <2>2. VictimIsLeastWorn'
    BY <1>1, <2>1 DEF VictimIsLeastWorn, FullBlocks
  <2> QED BY <1>4, <2>1, <2>2
<1> QED BY <1>3, <1>5, <1>6, <1>7, <1>8, <1>9, <1>10 DEF ScriptNext, InsideCall, Exit

(* HotDataWearsEvenly: with wear leveling on, one hot LBA costs nothing    *)
(* but its own writes and wears all blocks to within one erase, on drives  *)
(* of every geometry and over any number of rounds.                        *)
THEOREM HotDataStaysEven ==
    ASSUME SixteenLbas, ~Naive
    PROVE  ScriptSpec => []HotDataWearsEvenly
<1>1. HotInv => HotDataWearsEvenly
  BY DEF HotInv, HotDataWearsEvenly, IsHot, WearIsInOrder
<1>2. ScriptInv /\ HotInv /\ [ScriptNext]_<<vars, scriptVars>> => HotInv'
  BY HotStepKeepsInv
<1>3. ScriptInit => HotInv
  BY HotInit
<1> QED BY <1>1, <1>2, <1>3, ScriptsKeepTheMap, PTL DEF ScriptSpec
-----------------------------------------------------------------------------
(* The mains that exit with 0 *)

(* The mains of sample 09 fit drives of other geometries too: the 20 pages *)
(* they write need more than one block and leave one block over.           *)
SampleGeometry ==
    /\ SixteenLbas
    /\ PAGES < 20
    /\ (BLOCKS - 1) * PAGES >= 20

LEMMA NextOfRest ==
    ASSUME script \in Seq(AnyCall), NEW calls \in Seq(AnyCall), RemainsOf(calls), script # <<>>
    PROVE  /\ Len(script) \in 1..Len(calls)
           /\ Head(script) = calls[Len(calls) - Len(script) + 1]
<1>1. Len(script) \in 1..Len(calls) /\ Head(script) = script[1]
  BY EmptySeq, LenProperties, HeadTailProperties DEF RemainsOf
<1> QED BY <1>1 DEF RemainsOf

LEMMA RestShrinks ==
    ASSUME script \in Seq(AnyCall), NEW calls \in Seq(AnyCall), RemainsOf(calls), script # <<>>,
           Head(script).times = 1, Advance
    PROVE  Len(script') = Len(script) - 1 /\ RemainsOf(calls)'
<1>1. script' = Tail(script)
  BY DEF Advance
<1>2. /\ Len(script) \in Nat \ {0} /\ Len(calls) \in Nat
      /\ Len(script') = Len(script) - 1
      /\ \A i \in 1..Len(script') : script'[i] = script[i + 1]
  BY <1>1, NextOfRest, LenProperties, HeadTailProperties
<1>3. ASSUME NEW i \in 1..Len(script')
      PROVE  script'[i] = calls[Len(calls) - Len(script') + i]
  <2>1. i + 1 \in 1..Len(script) /\ Len(calls) - Len(script') + i = Len(calls) - Len(script) + (i + 1)
    BY <1>2
  <2> QED BY <1>2, <2>1 DEF RemainsOf
<1> QED BY <1>2, <1>3 DEF RemainsOf

(* Sample 09 by the number of calls made before. *)
LEMMA CallsByNumber ==
    ASSUME SixteenLbas
    PROVE  /\ \A m \in 0..3 : CleanDrive[m + 1] = Call("write", {m}, 1)
           /\ \A m \in 0..15 : GarbageCollect[m + 1] = Call("write", {m}, 1)
           /\ \A m \in 16..19 :
                 GarbageCollect[m + 1] = Call("write_no_gc", {<<0, 1, 2, 5>>[m - 15]}, 1)
<1>1. ASSUME NEW m \in 0..3 PROVE CleanDrive[m + 1] = Call("write", {m}, 1)
  <2>1. m + 1 \in 1..4 /\ (m + 1) - 1 = m
    OBVIOUS
  <2>2. CleanDrive[m + 1] = Call("write", {(m + 1) - 1}, 1)
    BY <2>1, CleanDriveCalls, Zenon
  <2> QED BY <2>1, <2>2, Zenon
<1>2. ASSUME NEW m \in 0..15 PROVE GarbageCollect[m + 1] = Call("write", {m}, 1)
  <2>1. m + 1 \in 1..16 /\ (m + 1) - 1 = m
    OBVIOUS
  <2>2. GarbageCollect[m + 1] = Call("write", {(m + 1) - 1}, 1)
    BY <2>1, GarbageCollectCalls, Zenon
  <2> QED BY <2>1, <2>2, Zenon
<1>3. ASSUME NEW m \in 16..19
      PROVE  GarbageCollect[m + 1] = Call("write_no_gc", {<<0, 1, 2, 5>>[m - 15]}, 1)
  <2>1. m + 1 \in 17..20 /\ (m + 1) - 16 = m - 15
    OBVIOUS
  <2>2. GarbageCollect[m + 1] = Call("write_no_gc", {<<0, 1, 2, 5>>[(m + 1) - 16]}, 1)
    BY <2>1, GarbageCollectCalls, Zenon
  <2> QED BY <2>1, <2>2, Zenon
<1> QED BY <1>1, <1>2, <1>3

(* Which call comes next. *)
LEMMA NextOfClean ==
    ASSUME SixteenLbas, script \in Seq(AnyCall), RemainsOf(CleanDrive), script # <<>>
    PROVE  \E made \in 0..4 :
             /\ Len(script) = 5 - made
             /\ made < 4 => Head(script) = Call("write", {made}, 1)
             /\ made = 4 => Head(script) = Collect
<1>1. Len(script) \in 1..5 /\ Head(script) = CleanDrive[5 - Len(script) + 1]
  <2>1. CleanDrive \in Seq(AnyCall) /\ Len(CleanDrive) = 5
    BY CleanDriveCalls, Zenon
  <2>2. /\ Len(script) \in 1..Len(CleanDrive)
        /\ Head(script) = CleanDrive[Len(CleanDrive) - Len(script) + 1]
    BY <2>1, NextOfRest, Zenon
  <2> QED BY <2>1, <2>2, Zenon
<1>2. PICK made \in 0..4 : made = 5 - Len(script) /\ Len(script) = 5 - made
  <2>1. \A n \in 1..5 : 5 - n \in 0..4 /\ n = 5 - (5 - n)
    OBVIOUS
  <2> QED BY <1>1, <2>1, Zenon
<1>3. Len(script) = 5 - made /\ Head(script) = CleanDrive[made + 1]
  <2>1. Head(script) = CleanDrive[made + 1]
    BY <1>1, <1>2, Zenon
  <2> QED BY <1>2, <2>1, Zenon
<1>4. made < 4 => CleanDrive[made + 1] = Call("write", {made}, 1)
  <2>1. made < 4 => made \in 0..3
    BY <1>2
  <2> QED BY <2>1, CallsByNumber, Zenon
<1>5. made = 4 => CleanDrive[made + 1] = Collect
  <2>1. CleanDrive[5] = Collect
    BY CleanDriveCalls, Zenon
  <2>2. made = 4 => made + 1 = 5
    OBVIOUS
  <2> QED BY <2>1, <2>2, Zenon
<1> QED BY <1>3, <1>4, <1>5, Zenon

LEMMA NextOfGarbageCollect ==
    ASSUME SixteenLbas, script \in Seq(AnyCall), RemainsOf(GarbageCollect), script # <<>>
    PROVE  \E made \in 0..20 :
             /\ Len(script) = 21 - made
             /\ made < 16 => Head(script) = Call("write", {made}, 1)
             /\ made \in 16..19 =>
                   Head(script) = Call("write_no_gc", {<<0, 1, 2, 5>>[made - 15]}, 1)
             /\ made = 20 => Head(script) = Collect
<1>1. Len(script) \in 1..21 /\ Head(script) = GarbageCollect[21 - Len(script) + 1]
  <2>1. GarbageCollect \in Seq(AnyCall) /\ Len(GarbageCollect) = 21
    BY GarbageCollectCalls, Zenon
  <2>2. /\ Len(script) \in 1..Len(GarbageCollect)
        /\ Head(script) = GarbageCollect[Len(GarbageCollect) - Len(script) + 1]
    BY <2>1, NextOfRest, Zenon
  <2> QED BY <2>1, <2>2, Zenon
<1>2. PICK made \in 0..20 : made = 21 - Len(script) /\ Len(script) = 21 - made
  <2>1. \A n \in 1..21 : 21 - n \in 0..20 /\ n = 21 - (21 - n)
    OBVIOUS
  <2> QED BY <1>1, <2>1, Zenon
<1>3. Len(script) = 21 - made /\ Head(script) = GarbageCollect[made + 1]
  <2>1. Head(script) = GarbageCollect[made + 1]
    BY <1>1, <1>2, Zenon
  <2> QED BY <1>2, <2>1, Zenon
<1>4. made < 16 => GarbageCollect[made + 1] = Call("write", {made}, 1)
  <2>1. \A m \in 0..20 : m < 16 => m \in 0..15
    OBVIOUS
  <2> QED BY <2>1, CallsByNumber, Zenon
<1>5. made \in 16..19 =>
        GarbageCollect[made + 1] = Call("write_no_gc", {<<0, 1, 2, 5>>[made - 15]}, 1)
  BY CallsByNumber, Zenon
<1>6. made = 20 => GarbageCollect[made + 1] = Collect
  <2>1. GarbageCollect[21] = Collect
    BY GarbageCollectCalls, Zenon
  <2>2. made = 20 => made + 1 = 21
    OBVIOUS
  <2> QED BY <2>1, <2>2, Zenon
<1> QED BY <1>3, <1>4, <1>5, <1>6, Zenon

(* What the calls are. *)
LEMMA CallFields ==
    \A op, lbas, n : /\ Call(op, lbas, n).do = op
                     /\ Call(op, lbas, n).lbas = lbas
                     /\ Call(op, lbas, n).times = n
BY DEF Call

LEMMA CollectFields == Collect.do = "collect" /\ Collect.times = 1
BY DEF Collect, Call

-----------------------------------------------------------------------------
(* A drive that has never been erased *)

LEMMA LogGrows ==
    ASSUME MapInv, OneLog, NEW l, NEW before, NEW b \in Block, IsTarget(b),
           Program(l, before, b), erases' = erases
    PROVE  OneLog' /\ nand_writes' = nand_writes + 1
<1>1. /\ active' = b /\ next' = [next EXCEPT ![b] = @ + 1] /\ nand_writes' = nand_writes + 1
  BY DEF Program
<1>2. /\ active \in Block /\ next \in [Block -> 0 .. PAGES]
      /\ PAGES \in Nat /\ PAGES > 0 /\ BLOCKS \in Nat /\ active \in Int /\ b \in Int
  BY GeometryAssumption DEF MapInv, TypeOK, Block
<1>3. CASE next[active] < PAGES
  <2>1. b = active
    BY <1>3, <1>2 DEF IsTarget
  <2>2. active * PAGES \in Int
    BY <1>2
  <2> QED BY <1>1, <1>2, <2>1, <2>2 DEF OneLog
<1>4. CASE next[active] = PAGES
  <2>1. IsErasedBlock(b)
    BY <1>4, <1>2 DEF IsTarget
  <2>2. b # active /\ next[b] = 0 /\ \A c \in ErasedBlocks : b <= c
    BY <2>1 DEF IsErasedBlock, ErasedBlocks, OneLog
  <2>3. b > active
    BY <1>2, <2>2 DEF OneLog
  <2>4. active + 1 \in Block /\ active + 1 > active
    BY <1>2, <2>3 DEF Block
  <2>5. active + 1 \in ErasedBlocks
    BY <2>4, <1>2 DEF OneLog, ErasedBlocks
  <2>6. b = active + 1
    BY <1>2, <2>2, <2>3, <2>5
  <2>7. (active + 1) * PAGES = active * PAGES + PAGES /\ active * PAGES \in Int
    BY <1>2
  <2>8. nand_writes' = active' * PAGES + next'[active']
    BY <1>1, <1>2, <1>4, <2>2, <2>6, <2>7 DEF OneLog
  <2>9. ASSUME NEW c \in Block PROVE (c < b => next'[c] = PAGES) /\ (c > b => next'[c] = 0)
    <3>1. c \in Int
      BY <1>2 DEF Block
    <3> QED BY <1>1, <1>2, <1>4, <2>6, <3>1 DEF OneLog
  <2> QED BY <1>1, <2>8, <2>9 DEF OneLog
<1> QED BY <1>2, <1>3, <1>4

LEMMA LogHasRoom ==
    ASSUME MapInv, OneLog, nand_writes < BLOCKS * PAGES
    PROVE  next[active] < PAGES \/ ErasedBlocks # {}
<1>1. /\ active \in Block /\ next \in [Block -> 0 .. PAGES]
      /\ PAGES \in Nat /\ PAGES > 0 /\ BLOCKS \in Nat /\ active \in Int
  BY GeometryAssumption DEF MapInv, TypeOK, Block
<1> SUFFICES ASSUME next[active] = PAGES PROVE ErasedBlocks # {}
  BY <1>1
<1>2. active # BLOCKS - 1
  <2> SUFFICES ASSUME active = BLOCKS - 1 PROVE FALSE
    OBVIOUS
  <2>1. (BLOCKS - 1) * PAGES + PAGES = BLOCKS * PAGES
    BY <1>1
  <2>2. nand_writes = (BLOCKS - 1) * PAGES + PAGES
    BY DEF OneLog
  <2>3. BLOCKS * PAGES \in Int
    BY <1>1
  <2> QED BY <2>1, <2>2, <2>3
<1>3. active + 1 \in Block /\ active + 1 > active
  BY <1>1, <1>2 DEF Block
<1> QED BY <1>1, <1>3 DEF OneLog, ErasedBlocks

LEMMA LogPosition ==
    ASSUME MapInv, OneLog
    PROVE  /\ nand_writes = 0 => active = 0 /\ next[0] = 0
           /\ nand_writes > PAGES => active # 0
<1>1. /\ active \in Nat /\ next[active] \in 0 .. PAGES
      /\ PAGES \in Nat /\ PAGES > 0 /\ nand_writes = active * PAGES + next[active]
  BY GeometryAssumption DEF MapInv, TypeOK, Block, OneLog
<1>2. active > 0 => active * PAGES >= PAGES
  BY <1>1
<1>3. active = 0 => active * PAGES = 0
  BY <1>1
<1>4. active * PAGES \in Nat
  BY <1>1
<1> QED BY <1>1, <1>2, <1>3, <1>4

LEMMA NothingToCollect ==
    ASSUME NoStalePage
    PROVE  Collectable = {} /\ \A b : ~IsVictim(b)
<1>1. ASSUME NEW b \in Block PROVE StalePages(b) = {}
  BY DEF NoStalePage, StalePages, Ppn
<1> QED BY <1>1 DEF Collectable, IsVictim

(* The first write to an LBA makes no page stale. *)
LEMMA FreshWrite ==
    ASSUME MapInv, NoStalePage, NEW l \in LBA, map[l] = None, NEW b \in Block, IsTarget(b),
           Program(l, Retire(l), b)
    PROVE  NoStalePage'
BY DEF Program, Retire, NoStalePage, MapInv, TypeOK

LEMMA NextLba ==
    ASSUME MapInv, NEW n \in Nat, MappedBelow(n), NEW l \in LBA, l = n, NEW b, NEW before,
           Program(l, before, b)
    PROVE  map[l] = None /\ MappedBelow(n + 1)'
<1>1. n \notin 0..(n - 1)
  OBVIOUS
<1>2. map[l] = None
  BY <1>1 DEF MappedBelow
<1>3. ASSUME NEW k \in LBA, map'[k] # None PROVE k \in 0..n
  <2>1. CASE k = l
    BY <2>1
  <2>2. CASE k # l
    <3>1. map'[k] = map[k]
      BY <2>2 DEF Program, MapInv, TypeOK
    <3>2. k \in 0..(n - 1)
      BY <1>3, <3>1 DEF MappedBelow
    <3> QED BY <3>2
  <2> QED BY <2>1, <2>2
<1> QED BY <1>2, <1>3 DEF MappedBelow

-----------------------------------------------------------------------------
(* The invariant of the mains *)

LEMMA AllIsTheRest ==
    ASSUME NEW calls \in Seq(AnyCall), script = calls
    PROVE  RemainsOf(calls)
<1>1. Len(calls) \in Nat /\ \A i \in 1..Len(calls) : Len(calls) - Len(calls) + i = i
  OBVIOUS
<1> QED BY <1>1 DEF RemainsOf

LEMMA MainsInit ==
    ASSUME SixteenLbas, ScriptInit
    PROVE  MainsInv
<1>1. PICK s \in Scripts : name = s[1] /\ script = s[2]
  BY DEF ScriptInit
<1>2. Init /\ collected = TRUE /\ by_hand = FALSE
  BY DEF ScriptInit
<1>3. OneLog /\ nand_writes = 0 /\ NoStalePage /\ MappedBelow(0) /\ pc = "idle"
  <2>1. nand_writes = active * PAGES + next[active]
    BY <1>2, GeometryAssumption DEF Init, Block
  <2>2. OneLog
    BY <1>2, <2>1, GeometryAssumption DEF OneLog, Init, Block
  <2> QED BY <1>2, <2>2 DEF Init, NoStalePage, MappedBelow
<1>4. CASE name = "09_collected" /\ script = GarbageCollect
  <2>1. script \in Seq(AnyCall) /\ Len(script) = 21
    BY <1>4, GarbageCollectCalls, Zenon
  <2>2. RemainsOf(GarbageCollect) /\ script # <<>>
    BY <1>4, <2>1, AllIsTheRest
  <2>3. Len(GarbageCollect) - Len(script) = 0
    BY <1>4, <2>1
  <2>4. LogInv
    BY <1>3, <2>3 DEF LogInv
  <2> QED BY <1>2, <1>4, <2>2, <2>4 DEF MainsInv, PlainInv, CleanInv, CollectedInv
<1>5. CASE name = "09_clean" /\ script = CleanDrive
  <2>1. script \in Seq(AnyCall) /\ Len(script) = 5
    BY <1>5, CleanDriveCalls, Zenon
  <2>2. RemainsOf(CleanDrive) /\ script # <<>>
    BY <1>5, <2>1, AllIsTheRest
  <2>3. Len(CleanDrive) - Len(script) = 0
    BY <1>5, <2>1
  <2>4. MappedBelow(Len(CleanDrive) - Len(script))
    BY <1>3, <2>3, Zenon
  <2> QED BY <1>2, <1>3, <1>5, <2>2, <2>4 DEF MainsInv, PlainInv, CleanInv, CollectedInv
<1>6. CASE name \notin {"09_collected", "09_clean"} /\ script \in PlainScripts
  <2>1. script \in Seq(PlainCall)
    BY <1>6, PlainScriptsArePlain
  <2> QED BY <1>2, <1>6, <2>1 DEF MainsInv, PlainInv, CleanInv, CollectedInv
<1>7. CASE s = <<"09_collected", GarbageCollect>>
  BY <1>1, <1>4, <1>7
<1>8. CASE s = <<"09_clean", CleanDrive>>
  BY <1>1, <1>5, <1>8
<1>9. CASE s[1] \notin {"09_collected", "09_clean"} /\ s[2] \in PlainScripts
  BY <1>1, <1>6, <1>9
<1> QED BY <1>7, <1>8, <1>9, ScriptsByKind, Zenon

LEMMA NameStays ==
    ASSUME ScriptNext \/ UNCHANGED <<vars, scriptVars>>
    PROVE  name' = name
BY DEF ScriptNext, HostWrite, WriteNoGc, HostTrim, HostReset, CollectByHand, ReturnToMain,
       InsideCall, Exit, Advance, scriptVars

LEMMA PlainStep ==
    ASSUME ScriptInv, PlainInv, name \notin {"09_collected", "09_clean"},
           ScriptNext \/ UNCHANGED <<vars, scriptVars>>
    PROVE  PlainInv'
<1>1. collected /\ ~by_hand /\ script \in Seq(PlainCall)
  BY DEF PlainInv
<1>2. ASSUME NEW call, IsNextCall(call) PROVE call \in {"write", "trim", "reset"}
  <2>1. Head(script) \in PlainCall
    BY <1>1, <1>2, HeadTailProperties DEF IsNextCall
  <2> QED BY <1>2, <2>1 DEF IsNextCall, PlainCall, Calls
<1>3. ~WriteNoGc /\ ~CollectByHand /\ ~ReturnToMain
  <2>1. ~IsNextCall("write_no_gc") /\ ~IsNextCall("collect")
    BY <1>2
  <2> QED BY <1>1, <2>1 DEF WriteNoGc, CollectByHand, ReturnToMain
<1>4. CASE HostWrite \/ HostTrim \/ HostReset
  <2>1. Advance /\ script # <<>> /\ collected' = collected /\ by_hand' = by_hand
    BY <1>4 DEF HostWrite, HostTrim, HostReset, IsNextCall
  <2>2. script' \in Seq(PlainCall)
    BY <1>1, <2>1, AdvanceKeepsCalls DEF PlainCall
  <2> QED BY <1>1, <2>1, <2>2 DEF PlainInv
<1>5. CASE InsideCall \/ Exit \/ UNCHANGED <<vars, scriptVars>>
  BY <1>1, <1>5 DEF InsideCall, Exit, scriptVars, PlainInv
<1> QED BY <1>3, <1>4, <1>5 DEF ScriptNext

LEMMA CleanStep ==
    ASSUME SixteenLbas, ScriptInv, CleanInv, name = "09_clean",
           ScriptNext \/ UNCHANGED <<vars, scriptVars>>
    PROVE  CleanInv'
<1>1. /\ ~by_hand /\ pc # "copy" /\ RemainsOf(CleanDrive) /\ NoStalePage
      /\ MappedBelow(Len(CleanDrive) - Len(script)) /\ (script = <<>> => ~collected)
  BY DEF CleanInv
<1>2. /\ CleanDrive \in Seq(AnyCall) /\ Len(CleanDrive) = 5
      /\ script \in Seq(AnyCall) /\ MapInv
  BY CleanDriveCalls, Zenon DEF ScriptInv, ScriptTypeOK
<1>3. ASSUME UNCHANGED <<state, map, collected, script, by_hand>>, pc' # "copy"
      PROVE  CleanInv'
  BY <1>1, <1>3 DEF CleanInv, RemainsOf, NoStalePage, MappedBelow
<1>4. CASE script # <<>>
  <2>1. PICK made \in 0..4 :
             /\ Len(script) = 5 - made
             /\ made < 4 => Head(script) = Call("write", {made}, 1)
             /\ made = 4 => Head(script) = Collect
    BY <1>1, <1>2, <1>4, NextOfClean
  <2>2. MappedBelow(made)
    <3>1. Len(CleanDrive) - Len(script) = made
      BY <1>2, <2>1
    <3> QED BY <1>1, <3>1, Zenon
  <2>3. Head(script).times = 1 /\ Head(script).do \in {"write", "collect"}
        /\ (Head(script).do = "write" => made < 4 /\ Head(script).lbas = {made})
        /\ (Head(script).do = "collect" => made = 4)
    <3>1. made < 4 \/ made = 4
      BY <2>1
    <3> QED BY <2>1, <3>1, CallFields, CollectFields
  <2>4. ASSUME Advance
        PROVE  Len(script') = 5 - (made + 1) /\ RemainsOf(CleanDrive)'
    BY <1>1, <1>2, <1>4, <2>1, <2>3, <2>4, RestShrinks
  <2>5. CASE HostWrite
    <3>1. made < 4 /\ Write(made)
      BY <2>3, <2>5 DEF HostWrite, IsNextCall
    <3>2. made \in LBA /\ made \in Nat
      BY <2>1, <3>1 DEF SixteenLbas
    <3>3. PICK b \in Block : IsTarget(b) /\ Program(made, Retire(made), b)
      BY <3>1 DEF Write
    <3>4. map[made] = None /\ MappedBelow(made + 1)'
      BY <1>2, <2>2, <3>2, <3>3, NextLba
    <3>5. NoStalePage'
      BY <1>1, <1>2, <3>2, <3>3, <3>4, FreshWrite
    <3>6. Len(script') = 5 - (made + 1) /\ RemainsOf(CleanDrive)'
      BY <2>4, <2>5 DEF HostWrite
    <3>7. Len(CleanDrive) - Len(script') = made + 1 /\ script' # <<>>
      BY <1>2, <2>1, <3>1, <3>6
    <3>8. ~by_hand' /\ pc' # "copy"
      BY <1>1, <2>5, <3>1 DEF HostWrite, Write
    <3>9. MappedBelow(Len(CleanDrive) - Len(script))'
      BY <3>4, <3>7 DEF MappedBelow
    <3> QED BY <3>5, <3>6, <3>7, <3>8, <3>9 DEF CleanInv
  <2>6. CASE CollectByHand
    <3>1. Collectable = {} /\ \A b : ~IsVictim(b)
      BY <1>1, NothingToCollect
    <3>2. /\ Advance /\ ~collected' /\ pc' = pc /\ by_hand' = by_hand
          /\ UNCHANGED <<state, map>> /\ made = 4
      BY <2>3, <2>6, <3>1 DEF CollectByHand, IsNextCall
    <3>3. Len(script') = 5 - (made + 1) /\ RemainsOf(CleanDrive)'
      BY <2>4, <3>2
    <3>4. MappedBelow(Len(CleanDrive) - Len(script))'
      <4>1. Len(CleanDrive) - Len(script') = 5
        BY <1>2, <3>2, <3>3
      <4>2. \A k \in 0..3 : k \in 0..4
        OBVIOUS
      <4> QED BY <2>2, <3>2, <4>1, <4>2 DEF MappedBelow
    <3> QED BY <1>1, <3>2, <3>3, <3>4 DEF CleanInv, NoStalePage
  <2>7. ~WriteNoGc /\ ~HostTrim /\ ~HostReset
    BY <2>3 DEF WriteNoGc, HostTrim, HostReset, IsNextCall
  <2>8. ~ReturnToMain
    BY <1>1 DEF ReturnToMain
  <2>9. CASE InsideCall
    <3>1. ~StartCollection /\ ~CopyPage /\ ~EraseVictim
      BY <1>1, NothingToCollect DEF StartCollection, CopyPage, EraseVictim
    <3>2. FinishWrite /\ UNCHANGED scriptVars
      BY <2>9, <3>1 DEF InsideCall
    <3> QED BY <1>3, <3>2 DEF FinishWrite, scriptVars
  <2>10. CASE Exit \/ UNCHANGED <<vars, scriptVars>>
    BY <1>1, <1>3, <2>10 DEF Exit, vars, scriptVars
  <2> QED BY <2>5, <2>6, <2>7, <2>8, <2>9, <2>10 DEF ScriptNext
<1>5. CASE script = <<>>
  <2>1. ~HostWrite /\ ~WriteNoGc /\ ~HostTrim /\ ~HostReset /\ ~CollectByHand /\ ~ReturnToMain
    BY <1>1, <1>5 DEF HostWrite, WriteNoGc, HostTrim, HostReset, CollectByHand, ReturnToMain,
                      IsNextCall
  <2>2. CASE InsideCall
    <3>1. ~StartCollection /\ ~CopyPage /\ ~EraseVictim
      BY <1>1, NothingToCollect DEF StartCollection, CopyPage, EraseVictim
    <3>2. FinishWrite /\ UNCHANGED scriptVars
      BY <2>2, <3>1 DEF InsideCall
    <3> QED BY <1>3, <3>2 DEF FinishWrite, scriptVars
  <2>3. CASE Exit \/ UNCHANGED <<vars, scriptVars>>
    BY <1>1, <1>3, <2>3 DEF Exit, vars, scriptVars
  <2> QED BY <2>1, <2>2, <2>3 DEF ScriptNext
<1> QED BY <1>4, <1>5

(* Blocks enough: what a collection copies still fits. *)
LEMMA RoomForTwenty ==
    ASSUME SampleGeometry
    PROVE  BLOCKS * PAGES \in Nat /\ BLOCKS * PAGES >= 20 + PAGES
<1>1. BLOCKS \in Nat /\ PAGES \in Nat
  BY GeometryAssumption
<1>2. BLOCKS * PAGES = (BLOCKS - 1) * PAGES + PAGES /\ (BLOCKS - 1) * PAGES \in Int
  BY <1>1
<1> QED BY <1>1, <1>2 DEF SampleGeometry

LEMMA LogStep ==
    ASSUME SampleGeometry, MapInv, script \in Seq(AnyCall), RemainsOf(GarbageCollect), LogInv,
           collected, script # <<>>, ~by_hand, ScriptNext
    PROVE  CollectedInv'
<1>1. /\ GarbageCollect \in Seq(AnyCall) /\ Len(GarbageCollect) = 21 /\ SixteenLbas
  BY GarbageCollectCalls, Zenon DEF SampleGeometry
<1>2. PICK made \in 0..20 :
             /\ Len(script) = 21 - made
             /\ made < 16 => Head(script) = Call("write", {made}, 1)
             /\ made \in 16..19 =>
                   Head(script) = Call("write_no_gc", {<<0, 1, 2, 5>>[made - 15]}, 1)
             /\ made = 20 => Head(script) = Collect
  BY <1>1, NextOfGarbageCollect, Zenon
<1>3. Len(GarbageCollect) - Len(script) = made
  BY <1>1, <1>2
<1>4. /\ OneLog /\ nand_writes = made /\ pc # "copy" /\ (pc = "collect" => made <= 16)
      /\ made <= 16 => NoStalePage /\ MappedBelow(made)
      /\ made \in 1..16 => map[0] = <<0, 0>>
      /\ made > 16 => state[<<0, 0>>] = "Stale"
  BY <1>3, Zenon DEF LogInv
<1>5. /\ Head(script).times = 1
      /\ Head(script).do = "write" => made < 16 /\ Head(script).lbas = {made}
      /\ Head(script).do = "write_no_gc" =>
            made \in 16..19 /\ Head(script).lbas = {<<0, 1, 2, 5>>[made - 15]}
      /\ Head(script).do = "collect" => made = 20
      /\ Head(script).do \in {"write", "write_no_gc", "collect"}
  <2>1. made < 16 \/ made \in 16..19 \/ made = 20
    OBVIOUS
  <2> QED BY <1>2, <2>1, CallFields, CollectFields
<1>6. <<0, 0>> \in Ppn
  BY GeometryAssumption DEF Ppn, Block, Page
<1>7. ASSUME Advance PROVE Len(script') = 21 - (made + 1) /\ RemainsOf(GarbageCollect)'
  <2>1. Len(script') = Len(script) - 1 /\ RemainsOf(GarbageCollect)'
    BY <1>1, <1>5, <1>7, RestShrinks
  <2> QED BY <1>2, <2>1
<1>8. ASSUME Advance, collected' = collected, by_hand' = by_hand, made < 20,
             OneLog', nand_writes' = made + 1, pc' # "copy", pc' = "collect" => made + 1 <= 16,
             made + 1 <= 16 => NoStalePage' /\ MappedBelow(made + 1)',
             made + 1 <= 16 => map'[0] = <<0, 0>>,
             made + 1 > 16 => state'[<<0, 0>>] = "Stale"
      PROVE  CollectedInv'
  <2>1. Len(script') = 21 - (made + 1) /\ RemainsOf(GarbageCollect)'
    BY <1>7, <1>8
  <2>2. Len(GarbageCollect) - Len(script') = made + 1 /\ script' # <<>>
    BY <1>1, <1>8, <2>1
  <2>3. (made + 1 <= 16 => MappedBelow(Len(GarbageCollect) - Len(script))')
    BY <1>8, <2>2 DEF MappedBelow
  <2>4. LogInv'
    <3>1. /\ made + 1 <= 16 => NoStalePage' /\ MappedBelow(Len(GarbageCollect) - Len(script))'
          /\ made + 1 \in 1..16 => map'[0] = <<0, 0>>
      BY <1>8, <2>3
    <3> QED BY <1>8, <2>2, <3>1, Zenon DEF LogInv
  <2> QED BY <1>8, <2>1, <2>2, <2>4 DEF CollectedInv
<1>9. CASE HostWrite
  <2>1. /\ Advance /\ collected' = collected /\ by_hand' = by_hand
        /\ made < 16 /\ Write(made)
    BY <1>5, <1>9 DEF HostWrite, IsNextCall
  <2>2. made \in LBA /\ made \in Nat
    BY <1>1, <2>1 DEF SixteenLbas
  <2>3. PICK b \in Block : IsTarget(b) /\ Program(made, Retire(made), b)
    BY <2>1 DEF Write
  <2>4. pc' = "collect" /\ erases' = erases
    BY <2>1 DEF Write
  <2>5. OneLog' /\ nand_writes' = made + 1
    BY <1>4, <2>3, <2>4, LogGrows
  <2>6. map[made] = None /\ MappedBelow(made + 1)'
    <3>1. MappedBelow(made)
      BY <1>4, <2>1
    <3> QED BY <2>2, <2>3, <3>1, NextLba, Zenon
  <2>7. NoStalePage'
    <3>1. NoStalePage
      BY <1>4, <2>1
    <3> QED BY <2>2, <2>3, <2>6, <3>1, FreshWrite
  <2>8. map'[0] = <<0, 0>>
    <3>1. map' = [map EXCEPT ![made] = <<b, next[b]>>] /\ map \in [LBA -> Ppn \cup {None}]
      BY <2>3 DEF Program, MapInv, TypeOK
    <3>2. CASE made = 0
      <4>1. active = 0 /\ next[0] = 0 /\ PAGES > 0
        BY <1>4, <3>2, LogPosition, GeometryAssumption
      <4>2. b = 0
        BY <2>3, <4>1 DEF IsTarget
      <4> QED BY <2>2, <3>1, <3>2, <4>1, <4>2
    <3>3. CASE made # 0
      <4>1. made \in 1..16 /\ 0 \in LBA
        BY <1>1, <2>1, <3>3 DEF SixteenLbas
      <4> QED BY <1>4, <3>1, <3>3, <4>1
    <3> QED BY <3>2, <3>3
  <2> QED BY <1>8, <2>1, <2>4, <2>5, <2>6, <2>7, <2>8
<1>10. CASE WriteNoGc
  <2> DEFINE l == <<0, 1, 2, 5>>[made - 15]
  <2>1. /\ Advance /\ collected' = collected /\ by_hand' = by_hand
        /\ pc = "idle" /\ pc' = pc /\ erases' = erases
        /\ made \in 16..19 /\ Head(script).lbas = {l}
    BY <1>5, <1>10 DEF WriteNoGc, IsNextCall
  <2>2. PICK b \in Block : IsTarget(b) /\ Program(l, Retire(l), b)
    BY <1>10, <2>1 DEF WriteNoGc
  <2>3. l \in LBA /\ (made = 16 => l = 0)
    BY <1>1, <2>1 DEF SixteenLbas
  <2> HIDE DEF l
  <2>4. OneLog' /\ nand_writes' = made + 1
    BY <1>4, <2>1, <2>2, LogGrows
  <2>5. Retire(l) \in [Ppn -> {"Free", "Valid", "Stale"}] /\ Retire(l)[<<0, 0>>] = "Stale"
    <3>1. state \in [Ppn -> {"Free", "Valid", "Stale"}]
      BY DEF MapInv, TypeOK
    <3>2. CASE made = 16
      <4>1. map[l] = <<0, 0>>
        BY <1>4, <2>3, <3>2
      <4> QED BY <1>6, <3>1, <4>1, NoneAssumption DEF Retire
    <3>3. CASE made > 16
      BY <1>4, <1>6, <3>1, <3>3 DEF Retire
    <3> QED BY <2>1, <3>2, <3>3
  <2>6. state[<<0, 0>>] # "Free"
    <3>1. CASE made = 16
      <4>1. map[l] = <<0, 0>>
        BY <1>4, <2>3, <3>1
      <4> QED BY <1>6, <2>3, <4>1, NoneAssumption DEF MapInv, MapPointsAtOwnPage
    <3>2. CASE made > 16
      BY <1>4, <3>2
    <3> QED BY <2>1, <3>1, <3>2
  <2>7. <<b, next[b]>> # <<0, 0>>
    BY <2>2, <2>6, TargetHasRoom DEF MapInv
  <2>8. state'[<<0, 0>>] = "Stale"
    BY <1>6, <2>2, <2>5, <2>7 DEF Program
  <2> QED BY <1>8, <2>1, <2>4, <2>8
<1>11. CASE CollectByHand
  <2>1. made = 20
    BY <1>5, <1>11 DEF CollectByHand, IsNextCall
  <2>2. 0 \in Block \ {active} /\ 0 \in Page
    BY <1>4, <2>1, LogPosition, GeometryAssumption DEF SampleGeometry, Block, Page
  <2>3. 0 \in StalePages(0)
    BY <1>4, <2>1, <2>2 DEF StalePages
  <2>4. Collectable # {}
    BY <2>2, <2>3 DEF Collectable
  <2>5. PICK v \in Block : IsVictim(v) /\ victim' = v
    BY <1>11, <2>4 DEF CollectByHand
  <2>6. /\ cursor' = 0 /\ pc' = "copy" /\ by_hand' = TRUE /\ UNCHANGED <<name, script, collected>>
        /\ UNCHANGED <<state, next, erases, active, nand_writes>>
    BY <1>11, <2>4 DEF CollectByHand
  <2>7. PICK q \in Page : state[<<v, q>>] = "Stale"
    BY <2>5 DEF IsVictim, Collectable, StalePages
  <2>8. q \in Nat
    BY DEF Page
  <2>9. OneLog'
    BY <1>4, <2>6 DEF OneLog
  <2>10. state'[<<victim', q>>] = "Stale"
         /\ nand_writes' <= 20 + cursor' - (IF q < cursor' THEN 1 ELSE 0)
    BY <1>4, <2>1, <2>5, <2>6, <2>7, <2>8
  <2>11. Len(script') = 1
    BY <1>2, <2>1, <2>6
  <2>12. CopiesFit'
    BY <2>6, <2>9, <2>10, <2>11 DEF CopiesFit
  <2> QED BY <2>6, <2>12 DEF CollectedInv, RemainsOf
<1>12. ~HostTrim /\ ~HostReset
  BY <1>5 DEF HostTrim, HostReset, IsNextCall
<1>13. CASE InsideCall
  <2>1. ~StartCollection
    BY <1>4, NothingToCollect DEF StartCollection
  <2>2. FinishWrite /\ UNCHANGED scriptVars
    BY <1>4, <1>13, <2>1 DEF InsideCall, CopyPage, EraseVictim
  <2>3. /\ pc' = "idle" /\ UNCHANGED <<state, next, erases, map, active, nand_writes>>
        /\ UNCHANGED <<script, collected, by_hand>>
    BY <2>2 DEF FinishWrite, scriptVars
  <2>4. LogInv'
    BY <2>3 DEF LogInv, OneLog, NoStalePage, MappedBelow
  <2> QED BY <2>3, <2>4 DEF CollectedInv, RemainsOf
<1>14. ~ReturnToMain /\ ~Exit
  BY DEF ReturnToMain, Exit
<1> QED BY <1>9, <1>10, <1>11, <1>12, <1>13, <1>14 DEF ScriptNext

LEMMA CollectionStep ==
    ASSUME SampleGeometry, ScriptInv, RemainsOf(GarbageCollect), CopiesFit, collected, by_hand,
           ScriptNext
    PROVE  CollectedInv'
<1>1. /\ GarbageCollect \in Seq(AnyCall) /\ Len(GarbageCollect) = 21 /\ SixteenLbas
      /\ script \in Seq(AnyCall) /\ Len(script) = 1 /\ script # <<>> /\ pc # "idle" /\ MapInv
  BY GarbageCollectCalls, Zenon DEF SampleGeometry, ScriptInv, ScriptTypeOK, CopiesFit
<1>2. ~HostWrite /\ ~WriteNoGc /\ ~HostTrim /\ ~HostReset /\ ~CollectByHand /\ ~Exit
  BY <1>1 DEF HostWrite, WriteNoGc, HostTrim, HostReset, CollectByHand, Exit, IsNextCall
<1>3. CASE ReturnToMain
  <2>1. /\ Advance /\ pc' = "idle" /\ ~by_hand' /\ collected' = collected
    BY <1>3 DEF ReturnToMain
  <2>2. Head(script) = Collect
    <3>1. PICK made \in 0..20 : Len(script) = 21 - made /\ (made = 20 => Head(script) = Collect)
      BY <1>1, NextOfGarbageCollect, Zenon
    <3>2. Len(script) = 1
      BY <1>1
    <3>3. made = 20
      <4>1. 1 = 21 - made
        BY <3>1, <3>2, Zenon
      <4> QED BY <4>1
    <3> QED BY <3>1, <3>3, Zenon
  <2>3. Len(script') = 0 /\ RemainsOf(GarbageCollect)'
    BY <1>1, <2>1, <2>2, CollectFields, RestShrinks
  <2>4. script' = <<>>
    <3>1. script' \in Seq(AnyCall)
      BY <1>1, <2>1, AdvanceKeepsCalls DEF AnyCall
    <3> QED BY <2>3, <3>1
  <2> QED BY <2>1, <2>3, <2>4 DEF CollectedInv
<1>4. CASE InsideCall /\ CopyPage
  <2>1. /\ UNCHANGED <<script, collected, by_hand>>
        /\ pc = "copy" /\ pc' = "copy" /\ cursor < PAGES /\ cursor' = cursor + 1
        /\ erases' = erases /\ victim' = victim
    BY <1>4 DEF InsideCall, CopyPage, scriptVars
  <2>2. OneLog
    BY <2>1 DEF CopiesFit
  <2>3. PICK q \in Page :
           /\ state[<<victim, q>>] = "Stale"
           /\ nand_writes <= 20 + cursor - (IF q < cursor THEN 1 ELSE 0)
    BY <2>1 DEF CopiesFit
  <2>4. /\ q \in Nat /\ cursor \in Nat /\ nand_writes \in Nat /\ <<victim, q>> \in Ppn
        /\ state \in [Ppn -> {"Free", "Valid", "Stale"}]
    BY <1>1, GeometryAssumption DEF MapInv, TypeOK, Page, Ppn
  <2>5. CASE /\ state[<<victim, cursor>>] = "Valid"
             /\ \E b \in Block : IsTarget(b) /\ Program(lba[<<victim, cursor>>], state, b)
    <3>1. PICK b \in Block : IsTarget(b) /\ Program(lba[<<victim, cursor>>], state, b)
      BY <2>5
    <3>2. OneLog' /\ nand_writes' = nand_writes + 1
      BY <1>1, <2>1, <2>2, <3>1, LogGrows
    <3>3. q # cursor
      BY <2>3, <2>5
    <3>4. state[<<b, next[b]>>] = "Free"
      BY <1>1, <3>1, TargetHasRoom DEF MapInv
    <3>5. state'[<<victim, q>>] = "Stale"
      BY <2>3, <2>4, <3>1, <3>4 DEF Program
    <3>6. nand_writes' <= 20 + cursor' - (IF q < cursor' THEN 1 ELSE 0)
      BY <2>1, <2>3, <2>4, <3>2, <3>3
    <3>7. CopiesFit'
      BY <1>1, <2>1, <3>2, <3>5, <3>6 DEF CopiesFit
    <3> QED BY <1>1, <2>1, <3>7 DEF CollectedInv, RemainsOf
  <2>6. CASE UNCHANGED <<state, lba, next, map, active, nand_writes>>
    <3>1. OneLog'
      BY <2>1, <2>2, <2>6 DEF OneLog
    <3>2. /\ state'[<<victim', q>>] = "Stale"
          /\ nand_writes' <= 20 + cursor' - (IF q < cursor' THEN 1 ELSE 0)
      BY <2>1, <2>3, <2>4, <2>6
    <3>3. CopiesFit'
      BY <1>1, <2>1, <3>1, <3>2 DEF CopiesFit
    <3> QED BY <1>1, <2>1, <3>3 DEF CollectedInv, RemainsOf
  <2> QED BY <1>4, <2>5, <2>6 DEF CopyPage
<1>5. CASE InsideCall /\ EraseVictim
  <2>1. /\ UNCHANGED <<script, collected, by_hand>> /\ active' = active
        /\ pc = "copy" /\ pc' = "collect" /\ next' = [next EXCEPT ![victim] = 0]
    BY <1>5 DEF InsideCall, EraseVictim, scriptVars
  <2>2. victim \in Block /\ victim # active /\ next \in [Block -> 0 .. PAGES]
    BY <1>1, <2>1 DEF MapInv, TypeOK, VictimIsClosed
  <2>3. AnErased'
    BY <2>1, <2>2 DEF AnErased
  <2>4. CopiesFit'
    BY <1>1, <2>1, <2>3 DEF CopiesFit
  <2> QED BY <1>1, <2>1, <2>4 DEF CollectedInv, RemainsOf
<1> QED BY <1>2, <1>3, <1>4, <1>5 DEF ScriptNext, InsideCall

(* The first drive of sample 09, call by call.                             *)
LEMMA CollectedStep ==
    ASSUME SampleGeometry, ScriptInv, CollectedInv, name = "09_collected",
           ScriptNext \/ UNCHANGED <<vars, scriptVars>>
    PROVE  CollectedInv'
<1>1. /\ collected /\ RemainsOf(GarbageCollect)
      /\ script = <<>> => pc = "idle" /\ ~by_hand
      /\ script # <<>> /\ ~by_hand => LogInv
      /\ by_hand => CopiesFit
  BY DEF CollectedInv
<1>2. /\ GarbageCollect \in Seq(AnyCall) /\ Len(GarbageCollect) = 21
      /\ script \in Seq(AnyCall) /\ MapInv /\ SixteenLbas
  BY GarbageCollectCalls, Zenon DEF ScriptInv, ScriptTypeOK, SampleGeometry
<1>3. CASE UNCHANGED <<vars, scriptVars>>
  <2>1. LogInv => LogInv'
    BY <1>3 DEF LogInv, OneLog, NoStalePage, MappedBelow, vars, scriptVars
  <2>2. CopiesFit => CopiesFit'
    BY <1>3 DEF CopiesFit, OneLog, AnErased, vars, scriptVars
  <2>3. UNCHANGED <<script, collected, by_hand, pc>>
    BY <1>3 DEF vars, scriptVars
  <2>4. RemainsOf(GarbageCollect)'
    BY <1>1, <2>3 DEF RemainsOf
  <2> QED BY <1>1, <2>1, <2>2, <2>3, <2>4 DEF CollectedInv
<1>4. CASE script = <<>>
  <2>1. ~HostWrite /\ ~WriteNoGc /\ ~HostTrim /\ ~HostReset /\ ~CollectByHand /\ ~ReturnToMain
    BY <1>1, <1>4 DEF HostWrite, WriteNoGc, HostTrim, HostReset, CollectByHand, ReturnToMain,
                      IsNextCall
  <2>2. ~InsideCall
    BY <1>1, <1>4 DEF InsideCall, StartCollection, FinishWrite, CopyPage, EraseVictim
  <2>3. Exit => UNCHANGED <<vars, scriptVars>>
    BY DEF Exit
  <2> QED BY <1>3, <2>1, <2>2, <2>3 DEF ScriptNext
<1>5. CASE script # <<>> /\ ~by_hand
  BY <1>1, <1>2, <1>3, <1>5, LogStep
<1>6. CASE by_hand
  BY <1>1, <1>2, <1>3, <1>4, <1>6, CollectionStep
<1> QED BY <1>4, <1>5, <1>6

LEMMA MainsStep ==
    ASSUME SampleGeometry, ScriptInv, MainsInv, ScriptNext \/ UNCHANGED <<vars, scriptVars>>
    PROVE  MainsInv'
<1>1. SixteenLbas /\ name' = name /\ PlainInv /\ CleanInv /\ CollectedInv
  BY NameStays DEF SampleGeometry, MainsInv
<1>2. CASE name \notin {"09_collected", "09_clean"}
  BY <1>1, <1>2, PlainStep DEF MainsInv, CleanInv, CollectedInv
<1>3. CASE name = "09_clean"
  BY <1>1, <1>3, CleanStep DEF MainsInv, PlainInv, CollectedInv
<1>4. CASE name = "09_collected"
  BY <1>1, <1>4, CollectedStep DEF MainsInv, PlainInv, CleanInv
<1> QED BY <1>2, <1>3, <1>4

(* The invariant says what the mains report. *)
LEMMA MainsInvIsEnough ==
    ASSUME SampleGeometry, ScriptInv, MainsInv
    PROVE  MainsSucceed
<1>1. /\ MapInv /\ ScriptTypeOK /\ SixteenLbas /\ script \in Seq(AnyCall)
      /\ PlainInv /\ CleanInv /\ CollectedInv
  BY DEF ScriptInv, ScriptTypeOK, SampleGeometry, MainsInv
<1>2. ConsistentBetweenCalls
  BY <1>1, MapIsConsistent DEF ConsistentBetweenCalls
<1>3. pc = "idle" /\ script = <<>> => (collected <=> name # "09_clean")
  <2>1. name \in {"09_collected", "09_clean"} \/ name \notin {"09_collected", "09_clean"}
    OBVIOUS
  <2> QED BY <1>1, <2>1 DEF PlainInv, CleanInv, CollectedInv
<1>4. /\ BLOCKS * PAGES \in Nat /\ BLOCKS * PAGES >= 20 + PAGES
      /\ PAGES \in Nat /\ PAGES > 0 /\ nand_writes \in Nat /\ cursor \in 0 .. PAGES
  BY <1>1, RoomForTwenty, GeometryAssumption DEF MapInv, TypeOK
<1>5. ASSUME IsNextCall("write_no_gc")
      PROVE  next[active] < PAGES \/ ErasedBlocks # {}
  <2>1. script # <<>> /\ pc = "idle" /\ ~by_hand /\ Head(script).do = "write_no_gc"
    BY <1>1, <1>5 DEF IsNextCall, ScriptTypeOK
  <2>2. name \in {"09_collected", "09_clean"}
    <3> SUFFICES ASSUME name \notin {"09_collected", "09_clean"} PROVE FALSE
      OBVIOUS
    <3>1. script \in Seq(PlainCall)
      BY <1>1 DEF PlainInv
    <3>2. Head(script) \in PlainCall
      BY <2>1, <3>1, HeadTailProperties
    <3> QED BY <2>1, <3>2 DEF PlainCall, Calls
  <2>3. name # "09_clean"
    <3> SUFFICES ASSUME name = "09_clean" PROVE FALSE
      OBVIOUS
    <3>1. RemainsOf(CleanDrive)
      BY <1>1 DEF CleanInv
    <3>2. PICK made \in 0..4 :
               /\ Len(script) = 5 - made
               /\ made < 4 => Head(script) = Call("write", {made}, 1)
               /\ made = 4 => Head(script) = Collect
      BY <1>1, <2>1, <3>1, NextOfClean, Zenon
    <3>3. made < 4 \/ made = 4
      OBVIOUS
    <3> QED BY <2>1, <3>2, <3>3, CallFields, CollectFields
  <2>4. LogInv /\ RemainsOf(GarbageCollect)
    BY <1>1, <2>1, <2>2, <2>3 DEF CollectedInv
  <2>5. nand_writes \in 0..20 /\ OneLog
    <3>1. PICK made \in 0..20 : Len(script) = 21 - made
      BY <1>1, <2>1, <2>4, NextOfGarbageCollect, Zenon
    <3>2. Len(GarbageCollect) - Len(script) = made
      <4>1. Len(GarbageCollect) = 21
        BY <1>1, GarbageCollectCalls, Zenon
      <4> QED BY <3>1, <4>1
    <3> QED BY <2>4, <3>2 DEF LogInv
  <2> QED BY <1>1, <1>4, <2>5, LogHasRoom
<1>6. ASSUME by_hand
      PROVE  next[active] < PAGES \/ ErasedBlocks # {}
  <2>1. pc \in {"collect", "copy"}
    BY <1>1, <1>6 DEF ScriptTypeOK, MapInv, TypeOK
  <2>2. CopiesFit
    <3>1. name = "09_collected"
      BY <1>1, <1>6 DEF PlainInv, CleanInv
    <3> QED BY <1>1, <1>6, <3>1 DEF CollectedInv
  <2>3. CASE pc = "collect"
    BY <2>2, <2>3 DEF CopiesFit, AnErased, ErasedBlocks
  <2>4. CASE pc = "copy"
    <3>1. OneLog
      BY <2>2, <2>4 DEF CopiesFit
    <3>2. PICK q \in Page : nand_writes <= 20 + cursor - (IF q < cursor THEN 1 ELSE 0)
      BY <2>2, <2>4 DEF CopiesFit
    <3>3. q \in Nat /\ q < PAGES
      BY <1>4 DEF Page
    <3>4. nand_writes < BLOCKS * PAGES
      BY <1>4, <3>2, <3>3
    <3> QED BY <1>1, <3>1, <3>4, LogHasRoom
  <2> QED BY <2>1, <2>3, <2>4
<1> QED BY <1>2, <1>3, <1>5, <1>6 DEF MainsSucceed

(* MainsSucceed: all mains exit with status 0, whatever LBAs their         *)
(* generators choose and however often their loops turn; sample 09         *)
(* collects just where it says and always has a block to write to.         *)
THEOREM MainsExitWithZero ==
    ASSUME SampleGeometry
    PROVE  ScriptSpec => []MainsSucceed
<1>1. SixteenLbas
  BY DEF SampleGeometry
<1>2. ScriptInit => MainsInv
  BY <1>1, MainsInit
<1>3. ScriptInv /\ MainsInv /\ [ScriptNext]_<<vars, scriptVars>> => MainsInv'
  BY MainsStep
<1>4. ScriptInv /\ MainsInv => MainsSucceed
  BY MainsInvIsEnough
<1>5. ScriptSpec => []ScriptInv
  BY <1>1, ScriptsKeepTheMap
<1> QED BY <1>2, <1>3, <1>4, <1>5, PTL DEF ScriptSpec
=============================================================================
