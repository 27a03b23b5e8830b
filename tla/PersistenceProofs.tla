-------------------------- MODULE PersistenceProofs --------------------------
(***************************************************************************)
(* What persist() guarantees, for every set of operations: proofs of the   *)
(* properties of Persistence.                                              *)
(***************************************************************************)
EXTENDS Persistence, TLAPS

OneController == \A c, d \in Controllers : c = d

(***************************************************************************)
(* Requests in flight are on processes that are up, and everything a       *)
(* process has in memory, has snapshotted or has written is coherent.      *)
(***************************************************************************)
Coherent(contents) == \A op \in contents : Needs[op] \subseteq contents

CoherenceInv ==
  /\ TypeOK
  /\ \A op \in InFlight : server[op] \in up
  /\ Coherent(row)
  /\ \A c \in up : Coherent(memory[c])
  /\ \A op \in Ops : stage[op] = "snapped" => Coherent(taken[op])

(***************************************************************************)
(* An operation in flight that is not excused is alone; one that was       *)
(* acknowledged is in the row, in the memory store and in every snapshot   *)
(* still to be written.                                                    *)
(***************************************************************************)
Alone(op) ==
  /\ InFlight = {op}
  /\ op \in memory[server[op]]
  /\ stage[op] = "snapped" => op \in taken[op]

Kept(op) ==
  /\ op \in row
  /\ \A c \in up : op \in memory[c]
  /\ \A other \in Ops : stage[other] = "snapped" => op \in taken[other]

Answered(op) == stage[op] \in {"applied", "snapped", "answered"} /\ op \notin Volatile

Exclusive(op, other) ==
  (op # other /\ other \in Bars[op] /\ op \in Bars[other])
    => (Answered(op) /\ Answered(other) => op \in excused \/ other \in excused)

DurableInv ==
  /\ \A op \in InFlight : op \notin Volatile
  /\ \A op \in InFlight \ excused : Alone(op)
  /\ \A op \in Ops \ excused : Acknowledged(op) => Kept(op)
  /\ \A op, other \in Ops : Exclusive(op, other)

-----------------------------------------------------------------------------
(***************************************************************************)
(* Every state is well typed and coherent, whatever the number of          *)
(* controllers.                                                            *)
(***************************************************************************)
LEMMA InitCoherent == Init => CoherenceInv
BY DEF Init, CoherenceInv, TypeOK, Coherent, InFlight, Stage

(***************************************************************************)
(* Every step keeps the stores coherent: operations are applied only where *)
(* what they need is, and what is written is a snapshot of some store.     *)
(***************************************************************************)
LEMMA NextCoherent == CoherenceInv /\ [Next]_vars => CoherenceInv'
<1>. SUFFICES ASSUME CoherenceInv, [Next]_vars PROVE CoherenceInv'
  OBVIOUS
<1>. USE PersistenceAssumption
<1>1. ASSUME NEW op \in Ops, Apply(op) PROVE CoherenceInv'
  <2>. DEFINE c == server[op]
  <2>1. TypeOK'
    BY <1>1 DEF CoherenceInv, TypeOK, Apply, Stage, InFlight
  <2>2. /\ c \in up /\ up' = up /\ row' = row /\ server' = server /\ taken' = taken
        /\ memory' = [memory EXCEPT ![c] = @ \cup {op}]
        /\ Needs[op] \subseteq memory[c]
        /\ \A o \in Ops : o # op => stage'[o] = stage[o]
        /\ stage'[op] \in {"applied", "answered"}
    BY <1>1 DEF Apply, CoherenceInv, TypeOK
  <2>3. \A d \in up' : Coherent(memory[d])'
    <3>. SUFFICES ASSUME NEW d \in up PROVE Coherent(memory'[d])
      BY <2>2 DEF Coherent
    <3>. QED  BY <2>2 DEF CoherenceInv, TypeOK, Coherent
  <2>4. \A o \in InFlight' : server'[o] \in up'
    BY <2>2 DEF CoherenceInv, InFlight
  <2>5. \A o \in Ops : stage'[o] = "snapped" => Coherent(taken[o])'
    BY <2>2 DEF CoherenceInv, Coherent
  <2>. QED  BY <2>1, <2>2, <2>3, <2>4, <2>5 DEF CoherenceInv, Coherent
<1>2. ASSUME NEW op \in Ops, Snap(op) PROVE CoherenceInv'
  BY <1>2 DEF CoherenceInv, TypeOK, Snap, Snapshot, Stage, InFlight, Coherent
<1>3. ASSUME NEW op \in Ops, Write(op) PROVE CoherenceInv'
  BY <1>3 DEF CoherenceInv, TypeOK, Write, Stage, InFlight, Coherent
<1>4. ASSUME NEW op \in Ops, WriteFails(op) PROVE CoherenceInv'
  BY <1>4 DEF CoherenceInv, TypeOK, WriteFails, Stage, InFlight, Coherent
<1>5. ASSUME NEW c \in Controllers, Crash(c) PROVE CoherenceInv'
  BY <1>5 DEF CoherenceInv, TypeOK, Crash, Stage, InFlight, Coherent
<1>6. ASSUME NEW c \in Controllers, Start(c) PROVE CoherenceInv'
  BY <1>6 DEF CoherenceInv, TypeOK, Start, Restored, Stage, InFlight, Coherent
<1>7. ASSUME NEW c \in Controllers, StartUnread(c) PROVE CoherenceInv'
  BY <1>7 DEF CoherenceInv, TypeOK, StartUnread, Stage, InFlight, Coherent
<1>8. CASE UNCHANGED vars
  BY <1>8 DEF CoherenceInv, TypeOK, Stage, InFlight, Coherent, vars
<1>. QED  BY <1>1, <1>2, <1>3, <1>4, <1>5, <1>6, <1>7, <1>8 DEF Next

(***************************************************************************)
(* What a restart brings back is whole, with any number of controllers and *)
(* failures: Snapshot copies the store under its lock, and what a store    *)
(* asks of an operation, such as the run of a claim or of a result, is in  *)
(* every store and in every row that has the operation.                    *)
(***************************************************************************)
THEOREM RestartsBringBackWholeStores == Spec => []NeedsAreKept
<1>1. CoherenceInv => NeedsAreKept
  BY DEF CoherenceInv, Coherent, NeedsAreKept
<1>. QED  BY <1>1, InitCoherent, NextCoherent, PTL DEF Spec

-----------------------------------------------------------------------------
(***************************************************************************)
(* With one controller, persists that do not overlap lose nothing.         *)
(***************************************************************************)
LEMMA InitDurable == Init => DurableInv
BY DEF Init, DurableInv, InFlight, Acknowledged, Exclusive, Answered

(***************************************************************************)
(* A new operation is in flight alone, or excuses all those in flight.     *)
(***************************************************************************)
LEMMA ApplyKeepsDurable ==
  ASSUME OneController, CoherenceInv, DurableInv, NEW op \in Ops, Apply(op)
  PROVE  DurableInv'
<1>. USE PersistenceAssumption
<1>. DEFINE c == server[op]
<1>1. /\ c \in up /\ up' = up /\ row' = row /\ server' = server /\ taken' = taken
      /\ stage[op] = "new" /\ Bars[op] \cap memory[c] = {}
      /\ memory' = [memory EXCEPT ![c] = @ \cup {op}]
      /\ \A o \in Ops : o # op => stage'[o] = stage[o]
      /\ stage'[op] = IF op \notin Volatile THEN "applied" ELSE "answered"
      /\ excused' = IF op \notin Volatile /\ InFlight # {} THEN excused \cup InFlight \cup {op}
                    ELSE excused
  BY DEF Apply, Persists, CoherenceInv, TypeOK
<1>2. InFlight' = IF op \notin Volatile THEN InFlight \cup {op} ELSE InFlight
  BY <1>1 DEF InFlight
<1>3. c \in Controllers /\ \A d \in Controllers : d = c
  BY DEF CoherenceInv, TypeOK, OneController
<1>4. \A o \in Ops : memory[c] \subseteq memory'[c] /\ op \in memory'[c]
  BY <1>1, <1>3 DEF CoherenceInv, TypeOK
<1>5. \A o \in InFlight' : o \notin Volatile
  BY <1>2 DEF DurableInv
<1>6. \A o \in InFlight' \ excused' : Alone(o)'
  <2>. SUFFICES ASSUME NEW o \in InFlight', o \notin excused' PROVE Alone(o)'
    OBVIOUS
  <2>1. CASE op \in Volatile
    <3>1. o \in InFlight \ excused /\ o # op
      BY <1>1, <1>2, <2>1 DEF InFlight
    <3>2. Alone(o) /\ server[o] = c
      BY <3>1, <1>3 DEF DurableInv, CoherenceInv, TypeOK, InFlight
    <3>. QED  BY <3>1, <3>2, <1>1, <1>2, <1>4, <2>1 DEF Alone, InFlight
  <2>2. CASE op \notin Volatile
    <3>1. InFlight = {} /\ o = op
      BY <1>1, <1>2, <2>2
    <3>. QED  BY <3>1, <1>1, <1>2, <1>4, <2>2 DEF Alone
  <2>. QED  BY <2>1, <2>2
<1>7. \A o \in Ops \ excused' : Acknowledged(o)' => Kept(o)'
  <2>. SUFFICES ASSUME NEW o \in Ops, o \notin excused', Acknowledged(o)' PROVE Kept(o)'
    OBVIOUS
  <2>1. o # op /\ o \notin excused /\ Acknowledged(o)
    BY <1>1 DEF Acknowledged
  <2>2. Kept(o)
    BY <2>1 DEF DurableInv
  <2>3. \A other \in Ops : stage'[other] = "snapped" => stage[other] = "snapped"
    BY <1>1
  <2>. QED  BY <2>2, <2>3, <1>1, <1>3, <1>4 DEF Kept, CoherenceInv, TypeOK
<1>8. \A o, other \in Ops : Exclusive(o, other)'
  <2>1. \A o \in Ops : op \in Bars[o] /\ o \in Bars[op] /\ Answered(o) /\ o # op /\ op \notin Volatile
            => o \in excused'
    <3>. SUFFICES ASSUME NEW o \in Ops, o \in Bars[op], Answered(o), o # op, op \notin Volatile,
                         o \notin excused'
                  PROVE  FALSE
      OBVIOUS
    <3>1. o \notin InFlight /\ o \notin excused
      BY <1>1
    <3>2. Acknowledged(o)
      BY <3>1 DEF Answered, InFlight, Acknowledged
    <3>3. o \in memory[c]
      BY <3>1, <3>2, <1>1 DEF DurableInv, Kept
    <3>. QED  BY <3>3, <1>1
  <2>2. \A o \in Ops : o # op => (Answered(o)' <=> Answered(o))
    BY <1>1 DEF Answered
  <2>3. excused \subseteq excused' /\ (Answered(op)' => op \notin Volatile)
    BY <1>1 DEF Answered
  <2>. SUFFICES ASSUME NEW o \in Ops, NEW other \in Ops, o # other, other \in Bars[o],
                       o \in Bars[other], Answered(o)', Answered(other)'
                PROVE  o \in excused' \/ other \in excused'
    BY DEF Exclusive
  <2>4. CASE o # op /\ other # op
    BY <2>2, <2>3, <2>4 DEF DurableInv, Exclusive
  <2>5. CASE o = op \/ other = op
    BY <2>1, <2>2, <2>3, <2>5
  <2>. QED  BY <2>4, <2>5
<1>. QED  BY <1>5, <1>6, <1>7, <1>8 DEF DurableInv

(***************************************************************************)
(* Every step of the only controller keeps what it acknowledged.           *)
(***************************************************************************)
LEMMA NextDurable ==
  OneController /\ CoherenceInv /\ DurableInv /\ [Next]_vars => DurableInv'
<1>. SUFFICES ASSUME OneController, CoherenceInv, DurableInv, [Next]_vars PROVE DurableInv'
  OBVIOUS
<1>. USE PersistenceAssumption
<1>1. ASSUME NEW op \in Ops, Apply(op) PROVE DurableInv'
  BY <1>1, ApplyKeepsDurable
<1>2. ASSUME NEW op \in Ops, Snap(op) PROVE DurableInv'
  <2>1. /\ stage[op] = "applied" /\ op \in InFlight
        /\ taken' = [taken EXCEPT ![op] = memory[server[op]]]
        /\ stage' = [stage EXCEPT ![op] = "snapped"]
        /\ UNCHANGED <<memory, up, row, server, excused>>
    BY <1>2 DEF Snap, Snapshot, InFlight
  <2>2. InFlight' = InFlight
    BY <2>1 DEF InFlight, CoherenceInv, TypeOK
  <2>3. \A o \in InFlight' \ excused' : Alone(o)'
    BY <2>1, <2>2 DEF DurableInv, Alone, CoherenceInv, TypeOK
  <2>4. \A o \in Ops \ excused' : Acknowledged(o)' => Kept(o)'
    <3>. SUFFICES ASSUME NEW o \in Ops, o \notin excused, Acknowledged(o)' PROVE Kept(o)'
      BY <2>1
    <3>1. Kept(o)
      BY <2>1 DEF Acknowledged, CoherenceInv, TypeOK, DurableInv
    <3>2. o \in memory[server[op]]
      BY <3>1, <2>1 DEF Kept, CoherenceInv
    <3>. QED  BY <3>1, <3>2, <2>1 DEF Kept, CoherenceInv, TypeOK
  <2>5. \A o \in Ops : Answered(o)' <=> Answered(o)
    BY <2>1 DEF Answered, CoherenceInv, TypeOK
  <2>. QED  BY <2>1, <2>2, <2>3, <2>4, <2>5 DEF DurableInv, Exclusive
<1>3. ASSUME NEW op \in Ops, Write(op) PROVE DurableInv'
  <2>1. /\ stage[op] = "snapped" /\ op \in InFlight
        /\ row' = taken[op]
        /\ stage' = [stage EXCEPT ![op] = "answered"]
        /\ UNCHANGED <<memory, up, server, taken, excused>>
    BY <1>3 DEF Write, InFlight
  <2>2. InFlight' = InFlight \ {op}
    BY <2>1 DEF InFlight, CoherenceInv, TypeOK
  <2>3. \A o \in InFlight' \ excused' : Alone(o)'
    BY <2>1, <2>2 DEF DurableInv, Alone
  <2>4. \A o \in Ops \ excused' : Acknowledged(o)' => Kept(o)'
    <3>. SUFFICES ASSUME NEW o \in Ops, o \notin excused, Acknowledged(o)' PROVE Kept(o)'
      BY <2>1
    <3>1. CASE o # op
      <4>1. Kept(o)
        BY <3>1, <2>1 DEF Acknowledged, CoherenceInv, TypeOK, DurableInv
      <4>. QED  BY <4>1, <2>1 DEF Kept, CoherenceInv, TypeOK
    <3>2. CASE o = op
      <4>1. Alone(op)
        BY <3>2, <2>1 DEF DurableInv
      <4>2. \A other \in Ops : stage'[other] # "snapped"
        BY <4>1, <2>1, <2>2 DEF Alone, InFlight
      <4>3. \A d \in up : d = server[op]
        BY DEF OneController, CoherenceInv, TypeOK
      <4>. QED  BY <4>1, <4>2, <4>3, <3>2, <2>1 DEF Kept, Alone
    <3>. QED  BY <3>1, <3>2
  <2>5. \A o \in Ops : Answered(o)' <=> Answered(o)
    BY <2>1 DEF Answered, CoherenceInv, TypeOK
  <2>. QED  BY <2>1, <2>2, <2>3, <2>4, <2>5 DEF DurableInv, Exclusive
<1>4. ASSUME NEW op \in Ops, WriteFails(op) PROVE DurableInv'
  <2>1. /\ stage[op] = "snapped" /\ op \in InFlight
        /\ stage' = [stage EXCEPT ![op] = "answered"]
        /\ excused' = excused \cup {op}
        /\ UNCHANGED <<memory, up, row, server, taken>>
    BY <1>4 DEF WriteFails, InFlight
  <2>2. InFlight' = InFlight \ {op}
    BY <2>1 DEF InFlight, CoherenceInv, TypeOK
  <2>3. \A o \in InFlight' \ excused' : Alone(o)'
    BY <2>1, <2>2 DEF DurableInv, Alone
  <2>4. \A o \in Ops \ excused' : Acknowledged(o)' => Kept(o)'
    BY <2>1 DEF Acknowledged, Kept, CoherenceInv, TypeOK, DurableInv
  <2>5. \A o \in Ops : Answered(o)' <=> Answered(o)
    BY <2>1 DEF Answered, CoherenceInv, TypeOK
  <2>. QED  BY <2>1, <2>2, <2>3, <2>4, <2>5 DEF DurableInv, Exclusive
<1>5. ASSUME NEW c \in Controllers, Crash(c) PROVE DurableInv'
  <2>1. /\ up' = {} /\ UNCHANGED <<memory, row, server, taken, excused>>
        /\ \A o \in Ops : stage'[o] = IF o \in InFlight THEN "lost" ELSE stage[o]
    <3>1. \A d \in Controllers : d = c
      BY DEF OneController
    <3>2. \A o \in InFlight : server[o] = c
      BY <3>1 DEF CoherenceInv, TypeOK, InFlight
    <3>. QED  BY <1>5, <3>1, <3>2 DEF Crash, CoherenceInv, TypeOK
  <2>2. InFlight' = {}
    BY <2>1 DEF InFlight
  <2>3. \A o \in Ops \ excused' : Acknowledged(o)' => Kept(o)'
    BY <2>1 DEF Acknowledged, Kept, DurableInv, InFlight
  <2>4. \A o \in Ops : Answered(o)' => Answered(o)
    BY <2>1 DEF Answered, InFlight
  <2>. QED  BY <2>1, <2>2, <2>3, <2>4 DEF DurableInv, Exclusive
<1>6. ASSUME NEW c \in Controllers, Start(c) PROVE DurableInv'
  <2>1. /\ up' = {c} /\ memory' = [memory EXCEPT ![c] = row]
        /\ UNCHANGED <<row, stage, server, taken, excused>>
        /\ up = {}
    BY <1>6 DEF Start, Restored, OneController, CoherenceInv, TypeOK
  <2>2. InFlight = {} /\ InFlight' = {}
    BY <2>1 DEF InFlight, CoherenceInv
  <2>3. \A o \in Ops \ excused' : Acknowledged(o)' => Kept(o)'
    BY <2>1, <2>2 DEF Acknowledged, Kept, DurableInv, InFlight, CoherenceInv, TypeOK
  <2>4. \A o \in Ops : Answered(o)' <=> Answered(o)
    BY <2>1 DEF Answered
  <2>. QED  BY <2>1, <2>2, <2>3, <2>4 DEF DurableInv, Exclusive
<1>7. ASSUME NEW c \in Controllers, StartUnread(c) PROVE DurableInv'
  <2>1. /\ up = {} /\ excused' = excused \cup {o \in Ops : stage[o] # "new"}
        /\ UNCHANGED <<row, stage, server, taken>>
    BY <1>7 DEF StartUnread, OneController, CoherenceInv, TypeOK
  <2>2. InFlight = {} /\ InFlight' = {}
    BY <2>1 DEF InFlight, CoherenceInv
  <2>3. \A o \in Ops \ excused' : ~Acknowledged(o)'
    BY <2>1 DEF Acknowledged
  <2>4. \A o \in Ops : Answered(o)' <=> Answered(o)
    BY <2>1 DEF Answered
  <2>. QED  BY <2>1, <2>2, <2>3, <2>4 DEF DurableInv, Exclusive
<1>8. CASE UNCHANGED vars
  BY <1>8 DEF DurableInv, InFlight, Alone, Kept, Acknowledged, Exclusive, Answered, vars
<1>. QED  BY <1>1, <1>2, <1>3, <1>4, <1>5, <1>6, <1>7, <1>8 DEF Next

(***************************************************************************)
(* With one controller an acknowledged operation survives every crash and  *)
(* restart, unless its persist failed or overlapped another one.           *)
(***************************************************************************)
THEOREM SerialPersistsLoseNothing ==
  ASSUME OneController
  PROVE  Spec => []SerialPersistIsDurable
<1>1. DurableInv => SerialPersistIsDurable
  BY DEF DurableInv, SerialPersistIsDurable, Kept
<1>2. CoherenceInv /\ DurableInv /\ [Next]_vars => (CoherenceInv /\ DurableInv)'
  BY NextCoherent, NextDurable
<1>. QED  BY <1>1, <1>2, InitCoherent, InitDurable, PTL DEF Spec

(***************************************************************************)
(* With one controller two operations that exclude each other, such as two *)
(* claims of one shard, are both acknowledged only if one was excused.     *)
(***************************************************************************)
THEOREM ClaimsStayExclusive ==
  ASSUME OneController
  PROVE  Spec => []ExclusiveAcrossRestarts
<1>1. DurableInv => ExclusiveAcrossRestarts
  BY DEF DurableInv, ExclusiveAcrossRestarts, Exclusive, Answered, Acknowledged
<1>2. CoherenceInv /\ DurableInv /\ [Next]_vars => (CoherenceInv /\ DurableInv)'
  BY NextCoherent, NextDurable
<1>. QED  BY <1>1, <1>2, InitCoherent, InitDurable, PTL DEF Spec

-----------------------------------------------------------------------------
(***************************************************************************)
(* Wherever an operation is, in a store, in a snapshot or in the row, it   *)
(* was requested, and so after its client had the answers it waited for.   *)
(***************************************************************************)
Begun(contents) == \A op \in contents : stage[op] # "new"

OrderInv ==
  /\ Begun(row)
  /\ \A c \in Controllers : Begun(memory[c])
  /\ \A op \in Ops : Begun(taken[op])
  /\ \A op \in Ops : stage[op] # "new" =>
       \A before \in Follows[op] : stage[before] = "answered"

LEMMA InitOrder == Init => OrderInv
BY DEF Init, OrderInv, Begun

(***************************************************************************)
(* No step makes an operation new again or takes an answer back.           *)
(***************************************************************************)
LEMMA NextOrder == CoherenceInv /\ OrderInv /\ [Next]_vars => OrderInv'
<1>. SUFFICES ASSUME CoherenceInv, OrderInv, [Next]_vars PROVE OrderInv'
  OBVIOUS
<1>. USE PersistenceAssumption DEF CoherenceInv, TypeOK, OrderInv, Begun
<1>1. ASSUME NEW op \in Ops, Apply(op) PROVE OrderInv'
  <2>1. /\ row' = row /\ taken' = taken /\ stage[op] = "new" /\ stage'[op] # "new"
        /\ \A o \in Ops : o # op => stage'[o] = stage[o]
        /\ \A before \in Follows[op] : stage[before] = "answered"
        /\ memory' = [memory EXCEPT ![server[op]] = @ \cup {op}]
    BY <1>1 DEF Apply
  <2>2. \A c \in Controllers : \A o \in memory'[c] : o \in memory[c] \/ o = op
    BY <2>1
  <2>3. \A o \in Ops : stage[o] # "new" => stage'[o] = stage[o]
    BY <2>1
  <2>4. \A o \in Ops : stage'[o] # "new" =>
          \A before \in Follows[o] : stage'[before] = "answered"
    BY <2>1, <2>3
  <2>. QED  BY <2>1, <2>2, <2>3, <2>4
<1>2. ASSUME NEW op \in Ops, Snap(op) PROVE OrderInv'
  BY <1>2 DEF Snap, Snapshot
<1>3. ASSUME NEW op \in Ops, Write(op) PROVE OrderInv'
  BY <1>3 DEF Write
<1>4. ASSUME NEW op \in Ops, WriteFails(op) PROVE OrderInv'
  BY <1>4 DEF WriteFails
<1>5. ASSUME NEW c \in Controllers, Crash(c) PROVE OrderInv'
  BY <1>5 DEF Crash, InFlight
<1>6. ASSUME NEW c \in Controllers, Start(c) PROVE OrderInv'
  BY <1>6 DEF Start, Restored
<1>7. ASSUME NEW c \in Controllers, StartUnread(c) PROVE OrderInv'
  BY <1>7 DEF StartUnread
<1>8. CASE UNCHANGED vars
  BY <1>8 DEF vars
<1>. QED  BY <1>1, <1>2, <1>3, <1>4, <1>5, <1>6, <1>7, <1>8 DEF Next

(***************************************************************************)
(* With one controller, what a store or the row has of a client's          *)
(* operations has no gap but where an operation was excused: CompleteShard *)
(* does not ask for the claim of a shard, and yet no restart brings back a *)
(* result without the claim before it, unless the claim's persist failed   *)
(* or overlapped another one or a startup could not read the row.          *)
(***************************************************************************)
THEOREM StoresStayCoherent ==
  ASSUME OneController
  PROVE  Spec => []StoresAreCoherent
<1>1. CoherenceInv /\ DurableInv /\ OrderInv => StoresAreCoherent
  <2>. SUFFICES ASSUME CoherenceInv, DurableInv, OrderInv PROVE StoresAreCoherent
    OBVIOUS
  <2>1. NeedsAreKept
    BY DEF CoherenceInv, Coherent, NeedsAreKept
  <2>2. ASSUME NEW op \in Ops, NEW before \in Follows[op] \ (Volatile \cup excused),
               stage[op] # "new"
        PROVE  Kept(before)
    <3>1. before \in Ops \ excused /\ Acknowledged(before)
      BY <2>2, PersistenceAssumption DEF OrderInv, Acknowledged
    <3>. QED  BY <3>1 DEF DurableInv
  <2>3. AnswersAreKept
    BY <2>2 DEF AnswersAreKept, OrderInv, Begun, Kept, CoherenceInv, TypeOK
  <2>. QED  BY <2>1, <2>3 DEF StoresAreCoherent
<1>2. CoherenceInv /\ DurableInv /\ OrderInv /\ [Next]_vars
        => (CoherenceInv /\ DurableInv /\ OrderInv)'
  BY NextCoherent, NextDurable, NextOrder
<1>. QED  BY <1>1, <1>2, InitCoherent, InitDurable, InitOrder, PTL DEF Spec
=============================================================================
