------------------------ MODULE SessionRotationProofs ------------------------
(***************************************************************************)
(* What holds of a user's sessions for any number of clients, tokens,      *)
(* sign-ins, removals and mishaps: each family has one live token, a       *)
(* retry is answered with the same successor, the caller of "sign out the  *)
(* others" keeps its family, every step is one of SessionFamilies, and,    *)
(* while no grace record expires under a removal, what was revoked stays   *)
(* revoked.                                                                *)
(***************************************************************************)
EXTENDS SessionRotation, FiniteSetTheorems, TLAPS

-----------------------------------------------------------------------------
(* The inductive invariant. *)

IsHeld(t) == refresh[t].kind # "none"

IsLive(t) == refresh[t].kind = "live"

Alive(f) == \E t \in Token : IsLive(t) /\ root[t] = f

IsFamily(f) == f \in Token /\ root[f] = f

\* The tokens are issued in order.  Those of a family form a chain: each but
\* the last was rotated into the next larger one.
ChainOK ==
    /\ \A t \in Token : root[t] # 0 => /\ root[t] <= t /\ root[root[t]] = root[t]
                                       /\ \A u \in Token : u < t => root[u] # 0
    /\ \A t \in Token : succ[t] # 0 => /\ root[t] # 0 /\ root[succ[t]] = root[t]
                                       /\ t < succ[t]
    /\ \A t, u \in Token :
          root[t] # 0 /\ root[t] = root[u] /\ t < u => succ[t] # 0 /\ succ[t] <= u
    /\ \A t \in Token : given[t] \subseteq {succ[t]}

\* The last token of a chain has a live record or none, the others have grace
\* records or none; the links lead up and down the chain.
RecordOK(t) ==
    /\ ~IsHeld(t) => refresh[t] = NoRecord
    /\ IsHeld(t) => root[t] # 0
    /\ IsLive(t) => succ[t] = 0 /\ refresh[t].next = 0
    /\ refresh[t].kind = "grace" => succ[t] # 0 /\ refresh[t].next = succ[t]
    /\ IsHeld(t) => IF refresh[t].from = 0 THEN root[t] = t ELSE succ[refresh[t].from] = t

\* What is held of a chain has no hole.
ConvexOK ==
    \A t, p, u \in Token :
        /\ IsHeld(t) /\ IsHeld(u) /\ root[t] = root[u] /\ root[p] = root[t]
        /\ t <= p /\ p <= u
        => IsHeld(p)

KeysOK ==
    /\ \A a \in Access : access[a] # 0 => root[access[a]] # 0 /\ a <= minted
    /\ \A r \in rows : root[r.token] # 0

Presenting == {"rotate", "successor", "replay"}
Before == {"find", "validate", "list", "collect"}
After == {"leftover", "sweep", "recollect", "scan", "del", "rows"}

\* What a refresh has read of the chain is still true of it, except that the
\* records may be gone.
RefreshOK(k) ==
    /\ k.pc = "idle" => k.op = "none"
    /\ k.pc \in Presenting => k.op = "refresh"
    /\ k.pc = "row" => k.op \in {"signin", "refresh"} /\ k.new # 0 /\ root[k.new] # 0
    /\ k.pc = "row" \/ k.op \in Removal \ {"all"} => k.acc # 0
    /\ k.op = "refresh" => k.tok # 0 /\ root[k.tok] # 0
    /\ k.pc = "rotate" => k.rec.kind = "live"
    /\ k.pc \in {"successor", "replay"} =>
          k.rec.kind = "grace" /\ k.rec.next # 0 /\ k.rec.next = succ[k.tok]
    /\ k.pc = "replay" => k.after.kind = "live"
    /\ k.pc = "row" /\ k.op = "refresh" => k.new = succ[k.tok]
    /\ k.pc \in Before \cup After \cup {"walk"} => k.op \in Removal

\* Where each removal passes, and what it has collected.
RemovalOK(k) ==
    /\ k.pc = "find" => k.op \in {"logout", "byId"}
    /\ k.pc \in {"validate", "list", "collect", "recollect"} => k.op = "others"
    /\ k.pc \in {"leftover", "sweep"} => k.op = "all"
    /\ \A t \in k.starts \cup k.keep : root[t] # 0
    /\ \A f \in k.owed : IsFamily(f)
    /\ k.op # "others" \/ k.pc \in Before => k.keep = {}
    /\ \A t \in k.keep : root[t] \notin k.owed
    /\ k.pc = "sweep" => \A t \in Token, p \in k.starts : IsHeld(t) /\ t < p => t \in k.starts
    /\ k.op = "byId" => k.tok # 0 /\ root[k.tok] # 0 /\ k.tok \in k.starts
    /\ k.op = "byId" /\ k.pc \in After => ~IsHeld(k.tok)

\* What a removal of the others keeps: all records of the caller's family that
\* its walk could start from, or none.
OthersOK(k) ==
    k.op = "others" =>
    /\ k.acc <= minted
    /\ k.tok # 0 => root[k.tok] # 0
    /\ k.pc # "validate" => access[k.acc] \in {0, k.tok}
    /\ k.pc \in {"walk"} \cup After /\ k.tok # 0 => k.tok \in k.keep
    /\ \A t \in k.keep : k.tok # 0 /\ root[t] = root[k.tok]
    /\ k.pc = "walk" /\ k.tok # 0 =>
          \/ \A t \in k.starts : IsHeld(t) /\ root[t] = root[k.tok] => t \in k.keep
          \/ k.keep = {k.tok} /\ ~IsHeld(k.tok)

CallOK(c) == RefreshOK(call[c]) /\ RemovalOK(call[c]) /\ OthersOK(call[c])

Inv ==
    /\ TypeOK /\ ChainOK /\ ConvexOK /\ KeysOK
    /\ \A t \in Token : RecordOK(t)
    /\ \A c \in Client : CallOK(c)

\* A removal ends the families it owes the end of, but for those that were cut:
\* before its walk each that is alive has a record the walk starts from; after
\* it none is alive, and in the end no access key of them is left.
OwedOK(k) ==
    /\ k.pc = "collect" => \A f \in Families(k.starts) \ cut :
          Alive(f) => \E t \in k.starts : IsHeld(t) /\ root[t] = f
    /\ k.pc = "walk" => \A f \in k.owed \ cut :
          Alive(f) => \E t \in k.starts : IsHeld(t) /\ root[t] = f
    /\ k.pc \in After => \A f \in k.owed \ cut : ~Alive(f)
    /\ k.op \in {"all", "others"} /\ k.pc \in {"del", "rows"} =>
          \A f \in k.owed \ cut, a \in Caller :
              root[access[a]] = f => k.pc = "del" /\ a \in k.keys

RevokedOK ==
    /\ revoked.access \subseteq revoked.refresh
    /\ \A f \in revoked.refresh : IsFamily(f)
    /\ \A f \in revoked.refresh \ cut : ~Alive(f)
    /\ \A f \in revoked.access \ cut, a \in Caller : root[access[a]] # f

RevokeInv == RevokedOK /\ \A c \in Client : OwedOK(call[c])

-----------------------------------------------------------------------------
(* Largest and smallest tokens. *)

LEMMA LeastSubset ==
    ASSUME NEW S, IsFiniteSet(S), NEW T \in SUBSET SUBSET S, T # {}
    PROVE  \E x \in T : \A y \in T : y \subseteq x => y = x
  <1>1. IsWellFoundedOn(StrictSubsetOrdering(S), SUBSET S)
    BY FS_StrictSubsetOrderingWellFounded, FS_FiniteSubsetsOfFinite
  <1>2. \E x \in T : \A y \in T : ~ (<<y, x>> \in StrictSubsetOrdering(S))
    BY <1>1, WFMin
  <1>3. \A x, y \in SUBSET S : y \subseteq x /\ y # x => <<y, x>> \in StrictSubsetOrdering(S)
    BY DEF StrictSubsetOrdering
  <1> QED
    BY <1>2, <1>3

\* A set of tokens has a smallest and a largest one.
LEMMA Extremes ==
    ASSUME NEW T \in SUBSET Token, T # {}
    PROVE  /\ \E x \in T : \A y \in T : x <= y
           /\ \E x \in T : \A y \in T : y <= x
  <1>1. MaxTokens \in Nat /\ IsFiniteSet(Token)
    BY BoundAssumption, FS_Interval DEF Token
  <1>2. \A x \in Token : x \in Nat /\ x <= MaxTokens
    BY <1>1 DEF Token
  <1>3. \E x \in T : \A y \in T : x <= y
    <2> DEFINE Below == {1..x : x \in T}
    <2>1. \A x \in T : 1..x \in SUBSET Token
      BY <1>1, <1>2 DEF Token
    <2>2. Below \subseteq SUBSET Token /\ Below # {}
      BY <2>1
    <2>3. PICK b \in Below : \A y \in Below : y \subseteq b => y = b
      <3> HIDE DEF Below
      <3> QED
        BY <1>1, <2>2, LeastSubset
    <2>4. PICK x \in T : b = 1..x
      BY <2>3
    <2>5. ASSUME NEW y \in T, y < x PROVE FALSE
      <3>1. 1..y \subseteq 1..x /\ x \in 1..x /\ x \notin 1..y
        BY <2>5, <1>2 DEF Token
      <3> QED
        BY <3>1, <2>3, <2>4
    <2> QED
      BY <2>5, <1>2
  <1>4. \E x \in T : \A y \in T : y <= x
    <2> DEFINE Above == {x..MaxTokens : x \in T}
    <2>1. \A x \in T : x..MaxTokens \in SUBSET Token
      BY <1>1, <1>2 DEF Token
    <2>2. Above \subseteq SUBSET Token /\ Above # {}
      BY <2>1
    <2>3. PICK b \in Above : \A y \in Above : y \subseteq b => y = b
      <3> HIDE DEF Above
      <3> QED
        BY <1>1, <2>2, LeastSubset
    <2>4. PICK x \in T : b = x..MaxTokens
      BY <2>3
    <2>5. ASSUME NEW y \in T, x < y PROVE FALSE
      <3>1. y..MaxTokens \subseteq x..MaxTokens /\ x \in x..MaxTokens /\ x \notin y..MaxTokens
        BY <2>5, <1>1, <1>2
      <3> QED
        BY <3>1, <2>3, <2>4
    <2> QED
      BY <2>5, <1>2
  <1> QED
    BY <1>3, <1>4

-----------------------------------------------------------------------------
(* What a walk reaches. *)

Store == TypeOK /\ ChainOK /\ ConvexOK /\ \A t \in Token : RecordOK(t)

LEMMA LinksOfRecords ==
    ASSUME Store, NEW t \in Token
    PROVE  /\ Links(t) \subseteq Token
           /\ Links(t) # {} => IsHeld(t)
           /\ \A u \in Links(t) : root[u] = root[t]
  <1>1. /\ refresh[t] \in Record /\ MaxTokens \in Nat /\ 0 \notin Token
        /\ refresh[t].next \in 0..MaxTokens /\ refresh[t].from \in 0..MaxTokens
        /\ Token = (0..MaxTokens) \ {0}
    BY BoundAssumption DEF Store, TypeOK, Record, Token
  <1>2. ~IsHeld(t) => Links(t) = {}
    BY DEF Store, RecordOK, Links, NoRecord
  <1>3. refresh[t].next # 0 /\ IsHeld(t) => root[refresh[t].next] = root[t]
    <2>1. refresh[t].kind \in {"none", "live", "grace"}
      BY <1>1 DEF Record
    <2> QED
      BY <2>1 DEF Store, RecordOK, ChainOK, IsHeld, IsLive
  <1>4. refresh[t].from # 0 /\ IsHeld(t) => root[refresh[t].from] = root[t]
    <2>1. refresh[t].from # 0 => refresh[t].from \in Token
      BY <1>1
    <2>2. ASSUME NEW p \in Token, succ[p] = t PROVE root[p] = root[t]
      BY <2>2, <1>1 DEF Store, ChainOK
    <2> QED
      BY <2>1, <2>2 DEF Store, RecordOK
  <1> QED
    BY <1>1, <1>2, <1>3, <1>4 DEF Links

LEMMA ReachStarts ==
    ASSUME NEW starts, NEW skip, NEW t \in Token, t \in starts, t \notin skip
    PROVE  t \in Reach(starts, skip)
  BY DEF Reach, Closed

LEMMA ReachLinks ==
    ASSUME Store, NEW starts, NEW skip, NEW t \in Reach(starts, skip), NEW u \in Links(t), u \notin skip
    PROVE  u \in Reach(starts, skip)
  BY LinksOfRecords DEF Reach, Closed

LEMMA ReachWithin ==
    ASSUME NEW starts, NEW skip, NEW S \in SUBSET Token, Closed(S, starts, skip)
    PROVE  Reach(starts, skip) \subseteq S
  BY DEF Reach

\* It stays in the families it starts in, and goes nowhere without a record.
LEMMA ReachFamilies ==
    ASSUME Store, NEW starts \in SUBSET Token, NEW skip, NEW t \in Reach(starts, skip)
    PROVE  \E s \in starts \ skip : root[s] = root[t] /\ (s = t \/ IsHeld(s))
  <1> DEFINE S == {u \in Token : \E s \in starts \ skip : root[s] = root[u] /\ (s = u \/ IsHeld(s))}
  <1>1. Closed(S, starts, skip)
    <2>1. ASSUME NEW u \in S, NEW v \in Links(u) PROVE v \in S
      BY <2>1, LinksOfRecords
    <2> QED
      BY <2>1 DEF Closed
  <1>2. Reach(starts, skip) \subseteq S
    <2> HIDE DEF S
    <2> QED
      BY <1>1, ReachWithin DEF S
  <1> QED
    BY <1>2

\* Where it finds a record of a family, it finds all, unless it skips one.
LEMMA ReachWhole ==
    ASSUME Store, NEW starts \in SUBSET Token, NEW skip,
           NEW t \in Reach(starts, skip), IsHeld(t),
           NEW u \in Token, IsHeld(u), root[u] = root[t],
           \A p \in skip : IsHeld(p) => root[p] # root[t]
    PROVE  u \in Reach(starts, skip)
  <1> DEFINE R == Reach(starts, skip)
             F == {p \in R : IsHeld(p) /\ root[p] = root[t]}
  <1>1. t \in Token /\ R \subseteq Token /\ F \subseteq Token
    BY DEF Reach
  <1>2. \A p \in Token : p \in Nat /\ p # 0
    BY BoundAssumption DEF Token
  <1>3. root[u] # 0
    BY DEF Store, RecordOK
  <1>4. ASSUME NEW m \in F, NEW p \in Links(m), IsHeld(p)
        PROVE  p \in F
    <2>1. m \in Token /\ root[p] = root[m] /\ root[m] = root[t]
      BY <1>1, <1>4, LinksOfRecords
    <2>2. p \notin skip
      BY <2>1, <1>4
    <2>3. p \in R
      BY <2>2, ReachLinks
    <2> QED
      BY <1>4, <2>1, <2>3
  <1>5. CASE t <= u
    <2> DEFINE T == {p \in F : p <= u}
    <2>1. T \in SUBSET Token /\ t \in T
      BY <1>1, <1>5
    <2>2. PICK m \in T : \A y \in T : y <= m
      <3> HIDE DEF T
      <3> QED
        BY <2>1, Extremes
    <2>3. SUFFICES ASSUME m # u PROVE FALSE
      BY <2>2
    <2>4. m \in Token /\ IsHeld(m) /\ m < u /\ root[m] = root[u] /\ root[m] # 0
      BY <1>1, <1>2, <1>3, <2>2, <2>3
    <2>5. succ[m] # 0 /\ succ[m] <= u
      BY <2>4 DEF Store, ChainOK
    <2>6. succ[m] \in Token /\ m < succ[m] /\ root[succ[m]] = root[m]
      <3>1. succ[m] \in 0..MaxTokens /\ MaxTokens \in Nat
        BY <2>4, BoundAssumption DEF Store, TypeOK
      <3>2. succ[m] \in Token
        BY <2>5, <3>1 DEF Token
      <3> QED
        BY <2>4, <2>5, <3>2 DEF Store, ChainOK
    <2>7. IsHeld(succ[m])
      <3>1. m <= succ[m]
        BY <1>2, <2>4, <2>6
      <3> QED
        BY <2>4, <2>5, <2>6, <3>1 DEF Store, ConvexOK
    <2>8. refresh[m].next = succ[m]
      <3>1. refresh[m].kind \in {"none", "live", "grace"}
        BY <2>4 DEF Store, TypeOK, Record
      <3> QED
        BY <3>1, <2>4, <2>5 DEF Store, RecordOK, IsHeld, IsLive
    <2>9. succ[m] \in Links(m)
      BY <2>5, <2>8 DEF Links
    <2>10. succ[m] \in F
      <3> HIDE DEF F
      <3> QED
        BY <1>4, <2>2, <2>7, <2>9
    <2>11. succ[m] \in T
      BY <2>10, <2>5
    <2> QED
      BY <2>2, <2>4, <2>6, <2>11, <1>2
  <1>6. CASE u < t
    <2> DEFINE T == {p \in F : u <= p}
    <2>1. T \in SUBSET Token /\ t \in T
      BY <1>1, <1>2, <1>6
    <2>2. PICK m \in T : \A y \in T : m <= y
      <3> HIDE DEF T
      <3> QED
        BY <2>1, Extremes
    <2>3. SUFFICES ASSUME m # u PROVE FALSE
      BY <2>2
    <2>4. m \in Token /\ IsHeld(m) /\ u < m /\ root[m] = root[u] /\ root[m] # 0
      BY <1>1, <1>2, <1>3, <2>2, <2>3
    <2> DEFINE p == refresh[m].from
    <2>5. p \in Token /\ succ[p] = m
      <3>1. p \in 0..MaxTokens /\ MaxTokens \in Nat
        BY <2>4, BoundAssumption DEF Store, TypeOK, Record
      <3>2. p = 0 => root[m] = m
        BY <2>4 DEF Store, RecordOK
      <3>3. root[u] <= u /\ root[u] \in 0..MaxTokens
        BY <1>3 DEF Store, ChainOK, TypeOK
      <3>4. p # 0
        BY <1>2, <2>4, <3>1, <3>2, <3>3
      <3> QED
        BY <2>4, <3>1, <3>4 DEF Store, RecordOK, Token
    <2>6. root[p] = root[m] /\ p < m
      <3> HIDE DEF p
      <3> QED
        BY <1>2, <2>4, <2>5 DEF Store, ChainOK
    <2>7. u <= p
      <3> HIDE DEF p
      <3>1. ~ (p < u)
        BY <1>2, <2>4, <2>5, <2>6 DEF Store, ChainOK
      <3> QED
        BY <3>1, <1>2, <2>5
    <2>8. IsHeld(p)
      <3> HIDE DEF p
      <3>1. p <= m
        BY <1>2, <2>4, <2>5, <2>6
      <3> QED
        BY <2>4, <2>5, <2>6, <2>7, <3>1 DEF Store, ConvexOK
    <2>9. p \in Links(m)
      BY <1>2, <2>5 DEF Links
    <2>10. p \in F
      <3> HIDE DEF F
      <3> QED
        BY <1>4, <2>2, <2>8, <2>9
    <2>11. p \in T
      BY <2>10, <2>7
    <2> QED
      BY <2>2, <2>4, <2>5, <2>6, <2>11, <1>2
  <1> QED
    BY <1>1, <1>2, <1>5, <1>6

-----------------------------------------------------------------------------
(* What a step may do. *)

\* An issued token keeps its family and its successor, and is not held again.
TokenStep ==
    \A t \in Token : root[t] # 0 => /\ root'[t] = root[t]
                                    /\ succ[t] # 0 => succ'[t] = succ[t]
                                    /\ IsHeld(t)' => IsHeld(t)

\* A token that becomes live is new: it founds a family or joins one that is alive.
LiveStep ==
    \A t \in Token : IsLive(t)' =>
        \/ IsLive(t)
        \/ root[t] = 0 /\ (root'[t] = t \/ Alive(root'[t]))

\* An access key is written once, for a live token.
KeyStep ==
    /\ minted <= minted'
    /\ \A a \in Access : access'[a] # 0 =>
          \/ access'[a] = access[a]
          \/ /\ a > minted /\ a <= minted'
             /\ access'[a] \in Token /\ refresh'[access'[a]].kind = "live"

StepOK == TokenStep /\ LiveStep /\ KeyStep /\ cut \subseteq cut'

LEMMA Moves ==
    ASSUME [Next]_vars
    PROVE  \/ UNCHANGED <<refresh, access, root, succ, minted, cut>>
           \/ \E c \in Client : \/ SignIn(c) \/ Rotate(c) \/ Replay(c) \/ Walk(c)
                                \/ Sweep(c) \/ Del(c) \/ DeleteRows(c)
           \/ \E t \in Token : GraceExpires(t) \/ LiveExpires(t)
           \/ \E a \in Access : AccessExpires(a)
  <1>1. CASE UNCHANGED vars
    BY <1>1 DEF vars
  <1>2. ASSUME NEW c \in Client, Arriving(c)
        PROVE  SignIn(c) \/ UNCHANGED <<refresh, access, root, succ, minted, cut>>
    BY <1>2 DEF Arriving, Present, Logout, RevokeListed, RevokeAll, RevokeOthers, Begin
  <1>3. ASSUME NEW c \in Client, Refreshing(c)
        PROVE  Rotate(c) \/ Replay(c) \/ UNCHANGED <<refresh, access, root, succ, minted, cut>>
    BY <1>3 DEF Refreshing, LoseRotation, ReadSuccessor, RefuseReplay, WriteRow, RowFails
  <1>4. ASSUME NEW c \in Client, Removing(c)
        PROVE  \/ Walk(c) \/ Sweep(c) \/ Del(c) \/ DeleteRows(c)
               \/ UNCHANGED <<refresh, access, root, succ, minted, cut>>
    BY <1>4 DEF Removing, Find, Validate, List, Collect, Leftover, Recollect, Scan, Local
  <1>5. ASSUME NEW c \in Client, Crash(c)
        PROVE  UNCHANGED <<refresh, access, root, succ, minted, cut>>
    BY <1>5 DEF Crash
  <1> QED
    BY <1>1, <1>2, <1>3, <1>4, <1>5 DEF Next

\* Tokens are issued in order, so a fresh one is larger than all others.
LEMMA FreshIsLast ==
    ASSUME ChainOK, NEW t \in Token, Fresh(t), NEW u \in Token, root[u] # 0
    PROVE  u < t
  <1>1. t \in Nat /\ u \in Nat
    BY BoundAssumption DEF Token
  <1> QED
    BY <1>1 DEF ChainOK, Fresh

\* Records that go, and nothing else of the tokens.
Lose(S) ==
    /\ refresh' = [t \in Token |-> IF t \in S THEN NoRecord ELSE refresh[t]]
    /\ UNCHANGED <<root, succ>>

LEMMA Losses ==
    ASSUME Inv, [Next]_vars
    PROVE  /\ \A c \in Client : Walk(c) => Lose(Reach(call[c].starts, call[c].keep))
           /\ \A c \in Client : Sweep(c) => Lose(call[c].starts)
           /\ \A c \in Client : DeleteRows(c) => Lose({})
           /\ \A t \in Token : GraceExpires(t) \/ LiveExpires(t) => Lose({t})
  <1>1. refresh \in [Token -> Record]
    BY DEF Inv, TypeOK
  <1>2. ASSUME NEW c \in Client, DeleteRows(c) PROVE Lose({})
    <2>1. call[c].op = "byId" => refresh[call[c].tok] = NoRecord
      <3>1. call[c].tok \in 0..MaxTokens /\ call[c].pc = "rows"
        BY <1>2 DEF Inv, TypeOK, Call, DeleteRows
      <3>2. call[c].op = "byId" => call[c].tok # 0 /\ ~IsHeld(call[c].tok)
        BY <3>1 DEF Inv, CallOK, RemovalOK, After
      <3> QED
        BY <3>1, <3>2, BoundAssumption DEF Inv, RecordOK, Token
    <2> QED
      BY <1>1, <1>2, <2>1 DEF DeleteRows, Lose
  <1>3. ASSUME NEW t \in Token, GraceExpires(t) \/ LiveExpires(t) PROVE Lose({t})
    BY <1>1, <1>3 DEF GraceExpires, LiveExpires, Lose
  <1> QED
    BY <1>2, <1>3 DEF Walk, Sweep, Lose

LEMMA LosesNothing ==
    ASSUME Inv, NEW S, Lose(S)
    PROVE  TokenStep /\ LiveStep
  <1>1. \A t \in Token : refresh'[t] = IF t \in S THEN NoRecord ELSE refresh[t]
    BY DEF Lose
  <1> QED
    BY <1>1 DEF TokenStep, LiveStep, IsHeld, IsLive, NoRecord, Lose

LEMMA StepLemma ==
    ASSUME Inv, [Next]_vars
    PROVE  StepOK
  <1> USE BoundAssumption
  <1>1. /\ refresh \in [Token -> Record] /\ access \in [Access -> 0..MaxTokens]
        /\ root \in [Token -> 0..MaxTokens] /\ succ \in [Token -> 0..MaxTokens]
        /\ minted \in 0..MaxAccess /\ call \in [Client -> Call]
        /\ MaxTokens \in Nat /\ MaxAccess \in Nat
    BY DEF Inv, TypeOK
  <1>2. minted \in Nat /\ \A t \in Token : IsLive(t) => IsHeld(t)
    BY <1>1 DEF IsLive, IsHeld
  <1>3. CASE UNCHANGED <<refresh, access, root, succ, minted, cut>>
    BY <1>2, <1>3 DEF StepOK, TokenStep, LiveStep, KeyStep, IsHeld, IsLive
  <1>4. ASSUME NEW c \in Client, SignIn(c) PROVE StepOK
    <2>1. PICK t \in Token :
             /\ Fresh(t) /\ minted < MaxAccess /\ minted' = minted + 1
             /\ refresh' = [refresh EXCEPT ![t] = Live(minted + 1, 0)]
             /\ access' = [access EXCEPT ![minted + 1] = t]
             /\ root' = [root EXCEPT ![t] = t] /\ UNCHANGED <<succ, cut>>
      BY <1>4 DEF SignIn
    <2>2. root[t] = 0 /\ root'[t] = t /\ IsLive(t)'
      BY <1>1, <2>1 DEF Fresh, IsLive, Live
    <2>3. \A u \in Token : u # t => refresh'[u] = refresh[u] /\ root'[u] = root[u]
      BY <1>1, <2>1
    <2>4. TokenStep /\ LiveStep
      BY <2>1, <2>2, <2>3 DEF TokenStep, LiveStep, IsHeld, IsLive
    <2>5. KeyStep
      BY <1>1, <1>2, <2>1, <2>2 DEF KeyStep, Access, IsLive
    <2> QED
      BY <2>1, <2>4, <2>5 DEF StepOK
  <1>5. ASSUME NEW c \in Client, Rotate(c) PROVE StepOK
    <2> DEFINE k == call[c].tok
    <2>1. PICK t \in Token :
             /\ Fresh(t) /\ minted < MaxAccess /\ minted' = minted + 1
             /\ refresh' = [refresh EXCEPT ![k] = Grace(call[c].rec, t),
                                           ![t] = Live(minted + 1, k)]
             /\ access' = [access EXCEPT ![minted + 1] = t]
             /\ root' = [root EXCEPT ![t] = root[k]]
             /\ succ' = [succ EXCEPT ![k] = t] /\ UNCHANGED cut
      BY <1>5 DEF Rotate
    <2>2. k \in Token /\ root[k] # 0 /\ IsLive(k) /\ succ[k] = 0
      <3>1. k \in 0..MaxTokens /\ call[c].pc = "rotate" /\ refresh[k] = call[c].rec
        BY <1>1, <1>5 DEF Rotate, Unrotated, Call
      <3>2. k # 0 /\ root[k] # 0 /\ call[c].rec.kind = "live"
        BY <3>1 DEF Inv, CallOK, RefreshOK, Presenting
      <3> QED
        BY <1>1, <3>1, <3>2 DEF Inv, RecordOK, IsLive, Token
    <2>3. root[t] = 0 /\ t # k /\ root'[t] = root[k] /\ IsLive(t)'
      BY <1>1, <2>1, <2>2 DEF Fresh, IsLive, Live
    <2>4. \A u \in Token : /\ u # t => root'[u] = root[u]
                           /\ u # t /\ u # k => refresh'[u] = refresh[u]
                           /\ u # k => succ'[u] = succ[u]
      BY <1>1, <2>1
    <2>5. refresh'[k].kind # "live"
      <3>1. call[c].rec \in Record
        BY <1>1 DEF Call
      <3>2. Grace(call[c].rec, t).kind = "grace"
        BY <3>1 DEF Grace, Record
      <3>3. refresh'[k] = Grace(call[c].rec, t)
        BY <1>1, <2>1, <2>2, <2>3
      <3> QED
        BY <3>2, <3>3
    <2>6. Alive(root'[t])
      BY <2>2, <2>3 DEF Alive
    <2>7. TokenStep
      <3> HIDE DEF k
      <3> QED
        BY <1>2, <2>2, <2>3, <2>4 DEF TokenStep, IsHeld
    <2>8. LiveStep
      <3> HIDE DEF k
      <3> QED
        BY <2>2, <2>3, <2>4, <2>5, <2>6 DEF LiveStep, IsLive
    <2>9. KeyStep
      BY <1>1, <1>2, <2>1, <2>3 DEF KeyStep, Access, IsLive
    <2> QED
      BY <2>1, <2>7, <2>8, <2>9 DEF StepOK
  <1>6. ASSUME NEW c \in Client, Replay(c) PROVE StepOK
    <2> DEFINE n == call[c].rec.next
    <2>1. /\ minted' = minted + 1 /\ minted < MaxAccess
          /\ access' = [access EXCEPT ![minted + 1] = n]
          /\ UNCHANGED <<refresh, root, succ, cut>>
          /\ call[c].pc = "replay" /\ refresh[n] = call[c].after
      BY <1>6 DEF Replay, Unmoved
    <2>2. n # 0 /\ call[c].after.kind = "live"
      BY <2>1 DEF Inv, CallOK, RefreshOK, Presenting
    <2>3. n \in Token
      BY <1>1, <2>2 DEF Call, Record, Token
    <2>4. refresh'[n].kind = "live"
      BY <2>1, <2>2
    <2>5. TokenStep /\ LiveStep
      BY <2>1 DEF TokenStep, LiveStep, IsHeld, IsLive
    <2>6. KeyStep
      <3> HIDE DEF n
      <3> QED
        BY <1>1, <1>2, <2>1, <2>3, <2>4 DEF KeyStep, Access
    <2> QED
      BY <2>1, <2>5, <2>6 DEF StepOK
  <1>7. ASSUME NEW c \in Client, Walk(c) \/ Sweep(c) \/ DeleteRows(c) PROVE StepOK
    <2>1. TokenStep /\ LiveStep
      BY <1>7, Losses, LosesNothing
    <2>2. UNCHANGED <<access, minted>> /\ cut \subseteq cut'
      BY <1>7 DEF Walk, Sweep, DeleteRows
    <2> QED
      BY <1>2, <2>1, <2>2 DEF StepOK, KeyStep
  <1>8. ASSUME NEW c \in Client, Del(c) PROVE StepOK
    BY <1>1, <1>2, <1>8 DEF Del, StepOK, TokenStep, LiveStep, KeyStep, IsHeld, IsLive
  <1>9. ASSUME NEW t \in Token, GraceExpires(t) \/ LiveExpires(t) PROVE StepOK
    <2>1. TokenStep /\ LiveStep
      BY <1>9, Losses, LosesNothing
    <2>2. UNCHANGED <<minted, cut>> /\ \A a \in Access : access'[a] \in {0, access[a]}
      BY <1>1, <1>9 DEF GraceExpires, LiveExpires
    <2> QED
      BY <1>2, <2>1, <2>2 DEF StepOK, KeyStep
  <1>10. ASSUME NEW a \in Access, AccessExpires(a) PROVE StepOK
    BY <1>1, <1>2, <1>10 DEF AccessExpires, StepOK, TokenStep, LiveStep, KeyStep, IsHeld, IsLive
  <1> QED
    BY <1>3, <1>4, <1>5, <1>6, <1>7, <1>8, <1>9, <1>10, Moves

-----------------------------------------------------------------------------
(* Types. *)

LEMMA Becomes ==
    ASSUME call \in [Client -> Call], NEW c \in Client, NEW k \in Call, Become(c, k)
    PROVE  /\ call' \in [Client -> Call] /\ call'[c] = k
           /\ \A d \in Client : d # c => call'[d] = call[d]
  BY DEF Become

LEMMA TypeOfRecords ==
    /\ NoRecord \in Record
    /\ \A a \in 0..MaxAccess, f \in 0..MaxTokens : Live(a, f) \in Record
    /\ \A r \in Record, t \in 0..MaxTokens : Grace(r, t) \in Record
    /\ Idle \in Call
  <1>1. NoRecord \in Record
    BY BoundAssumption DEF NoRecord, Record
  <1>2. \A a \in 0..MaxAccess, f \in 0..MaxTokens : Live(a, f) \in Record
    BY BoundAssumption DEF Live, Record
  <1>3. \A r \in Record, t \in 0..MaxTokens : Grace(r, t) \in Record
    <2> SUFFICES ASSUME NEW r \in Record, NEW t \in 0..MaxTokens PROVE Grace(r, t) \in Record
      OBVIOUS
    <2> QED
      BY DEF Grace, Record
  <1>4. Idle \in Call
    BY <1>1, BoundAssumption DEF Idle, Call
  <1> QED
    BY <1>1, <1>2, <1>3, <1>4

LEMMA TypeArriving ==
    ASSUME Inv, NEW c \in Client, Arriving(c)
    PROVE  TypeOK'
  <1> USE BoundAssumption
  <1>1. /\ TypeOK /\ MaxTokens \in Nat /\ MaxAccess \in Nat /\ Token \subseteq 0..MaxTokens
        /\ MaxSignIns \in Nat /\ MaxRemovals \in Nat
    BY DEF Inv, Token
  <1>2. Held \subseteq Token /\ Families(Held) \subseteq Token
    <2>1. \A t \in Held : root[t] \in 0..MaxTokens /\ root[t] # 0
      BY <1>1 DEF Held, TypeOK, Inv, RecordOK, IsHeld
    <2> QED
      BY <2>1 DEF Held, Families, Token
  <1>3. SUFFICES /\ call' \in [Client -> Call]
                 /\ refresh' \in [Token -> Record] /\ access' \in [Access -> 0..MaxTokens]
                 /\ rows' \subseteq Row /\ root' \in [Token -> 0..MaxTokens]
                 /\ minted' \in 0..MaxAccess
                 /\ signIns' \in 0..MaxSignIns /\ removals' \in 0..MaxRemovals
                 /\ UNCHANGED <<succ, given, revoked, cut, mishaps>>
    BY <1>1 DEF TypeOK
  <1>4. CASE SignIn(c)
    <2>1. PICK t \in Token :
             /\ minted < MaxAccess /\ minted' = minted + 1
             /\ signIns < MaxSignIns /\ signIns' = signIns + 1
             /\ refresh' = [refresh EXCEPT ![t] = Live(minted + 1, 0)]
             /\ access' = [access EXCEPT ![minted + 1] = t]
             /\ root' = [root EXCEPT ![t] = t]
             /\ Become(c, [Idle EXCEPT !.pc = "row", !.op = "signin",
                              !.new = t, !.acc = minted + 1])
             /\ UNCHANGED <<rows, succ, given, revoked, cut, removals, mishaps>>
      BY <1>4 DEF SignIn
    <2>2. minted + 1 \in 0..MaxAccess /\ t \in 0..MaxTokens /\ signIns + 1 \in 0..MaxSignIns
      <3>1. minted \in 0..MaxAccess /\ signIns \in 0..MaxSignIns
        BY <1>1 DEF TypeOK
      <3> QED
        BY <1>1, <2>1, <3>1
    <2>3. Live(minted + 1, 0) \in Record
      BY <1>1, <2>2, TypeOfRecords
    <2>4. [Idle EXCEPT !.pc = "row", !.op = "signin", !.new = t, !.acc = minted + 1] \in Call
      BY <2>2, TypeOfRecords DEF Idle, Call
    <2>5. call' \in [Client -> Call]
      BY <1>1, <2>1, <2>4, Becomes DEF TypeOK
    <2>6. /\ refresh' \in [Token -> Record] /\ access' \in [Access -> 0..MaxTokens]
          /\ root' \in [Token -> 0..MaxTokens]
      BY <1>1, <2>1, <2>2, <2>3 DEF TypeOK
    <2> QED
      BY <1>1, <2>1, <2>2, <2>5, <2>6 DEF TypeOK
  <1>5. CASE Present(c)
    <2>1. PICK t \in Held :
             Become(c, [Idle EXCEPT !.pc = IF refresh[t].kind = "grace" THEN "successor" ELSE "rotate",
                                    !.op = "refresh", !.tok = t, !.rec = refresh[t]])
      BY <1>5 DEF Present
    <2>2. refresh[t] \in Record /\ t \in 0..MaxTokens
      BY <1>1, <1>2 DEF TypeOK
    <2>3. [Idle EXCEPT !.pc = IF refresh[t].kind = "grace" THEN "successor" ELSE "rotate",
                       !.op = "refresh", !.tok = t, !.rec = refresh[t]] \in Call
      BY <2>2, TypeOfRecords DEF Idle, Call
    <2> QED
      BY <1>1, <1>5, <2>1, <2>3, Becomes DEF Present, TypeOK, limits
  <1>6. ASSUME NEW k \in Call, Begin(c, k)
        PROVE  /\ call' \in [Client -> Call] /\ removals' \in 0..MaxRemovals
               /\ UNCHANGED <<refresh, access, root, succ, given, minted, revoked, cut,
                              signIns, mishaps>>
    BY <1>1, <1>6, Becomes DEF Begin, TypeOK
  <1>7. CASE Logout(c)
    <2>1. PICK a \in Caller : /\ Begin(c, [Idle EXCEPT !.pc = "find", !.op = "logout", !.acc = a])
                              /\ UNCHANGED rows
      BY <1>7 DEF Logout
    <2>2. [Idle EXCEPT !.pc = "find", !.op = "logout", !.acc = a] \in Call
      <3>1. a \in 0..MaxAccess
        BY <1>1 DEF Caller, Access
      <3> QED
        BY <3>1, TypeOfRecords DEF Idle, Call, Removal
    <2> QED
      BY <1>1, <1>6, <2>1, <2>2 DEF TypeOK
  <1>8. CASE RevokeListed(c)
    <2>1. PICK r \in rows :
             /\ Begin(c, [Idle EXCEPT !.pc = "find", !.op = "byId", !.acc = r.access,
                             !.tok = r.token, !.starts = {r.token}])
             /\ rows' = rows \ {r}
      BY <1>8 DEF RevokeListed
    <2>2. r.token \in Token /\ r.access \in 0..MaxAccess
      BY <1>1 DEF TypeOK, Row, Access
    <2>3. [Idle EXCEPT !.pc = "find", !.op = "byId", !.acc = r.access,
                       !.tok = r.token, !.starts = {r.token}] \in Call
      BY <1>1, <2>2, TypeOfRecords DEF Idle, Call, Removal
    <2> QED
      BY <1>1, <1>6, <2>1, <2>3 DEF TypeOK
  <1>9. CASE RevokeAll(c)
    <2>1. [Idle EXCEPT !.pc = "walk", !.op = "all", !.starts = Held,
                       !.owed = Families(Held)] \in Call
      BY <1>2, TypeOfRecords DEF Idle, Call, Removal
    <2> QED
      BY <1>1, <1>6, <1>9, <2>1 DEF RevokeAll, TypeOK
  <1>10. CASE RevokeOthers(c)
    <2>1. PICK a \in Caller : /\ Begin(c, [Idle EXCEPT !.pc = "validate", !.op = "others", !.acc = a])
                              /\ UNCHANGED rows
      BY <1>10 DEF RevokeOthers
    <2>2. [Idle EXCEPT !.pc = "validate", !.op = "others", !.acc = a] \in Call
      <3>1. a \in 0..MaxAccess
        BY <1>1 DEF Caller, Access
      <3> QED
        BY <3>1, TypeOfRecords DEF Idle, Call, Removal
    <2> QED
      BY <1>1, <1>6, <2>1, <2>2 DEF TypeOK
  <1> QED
    BY <1>4, <1>5, <1>7, <1>8, <1>9, <1>10 DEF Arriving

LEMMA TypeRefreshing ==
    ASSUME Inv, NEW c \in Client, Refreshing(c)
    PROVE  TypeOK'
  <1> USE BoundAssumption
  <1> DEFINE k == call[c]
  <1>1. /\ TypeOK /\ MaxTokens \in Nat /\ MaxAccess \in Nat /\ MaxMishaps \in Nat
        /\ Token = (0..MaxTokens) \ {0} /\ Access = (0..MaxAccess) \ {0}
    BY DEF Inv, Token, Access
  <1>2. k \in Call /\ RefreshOK(k)
    BY <1>1 DEF TypeOK, Inv, CallOK
  <1>3. /\ k.rec \in Record /\ k.rec.next \in 0..MaxTokens
        /\ k.tok \in 0..MaxTokens /\ k.new \in 0..MaxTokens /\ k.acc \in 0..MaxAccess
    BY <1>2 DEF Call, Record
  <1>4. SUFFICES /\ call' \in [Client -> Call]
                 /\ refresh' \in [Token -> Record] /\ access' \in [Access -> 0..MaxTokens]
                 /\ rows' \subseteq Row /\ root' \in [Token -> 0..MaxTokens]
                 /\ succ' \in [Token -> 0..MaxTokens] /\ given' \in [Token -> SUBSET Token]
                 /\ minted' \in 0..MaxAccess /\ mishaps' \in 0..MaxMishaps
                 /\ UNCHANGED <<revoked, cut, signIns, removals>>
    BY <1>1 DEF TypeOK
  <1>5. CASE Rotate(c)
    <2>1. PICK t \in Token :
             /\ minted < MaxAccess /\ minted' = minted + 1
             /\ refresh' = [refresh EXCEPT ![k.tok] = Grace(k.rec, t),
                                           ![t] = Live(minted + 1, k.tok)]
             /\ access' = [access EXCEPT ![minted + 1] = t]
             /\ root' = [root EXCEPT ![t] = root[k.tok]]
             /\ succ' = [succ EXCEPT ![k.tok] = t]
             /\ Become(c, [k EXCEPT !.pc = "row", !.new = t, !.acc = minted + 1])
             /\ UNCHANGED <<rows, given, revoked, cut, limits>>
      BY <1>5 DEF Rotate
    <2>2. k.tok \in Token
      BY <1>1, <1>2, <1>3, <1>5 DEF Rotate, RefreshOK, Presenting
    <2>3. /\ minted + 1 \in 0..MaxAccess /\ t \in 0..MaxTokens /\ root[k.tok] \in 0..MaxTokens
          /\ Live(minted + 1, k.tok) \in Record /\ Grace(k.rec, t) \in Record
      <3> HIDE DEF k
      <3>1. minted \in 0..MaxAccess /\ t \in 0..MaxTokens /\ root[k.tok] \in 0..MaxTokens
        BY <1>1, <2>2 DEF TypeOK
      <3>2. minted + 1 \in 0..MaxAccess
        BY <1>1, <2>1, <3>1
      <3> QED
        BY <1>3, <3>1, <3>2, TypeOfRecords
    <2>4. [k EXCEPT !.pc = "row", !.new = t, !.acc = minted + 1] \in Call
      <3> HIDE DEF k
      <3> QED
        BY <1>2, <2>3 DEF Call
    <2>5. call' \in [Client -> Call]
      BY <1>1, <2>1, <2>4, Becomes DEF TypeOK
    <2> QED
      <3> HIDE DEF k
      <3> QED
        BY <1>1, <2>1, <2>2, <2>3, <2>5 DEF TypeOK, limits
  <1>6. CASE LoseRotation(c)
    <2>1. k.tok \in Token
      BY <1>1, <1>2, <1>3, <1>6 DEF LoseRotation, RefreshOK, Presenting
    <2>2. refresh[k.tok] \in Record
      BY <1>1, <2>1 DEF TypeOK
    <2>3. [k EXCEPT !.pc = "successor", !.rec = refresh[k.tok]] \in Call
      <3> HIDE DEF k
      <3> QED
        BY <1>2, <2>2 DEF Call
    <2>4. call' \in [Client -> Call]
      BY <1>1, <1>6, <2>3, TypeOfRecords, Becomes DEF LoseRotation, TypeOK
    <2> QED
      BY <1>1, <1>6, <2>4 DEF LoseRotation, TypeOK, limits
  <1>7. CASE ReadSuccessor(c)
    <2>1. k.rec.next \in Token
      BY <1>1, <1>2, <1>3, <1>7 DEF ReadSuccessor, RefreshOK
    <2>2. refresh[k.rec.next] \in Record
      BY <1>1, <2>1 DEF TypeOK
    <2>3. [k EXCEPT !.pc = "replay", !.after = refresh[k.rec.next]] \in Call
      <3> HIDE DEF k
      <3> QED
        BY <1>2, <2>2 DEF Call
    <2>4. call' \in [Client -> Call]
      BY <1>1, <1>7, <2>3, TypeOfRecords, Becomes DEF ReadSuccessor, TypeOK
    <2> QED
      BY <1>1, <1>7, <2>4 DEF ReadSuccessor, TypeOK, limits
  <1>8. ASSUME Become(c, Idle) PROVE call' \in [Client -> Call]
    BY <1>1, <1>8, TypeOfRecords, Becomes DEF TypeOK
  <1>9. ASSUME NEW t \in Token, NEW n \in Token, Tell(t, n) PROVE given' \in [Token -> SUBSET Token]
    BY <1>1, <1>9 DEF Tell, TypeOK
  <1>10. k.pc \in {"replay", "row"} /\ k.op = "refresh" => k.tok \in Token
    BY <1>1, <1>2, <1>3 DEF RefreshOK
  <1>11. CASE Replay(c)
    <2>1. k.rec.next \in Token /\ k.tok \in Token
      BY <1>1, <1>2, <1>3, <1>10, <1>11 DEF Replay, RefreshOK, Presenting
    <2>2. given' \in [Token -> SUBSET Token]
      BY <1>9, <1>11, <2>1 DEF Replay
    <2>3. minted' \in 0..MaxAccess /\ access' \in [Access -> 0..MaxTokens]
      BY <1>1, <1>3, <1>11 DEF Replay, TypeOK
    <2> QED
      BY <1>1, <1>8, <1>11, <2>2, <2>3 DEF Replay, TypeOK, limits
  <1>12. CASE RefuseReplay(c)
    BY <1>1, <1>8, <1>12 DEF RefuseReplay, TypeOK, limits
  <1>13. CASE WriteRow(c)
    <2>1. k.new \in Token /\ k.acc \in Access /\ k.pc = "row"
      BY <1>1, <1>2, <1>3, <1>13 DEF WriteRow, RefreshOK
    <2>2. given' \in [Token -> SUBSET Token]
      BY <1>1, <1>9, <1>10, <1>13, <2>1 DEF WriteRow, TypeOK
    <2>3. rows' \subseteq Row
      BY <1>1, <1>13, <2>1 DEF WriteRow, TypeOK, Row, OldRows
    <2> QED
      BY <1>1, <1>8, <1>13, <2>2, <2>3 DEF WriteRow, TypeOK, limits
  <1>14. CASE RowFails(c)
    <2>1. [Idle EXCEPT !.pc = "find", !.op = "logout", !.acc = k.acc] \in Call
      <3> HIDE DEF k
      <3> QED
        BY <1>3, TypeOfRecords DEF Idle, Call, Removal
    <2>2. call' \in [Client -> Call]
      BY <1>1, <1>14, <2>1, TypeOfRecords, Becomes DEF RowFails, TypeOK
    <2>3. rows' \subseteq Row
      BY <1>1, <1>14 DEF RowFails, TypeOK, OldRows
    <2> QED
      BY <1>1, <1>14, <2>2, <2>3 DEF RowFails, Mishap, TypeOK
  <1> QED
    BY <1>5, <1>6, <1>7, <1>11, <1>12, <1>13, <1>14 DEF Refreshing

LEMMA FamiliesOfIssued ==
    ASSUME Inv, NEW T \in SUBSET Token, \A t \in T : root[t] # 0
    PROVE  Families(T) \subseteq Token /\ \A f \in Families(T) : IsFamily(f)
  <1>1. root \in [Token -> 0..MaxTokens] /\ MaxTokens \in Nat /\ Token = (0..MaxTokens) \ {0}
    BY BoundAssumption DEF Inv, TypeOK, Token
  <1>2. \A t \in T : root[t] \in Token /\ root[root[t]] = root[t]
    BY <1>1 DEF Inv, ChainOK
  <1> QED
    BY <1>2 DEF Families, IsFamily

LEMMA HeldAreIssued ==
    ASSUME Inv
    PROVE  Held \subseteq Token /\ \A t \in Held : IsHeld(t) /\ root[t] # 0
  BY DEF Inv, RecordOK, Held, IsHeld

\* What the caller of a removal has collected is made of issued tokens.
LEMMA Collects ==
    ASSUME Inv, NEW c \in Client
    PROVE  /\ Collected(c) \subseteq Token
           /\ call[c].op = "others" =>
                 \A t \in Collected(c) : root[t] # 0 /\ root[t] = root[call[c].tok]
  <1>1. Collected(c) \subseteq Token
    BY DEF Collected, Reach
  <1>2. ASSUME call[c].op = "others", NEW t \in Collected(c)
        PROVE  root[t] # 0 /\ root[t] = root[call[c].tok]
    <2>1. {call[c].tok} \ {0} \subseteq Token
      BY BoundAssumption DEF Inv, TypeOK, Call, Token
    <2>2. PICK s \in ({call[c].tok} \ {0}) \ {} : root[s] = root[t]
      BY <1>2, <2>1, ReachFamilies DEF Collected, Inv, Store
    <2>3. call[c].tok # 0 => root[call[c].tok] # 0
      BY <1>2 DEF Inv, CallOK, OthersOK
    <2> QED
      BY <2>2, <2>3
  <1> QED
    BY <1>1, <1>2

LEMMA TypeRemoving ==
    ASSUME Inv, NEW c \in Client, Removing(c)
    PROVE  TypeOK'
  <1> USE BoundAssumption
  <1> DEFINE k == call[c]
  <1>1. /\ TypeOK /\ MaxTokens \in Nat /\ MaxAccess \in Nat
        /\ Token = (0..MaxTokens) \ {0} /\ Access = (0..MaxAccess) \ {0}
    BY DEF Inv, Token, Access
  <1>2. /\ k \in Call /\ RefreshOK(k) /\ RemovalOK(k) /\ OthersOK(k)
        /\ call \in [Client -> Call]
    BY <1>1 DEF TypeOK, Inv, CallOK
  <1>3. /\ k.tok \in 0..MaxTokens /\ k.acc \in 0..MaxAccess
        /\ k.starts \in SUBSET Token /\ k.keep \in SUBSET Token
        /\ k.keys \in SUBSET Access /\ k.owed \in SUBSET Token
        /\ \A t \in k.starts \cup k.keep : root[t] # 0
    BY <1>2 DEF Call, RemovalOK
  <1>4. ASSUME NEW m \in Call, NEW pc, Local(c, pc, m) PROVE TypeOK'
    <2>1. call' \in [Client -> Call]
      BY <1>2, <1>4, Becomes DEF Local
    <2> QED
      BY <1>1, <1>4, <2>1 DEF Local, TypeOK, limits
  <1>5. CASE Find(c)
    <2> DEFINE starts == k.starts \cup ({access[k.acc]} \ {0})
    <2>1. access[k.acc] \in 0..MaxTokens /\ (access[k.acc] # 0 => root[access[k.acc]] # 0)
      <3>1. k.acc \in Access
        BY <1>1, <1>2, <1>3, <1>5 DEF Find, Local, RefreshOK, RemovalOK, Removal
      <3> QED
        BY <1>1, <3>1 DEF TypeOK, Inv, KeysOK
    <2>2. starts \in SUBSET Token /\ \A t \in starts : root[t] # 0
      BY <1>1, <1>3, <2>1
    <2>3. Families(starts \cap Held) \in SUBSET Token
      <3> HIDE DEF starts
      <3> QED
        BY <2>2, FamiliesOfIssued
    <2>4. [k EXCEPT !.pc = "walk", !.starts = starts,
                    !.owed = Families(starts \cap Held)] \in Call
      <3> HIDE DEF starts, k
      <3> QED
        BY <1>2, <2>2, <2>3 DEF Call
    <2> QED
      BY <1>4, <1>5, <2>4 DEF Find
  <1>6. CASE Validate(c)
    <2>1. access[k.acc] \in 0..MaxTokens
      <3>1. k.pc = "validate" /\ k.op = "others"
        BY <1>2, <1>6 DEF Validate, Local, RemovalOK
      <3>2. k.acc \in Access
        BY <1>1, <1>2, <1>3, <3>1 DEF RefreshOK, Removal
      <3> QED
        BY <1>1, <3>2 DEF TypeOK
    <2>2. [k EXCEPT !.pc = "list", !.tok = access[k.acc]] \in Call
      <3> HIDE DEF k
      <3> QED
        BY <1>2, <2>1 DEF Call
    <2> QED
      BY <1>4, <1>6, <2>2 DEF Validate
  <1>7. CASE List(c)
    <2>1. [k EXCEPT !.pc = "collect", !.starts = Held] \in Call
      <3> HIDE DEF k
      <3> QED
        BY <1>2, HeldAreIssued DEF Call
    <2> QED
      BY <1>4, <1>7, <2>1 DEF List
  <1>8. CASE Collect(c)
    <2> DEFINE keep == Collected(c)
    <2>1. keep \in SUBSET Token
      BY Collects
    <2>2. Families(k.starts \ keep) \ Families(keep) \in SUBSET Token
      <3>1. Families(k.starts \ keep) \subseteq Token
        BY <1>3, FamiliesOfIssued
      <3> QED
        BY <3>1
    <2>3. [k EXCEPT !.pc = "walk", !.keep = keep,
                    !.owed = Families(k.starts \ keep) \ Families(keep)] \in Call
      <3> HIDE DEF k, keep
      <3> QED
        BY <1>2, <2>1, <2>2 DEF Call
    <2> QED
      BY <1>4, <1>8, <2>3 DEF Collect
  <1>9. CASE Walk(c)
    <2> DEFINE walked == Reach(k.starts, k.keep)
               then == CASE k.op = "all" -> "leftover"
                         [] k.op = "others" -> "recollect"
                         [] OTHER -> "scan"
    <2>1. walked \in SUBSET Token
      BY DEF Reach
    <2>2. [k EXCEPT !.pc = then, !.starts = walked] \in Call
      <3>1. then \in {"leftover", "recollect", "scan"}
        OBVIOUS
      <3> HIDE DEF k, walked, then
      <3> QED
        BY <1>2, <2>1, <3>1 DEF Call
    <2>3. Become(c, [k EXCEPT !.pc = then, !.starts = walked])
      BY <1>9 DEF Walk
    <2>4. call' \in [Client -> Call]
      <3> HIDE DEF k, walked, then
      <3> QED
        BY <1>2, <2>2, <2>3, Becomes
    <2>5. refresh' \in [Token -> Record]
      BY <1>1, <1>9, TypeOfRecords DEF Walk, TypeOK
    <2> QED
      BY <1>1, <1>9, <2>4, <2>5 DEF Walk, TypeOK, limits
  <1>10. CASE Leftover(c)
    <2>1. [k EXCEPT !.pc = "sweep", !.starts = Held] \in Call
      <3> HIDE DEF k
      <3> QED
        BY <1>2, HeldAreIssued DEF Call
    <2> QED
      BY <1>4, <1>10, <2>1 DEF Leftover
  <1>11. CASE Sweep(c)
    <2>1. [k EXCEPT !.pc = "scan"] \in Call
      <3> HIDE DEF k
      <3> QED
        BY <1>2 DEF Call
    <2>2. call' \in [Client -> Call]
      BY <1>2, <1>11, <2>1, Becomes DEF Sweep
    <2>3. refresh' \in [Token -> Record]
      BY <1>1, <1>11, TypeOfRecords DEF Sweep, TypeOK
    <2>4. cut' \subseteq Token
      <3>1. Families(k.starts \cap Held) \subseteq Token
        BY <1>3, FamiliesOfIssued
      <3> QED
        BY <1>1, <1>11, <3>1 DEF Sweep, TypeOK
    <2> QED
      BY <1>1, <1>11, <2>2, <2>3, <2>4 DEF Sweep, TypeOK, limits
  <1>12. CASE Recollect(c)
    <2>1. [k EXCEPT !.pc = "scan", !.keep = k.keep \cup Collected(c)] \in Call
      <3> HIDE DEF k
      <3> QED
        BY <1>2, <1>3, Collects DEF Call
    <2> QED
      BY <1>4, <1>12, <2>1 DEF Recollect
  <1>13. CASE Scan(c)
    <2>1. Doomed(c) \in SUBSET Access
      <3>1. k.pc = "scan"
        BY <1>13 DEF Scan, Local
      <3>2. k.op \in Removal
        BY <1>2, <3>1 DEF RefreshOK, After
      <3>3. k.op # "all" => k.acc \in Access
        BY <1>1, <1>2, <1>3, <3>2 DEF RefreshOK
      <3> QED
        BY <3>2, <3>3 DEF Doomed, Caller, Removal
    <2>2. [k EXCEPT !.pc = "del", !.keys = Doomed(c)] \in Call
      <3> HIDE DEF k
      <3> QED
        BY <1>2, <2>1 DEF Call
    <2> QED
      BY <1>4, <1>13, <2>2 DEF Scan
  <1>14. CASE Del(c)
    <2>1. [k EXCEPT !.pc = "rows"] \in Call
      <3> HIDE DEF k
      <3> QED
        BY <1>2 DEF Call
    <2>2. call' \in [Client -> Call]
      BY <1>2, <1>14, <2>1, Becomes DEF Del
    <2>3. access' \in [Access -> 0..MaxTokens]
      BY <1>1, <1>14 DEF Del, TypeOK
    <2> QED
      BY <1>1, <1>14, <2>2, <2>3 DEF Del, TypeOK, limits
  <1>15. CASE DeleteRows(c)
    <2>1. call' \in [Client -> Call]
      BY <1>2, <1>15, TypeOfRecords, Becomes DEF DeleteRows
    <2>2. refresh' \in [Token -> Record]
      BY <1>1, <1>15, TypeOfRecords DEF DeleteRows, TypeOK
    <2>3. revoked' \in [refresh : SUBSET Token, access : SUBSET Token]
      <3>1. revoked.refresh \subseteq Token /\ revoked.access \subseteq Token
        BY <1>1 DEF TypeOK
      <3>2. revoked' = [refresh |-> revoked.refresh \cup k.owed,
                        access |-> revoked.access \cup
                                   IF k.op \in {"all", "others"} THEN k.owed ELSE {}]
        BY <1>15 DEF DeleteRows
      <3> HIDE DEF k
      <3> QED
        BY <1>3, <3>1, <3>2
    <2>4. rows' \subseteq Row
      BY <1>1, <1>15 DEF DeleteRows, TypeOK
    <2> QED
      BY <1>1, <1>15, <2>1, <2>2, <2>3, <2>4 DEF DeleteRows, TypeOK, limits
  <1> QED
    BY <1>5, <1>6, <1>7, <1>8, <1>9, <1>10, <1>11, <1>12, <1>13, <1>14, <1>15 DEF Removing

LEMMA TypeStep ==
    ASSUME Inv, [Next]_vars
    PROVE  TypeOK'
  <1> USE BoundAssumption
  <1>1. TypeOK /\ MaxTokens \in Nat /\ MaxMishaps \in Nat
    BY DEF Inv
  <1>2. ASSUME NEW c \in Client, Crash(c) PROVE TypeOK'
    <2>1. call' \in [Client -> Call]
      BY <1>1, <1>2, TypeOfRecords, Becomes DEF Crash, TypeOK
    <2> QED
      BY <1>1, <1>2, <2>1 DEF Crash, Mishap, TypeOK
  <1>3. ASSUME NEW t \in Token, GraceExpires(t) PROVE TypeOK'
    <2> DEFINE a == refresh[t].access
    <2>1. /\ refresh' = [refresh EXCEPT ![t] = NoRecord]
          /\ access' = [access EXCEPT ![a] = 0]
      BY <1>3 DEF GraceExpires
    <2>2. refresh' \in [Token -> Record] /\ access' \in [Access -> 0..MaxTokens]
      <3> HIDE DEF a
      <3>1. refresh' \in [Token -> Record]
        BY <1>1, <2>1, TypeOfRecords DEF TypeOK
      <3>2. DOMAIN access = Access /\ \A b \in Access : access[b] \in 0..MaxTokens
        BY <1>1 DEF TypeOK
      <3>3. access' = [b \in Access |-> IF b = a THEN 0 ELSE access[b]]
        BY <2>1, <3>2
      <3> QED
        BY <1>1, <3>1, <3>2, <3>3
    <2> QED
      BY <1>1, <1>3, <2>2 DEF GraceExpires, TypeOK, limits
  <1>4. ASSUME NEW t \in Token, LiveExpires(t) PROVE TypeOK'
    <2>1. refresh' \in [Token -> Record]
      BY <1>1, <1>4, TypeOfRecords DEF LiveExpires, TypeOK
    <2> QED
      BY <1>1, <1>4, <2>1 DEF LiveExpires, Mishap, TypeOK
  <1>5. ASSUME NEW a \in Access, AccessExpires(a) PROVE TypeOK'
    BY <1>1, <1>5 DEF AccessExpires, Mishap, TypeOK
  <1>6. CASE UNCHANGED vars
    BY <1>1, <1>6 DEF vars, limits, TypeOK
  <1> QED
    BY <1>2, <1>3, <1>4, <1>5, <1>6, TypeArriving, TypeRefreshing, TypeRemoving DEF Next

-----------------------------------------------------------------------------
(* Chains and records. *)

LEMMA StoreMoves ==
    ASSUME [Next]_vars
    PROVE  \/ UNCHANGED <<refresh, root, succ, given>>
           \/ \E c \in Client : \/ SignIn(c) \/ Rotate(c) \/ Replay(c) \/ WriteRow(c)
                                \/ Walk(c) \/ Sweep(c) \/ DeleteRows(c)
           \/ \E t \in Token : GraceExpires(t) \/ LiveExpires(t)
  <1>1. CASE UNCHANGED vars
    BY <1>1 DEF vars
  <1>2. ASSUME NEW c \in Client, Arriving(c)
        PROVE  SignIn(c) \/ UNCHANGED <<refresh, root, succ, given>>
    BY <1>2 DEF Arriving, Present, Logout, RevokeListed, RevokeAll, RevokeOthers, Begin
  <1>3. ASSUME NEW c \in Client, Refreshing(c)
        PROVE  \/ Rotate(c) \/ Replay(c) \/ WriteRow(c)
               \/ UNCHANGED <<refresh, root, succ, given>>
    BY <1>3 DEF Refreshing, LoseRotation, ReadSuccessor, RefuseReplay, RowFails
  <1>4. ASSUME NEW c \in Client, Removing(c)
        PROVE  \/ Walk(c) \/ Sweep(c) \/ DeleteRows(c)
               \/ UNCHANGED <<refresh, root, succ, given>>
    BY <1>4 DEF Removing, Find, Validate, List, Collect, Leftover, Recollect, Scan, Local, Del
  <1>5. ASSUME NEW c \in Client, Crash(c) PROVE UNCHANGED <<refresh, root, succ, given>>
    BY <1>5 DEF Crash
  <1>6. ASSUME NEW a \in Access, AccessExpires(a) PROVE UNCHANGED <<refresh, root, succ, given>>
    BY <1>6 DEF AccessExpires
  <1> QED
    BY <1>1, <1>2, <1>3, <1>4, <1>5, <1>6 DEF Next

\* What the steps that issue a token do to the chains.
Founded(t) ==
    /\ Fresh(t) /\ \E a \in 0..MaxAccess : refresh' = [refresh EXCEPT ![t] = Live(a, 0)]
    /\ root' = [root EXCEPT ![t] = t] /\ UNCHANGED <<succ, given>>

Exchanged(k, t) ==
    /\ Fresh(t) /\ IsLive(k) /\ root[k] # 0 /\ succ[k] = 0 /\ k # t
    /\ \E a \in 0..MaxAccess :
          refresh' = [refresh EXCEPT ![k] = Grace(refresh[k], t), ![t] = Live(a, k)]
    /\ root' = [root EXCEPT ![t] = root[k]] /\ succ' = [succ EXCEPT ![k] = t]
    /\ UNCHANGED given

LEMMA Issues ==
    ASSUME Inv, NEW c \in Client
    PROVE  /\ SignIn(c) => \E t \in Token : Founded(t)
           /\ Rotate(c) => call[c].tok \in Token /\ \E t \in Token : Exchanged(call[c].tok, t)
  <1>1. minted \in 0..MaxAccess /\ MaxAccess \in Nat /\ call[c] \in Call
    BY BoundAssumption DEF Inv, TypeOK
  <1>2. minted < MaxAccess => minted + 1 \in 0..MaxAccess
    BY <1>1
  <1>3. SignIn(c) => \E t \in Token : Founded(t)
    BY <1>2 DEF SignIn, Founded
  <1>4. ASSUME Rotate(c)
        PROVE  call[c].tok \in Token /\ \E t \in Token : Exchanged(call[c].tok, t)
    <2> DEFINE k == call[c].tok
    <2>1. k \in 0..MaxTokens /\ call[c].pc = "rotate" /\ refresh[k] = call[c].rec
      BY <1>1, <1>4 DEF Rotate, Unrotated, Call
    <2>2. k # 0 /\ root[k] # 0 /\ call[c].rec.kind = "live"
      BY <2>1 DEF Inv, CallOK, RefreshOK, Presenting
    <2>3. k \in Token /\ IsLive(k) /\ succ[k] = 0
      BY <2>1, <2>2, BoundAssumption DEF Inv, RecordOK, IsLive, Token
    <2>4. PICK t \in Token :
             /\ Fresh(t) /\ minted < MaxAccess
             /\ refresh' = [refresh EXCEPT ![k] = Grace(call[c].rec, t),
                                           ![t] = Live(minted + 1, k)]
             /\ root' = [root EXCEPT ![t] = root[k]]
             /\ succ' = [succ EXCEPT ![k] = t] /\ UNCHANGED given
      BY <1>4 DEF Rotate
    <2>5. k # t
      BY <2>2, <2>4 DEF Fresh
    <2>6. Exchanged(k, t)
      <3> HIDE DEF k
      <3> QED
        BY <1>2, <2>1, <2>2, <2>3, <2>4, <2>5 DEF Exchanged
    <2> QED
      BY <2>3, <2>6
  <1> QED
    BY <1>3, <1>4

LEMMA FoundedKeeps ==
    ASSUME Store, NEW t \in Token, Founded(t)
    PROVE  ChainOK' /\ ConvexOK' /\ \A u \in Token : RecordOK(u)'
  <1>1. /\ refresh \in [Token -> Record] /\ MaxTokens \in Nat
        /\ root \in [Token -> 0..MaxTokens] /\ succ \in [Token -> 0..MaxTokens]
        /\ given \in [Token -> SUBSET Token]
        /\ Token = (0..MaxTokens) \ {0} /\ \A u \in Token : u \in Nat
    BY BoundAssumption DEF Store, TypeOK, Token
  <1>2. /\ ChainOK /\ ConvexOK /\ \A u \in Token : RecordOK(u)
        /\ \A u \in Token : root[u] # 0 => u < t
    BY FreshIsLast DEF Store, Founded
  <1>3. /\ root[t] = 0 /\ root'[t] = t /\ (\A u \in Token : u < t => root[u] # 0)
        /\ \A u \in Token : u # t => root'[u] = root[u] /\ refresh'[u] = refresh[u]
        /\ succ' = succ /\ given' = given
    BY <1>1 DEF Founded, Fresh
  <1>4. refresh'[t].kind = "live" /\ refresh'[t].next = 0 /\ refresh'[t].from = 0
    BY <1>1 DEF Founded, Live
  <1>5. \A u \in Token : root[u] # 0 => root[u] \in Token /\ root[u] # t /\ root[root[u]] = root[u]
    BY <1>1, <1>2, <1>3 DEF ChainOK
  <1>6. \A u \in Token : succ[u] # 0 => succ[u] \in Token /\ u # t /\ succ[u] # t
    BY <1>1, <1>2, <1>3 DEF ChainOK
  <1>7. ChainOK'
    <2>1. \A u \in Token : root'[u] # 0 => /\ root'[u] <= u /\ root'[root'[u]] = root'[u]
                                           /\ \A v \in Token : v < u => root'[v] # 0
      BY <1>1, <1>2, <1>3, <1>5 DEF ChainOK
    <2>2. \A u \in Token : succ'[u] # 0 => /\ root'[u] # 0 /\ root'[succ'[u]] = root'[u]
                                           /\ u < succ'[u]
      BY <1>2, <1>3, <1>6 DEF ChainOK
    <2>3. \A u, v \in Token :
             root'[u] # 0 /\ root'[u] = root'[v] /\ u < v => succ'[u] # 0 /\ succ'[u] <= v
      <3> SUFFICES ASSUME NEW u \in Token, NEW v \in Token,
                          root'[u] # 0, root'[u] = root'[v], u < v
                   PROVE  succ[u] # 0 /\ succ[u] <= v
        BY <1>3
      <3>1. u # t
        BY <1>1, <1>2, <1>3
      <3>2. v # t
        BY <1>3, <1>5, <3>1
      <3> QED
        BY <1>2, <1>3, <3>1, <3>2 DEF ChainOK
    <2> QED
      BY <1>2, <1>3, <2>1, <2>2, <2>3 DEF ChainOK
  <1>8. \A u \in Token : RecordOK(u)'
    <2> SUFFICES ASSUME NEW u \in Token PROVE RecordOK(u)'
      OBVIOUS
    <2>1. CASE u = t
      <3>1. succ'[t] = 0
        BY <1>3, <1>6
      <3> QED
        BY <1>1, <1>3, <1>4, <2>1, <3>1 DEF RecordOK, IsHeld, IsLive
    <2>2. CASE u # t
      BY <1>2, <1>3, <2>2 DEF RecordOK, IsHeld, IsLive
    <2> QED
      BY <2>1, <2>2
  <1>9. ConvexOK'
    <2> SUFFICES ASSUME NEW x \in Token, NEW p \in Token, NEW u \in Token,
                        IsHeld(x)', IsHeld(u)', root'[x] = root'[u], root'[p] = root'[x],
                        x <= p, p <= u
                 PROVE  IsHeld(p)'
      BY DEF ConvexOK
    <2>1. CASE p = t
      BY <1>4, <2>1 DEF IsHeld
    <2>2. CASE p # t
      <3>1. root'[p] # t
        BY <1>3, <1>5, <2>2, <1>1
      <3>2. x # t /\ u # t
        BY <1>3, <3>1
      <3> QED
        BY <1>2, <1>3, <2>2, <3>2 DEF ConvexOK, IsHeld
    <2> QED
      BY <2>1, <2>2
  <1> QED
    BY <1>7, <1>8, <1>9

LEMMA ExchangedKeeps ==
    ASSUME Store, NEW k \in Token, NEW t \in Token, Exchanged(k, t)
    PROVE  ChainOK' /\ ConvexOK' /\ \A u \in Token : RecordOK(u)'
  <1>1. /\ refresh \in [Token -> Record] /\ MaxTokens \in Nat
        /\ root \in [Token -> 0..MaxTokens] /\ succ \in [Token -> 0..MaxTokens]
        /\ given \in [Token -> SUBSET Token]
        /\ Token = (0..MaxTokens) \ {0} /\ \A u \in Token : u \in Nat
    BY BoundAssumption DEF Store, TypeOK, Token
  <1>2. /\ ChainOK /\ ConvexOK /\ \A u \in Token : RecordOK(u)
        /\ \A u \in Token : root[u] # 0 => u < t
    BY FreshIsLast DEF Store, Exchanged
  <1>3. /\ root[t] = 0 /\ root'[t] = root[k] /\ (\A u \in Token : u < t => root[u] # 0)
        /\ \A u \in Token : u # t => root'[u] = root[u]
        /\ succ'[k] = t /\ \A u \in Token : u # k => succ'[u] = succ[u]
        /\ \A u \in Token : u # t /\ u # k => refresh'[u] = refresh[u]
        /\ given' = given /\ root[k] # 0 /\ succ[k] = 0 /\ k # t /\ IsLive(k)
    BY <1>1 DEF Exchanged, Fresh
  <1>4. refresh'[t].kind = "live" /\ refresh'[t].next = 0 /\ refresh'[t].from = k
    BY <1>1 DEF Exchanged, Live
  <1>5. refresh'[k].kind = "grace" /\ refresh'[k].next = t /\ refresh'[k].from = refresh[k].from
    <2>1. refresh[k] \in Record
      BY <1>1
    <2>2. refresh'[k] = Grace(refresh[k], t)
      BY <1>1, <1>3 DEF Exchanged
    <2> QED
      BY <2>1, <2>2 DEF Grace, Record
  <1>6. \A u \in Token : root[u] # 0 => root[u] \in Token /\ root[u] # t /\ root[root[u]] = root[u]
    BY <1>1, <1>2, <1>3 DEF ChainOK
  <1>7. \A u \in Token : succ[u] # 0 => succ[u] \in Token /\ u # t /\ succ[u] # t
    BY <1>1, <1>2, <1>3 DEF ChainOK
  <1>8. k < t /\ \A u \in Token : root[u] = root[k] => u <= k
    <2>1. \A u \in Token : root[u] = root[k] => ~ (k < u)
      BY <1>2, <1>3 DEF ChainOK
    <2> QED
      BY <1>1, <1>2, <1>3, <2>1
  <1>9. ChainOK'
    <2>1. \A u \in Token : root'[u] # 0 => /\ root'[u] <= u /\ root'[root'[u]] = root'[u]
                                           /\ \A v \in Token : v < u => root'[v] # 0
      <3> SUFFICES ASSUME NEW u \in Token, root'[u] # 0
                   PROVE  /\ root'[u] <= u /\ root'[root'[u]] = root'[u]
                          /\ \A v \in Token : v < u => root'[v] # 0
        OBVIOUS
      <3>1. CASE u = t
        <4>1. root[k] <= k
          BY <1>2, <1>3 DEF ChainOK
        <4>2. root[k] <= t
          BY <1>1, <1>6, <1>3, <1>8, <4>1
        <4>3. root'[root[k]] = root[k]
          BY <1>3, <1>6
        <4> QED
          BY <1>1, <1>3, <3>1, <4>2, <4>3
      <3>2. CASE u # t
        BY <1>2, <1>3, <1>6, <3>2 DEF ChainOK
      <3> QED
        BY <3>1, <3>2
    <2>2. \A u \in Token : succ'[u] # 0 => /\ root'[u] # 0 /\ root'[succ'[u]] = root'[u]
                                           /\ u < succ'[u]
      BY <1>2, <1>3, <1>7, <1>8 DEF ChainOK
    <2>3. \A u, v \in Token :
             root'[u] # 0 /\ root'[u] = root'[v] /\ u < v => succ'[u] # 0 /\ succ'[u] <= v
      <3> SUFFICES ASSUME NEW u \in Token, NEW v \in Token,
                          root'[u] # 0, root'[u] = root'[v], u < v
                   PROVE  succ'[u] # 0 /\ succ'[u] <= v
        OBVIOUS
      <3>1. u # t
        BY <1>1, <1>2, <1>3
      <3>2. CASE v = t
        <4>1. root[u] = root[k]
          BY <1>3, <3>1, <3>2
        <4>2. CASE u = k
          BY <1>1, <1>3, <3>2, <4>2
        <4>3. CASE u # k
          <5>1. u < k
            BY <1>1, <1>8, <4>1, <4>3
          <5>2. succ[u] # 0 /\ succ[u] <= k
            BY <1>2, <1>3, <4>1, <5>1 DEF ChainOK
          <5> QED
            BY <1>1, <1>3, <1>7, <1>8, <3>2, <4>3, <5>2
        <4> QED
          BY <4>2, <4>3
      <3>3. CASE v # t
        <4>1. u # k
          BY <1>1, <1>3, <1>8, <3>1, <3>3
        <4> QED
          BY <1>2, <1>3, <3>1, <3>3, <4>1 DEF ChainOK
      <3> QED
        BY <3>2, <3>3
    <2>4. \A u \in Token : given'[u] \subseteq {succ'[u]}
      <3>1. given[k] = {}
        BY <1>1, <1>2, <1>3 DEF ChainOK
      <3> QED
        BY <1>2, <1>3, <3>1 DEF ChainOK
    <2> QED
      BY <2>1, <2>2, <2>3, <2>4 DEF ChainOK
  <1>10. \A u \in Token : RecordOK(u)'
    <2> SUFFICES ASSUME NEW u \in Token PROVE RecordOK(u)'
      OBVIOUS
    <2>1. CASE u = t
      <3>1. succ'[t] = 0
        BY <1>3, <1>7
      <3> QED
        BY <1>1, <1>3, <1>4, <2>1, <3>1 DEF RecordOK, IsHeld, IsLive
    <2>2. refresh[u].from \in 0..MaxTokens
      BY <1>1 DEF Record
    <2>3. CASE u = k
      <3>1. refresh[k].from # k
        BY <1>1, <1>2, <1>3 DEF RecordOK, IsHeld, IsLive
      <3>2. IF refresh[k].from = 0 THEN root[k] = k ELSE succ[refresh[k].from] = k
        BY <1>2, <1>3 DEF RecordOK, IsHeld, IsLive
      <3> QED
        BY <1>1, <1>3, <1>5, <2>2, <2>3, <3>1, <3>2 DEF RecordOK, IsHeld, IsLive
    <2>4. CASE u # t /\ u # k
      <3>1. IsHeld(u) => IF refresh[u].from = 0 THEN root[u] = u ELSE succ[refresh[u].from] = u
        BY <1>2 DEF RecordOK
      <3>2. IsHeld(u) /\ refresh[u].from # 0 => succ'[refresh[u].from] = u
        BY <1>1, <1>3, <2>2, <3>1
      <3> QED
        BY <1>2, <1>3, <2>4, <3>1, <3>2 DEF RecordOK, IsHeld, IsLive
    <2> QED
      BY <2>1, <2>3, <2>4
  <1>11. ConvexOK'
    <2> SUFFICES ASSUME NEW x \in Token, NEW p \in Token, NEW u \in Token,
                        IsHeld(x)', IsHeld(u)', root'[x] = root'[u], root'[p] = root'[x],
                        x <= p, p <= u
                 PROVE  IsHeld(p)'
      BY DEF ConvexOK
    <2>1. IsHeld(k) /\ \A v \in Token : v # t => (IsHeld(v)' <=> IsHeld(v))
      BY <1>3, <1>5 DEF IsHeld, IsLive
    <2>2. CASE p = t
      BY <1>4, <2>2 DEF IsHeld
    <2>3. CASE p # t
      <3>1. root[p] # 0
        <4>1. root'[x] # 0
          <5>1. CASE x = t
            BY <1>3, <5>1
          <5>2. CASE x # t
            BY <1>2, <1>3, <2>1, <5>2 DEF RecordOK
          <5> QED
            BY <5>1, <5>2
        <4> QED
          BY <1>3, <2>3, <4>1
      <3>2. p < t /\ x # t
        BY <1>1, <1>2, <3>1
      <3>3. IsHeld(x) /\ root[p] = root[x]
        BY <1>3, <2>1, <2>3, <3>2
      <3>4. CASE u = t
        <4>1. root[p] = root[k]
          BY <1>3, <2>3, <3>3, <3>2, <3>4
        <4>2. p <= k
          BY <1>8, <4>1
        <4> QED
          BY <1>2, <2>1, <2>3, <3>3, <4>1, <4>2 DEF ConvexOK
      <3>5. CASE u # t
        <4>1. IsHeld(u) /\ root[x] = root[u]
          BY <1>3, <2>1, <3>2, <3>5
        <4> QED
          BY <1>2, <2>1, <2>3, <3>3, <4>1 DEF ConvexOK
      <3> QED
        BY <3>4, <3>5
    <2> QED
      BY <2>2, <2>3
  <1> QED
    BY <1>9, <1>10, <1>11

\* Losing records opens no hole when what is lost is lost from an end of what is
\* held of each chain.
NoHole(S) ==
    \A t, p, u \in Token :
        /\ IsHeld(t) /\ IsHeld(p) /\ IsHeld(u) /\ root[t] = root[u] /\ root[p] = root[t]
        /\ t <= p /\ p <= u /\ p \in S
        => t \in S \/ u \in S

LEMMA LosingKeeps ==
    ASSUME Store, NEW S, Lose(S), UNCHANGED given
    PROVE  /\ ChainOK' /\ \A u \in Token : RecordOK(u)'
           /\ NoHole(S) => ConvexOK'
  <1>1. \A t \in Token : refresh'[t] = IF t \in S THEN NoRecord ELSE refresh[t]
    BY DEF Lose
  <1>2. ChainOK'
    BY DEF Store, ChainOK, Lose
  <1>3. \A u \in Token : RecordOK(u)'
    <2> SUFFICES ASSUME NEW u \in Token PROVE RecordOK(u)'
      OBVIOUS
    <2>1. CASE u \in S
      BY <1>1, <2>1 DEF RecordOK, IsHeld, IsLive, NoRecord
    <2>2. CASE u \notin S
      BY <1>1, <2>2 DEF Store, RecordOK, IsHeld, IsLive, Lose
    <2> QED
      BY <2>1, <2>2
  <1>4. ASSUME NoHole(S) PROVE ConvexOK'
    <2> SUFFICES ASSUME NEW t \in Token, NEW p \in Token, NEW u \in Token,
                        IsHeld(t)', IsHeld(u)', root'[t] = root'[u], root'[p] = root'[t],
                        t <= p, p <= u
                 PROVE  IsHeld(p)'
      BY DEF ConvexOK
    <2>1. IsHeld(t) /\ IsHeld(u) /\ t \notin S /\ u \notin S /\ root[t] = root[u] /\ root[p] = root[t]
      BY <1>1 DEF IsHeld, NoRecord, Lose
    <2>2. IsHeld(p)
      BY <2>1 DEF Store, ConvexOK
    <2>3. p \notin S
      BY <1>4, <2>1, <2>2 DEF NoHole
    <2> QED
      BY <1>1, <2>2, <2>3 DEF IsHeld
  <1> QED
    BY <1>2, <1>3, <1>4

\* A walk that skips what it keeps reaches no record of the kept family, and of
\* any other family all records or none.
LEMMA WalkIsWhole ==
    ASSUME Inv, NEW c \in Client, call[c].pc = "walk",
           NEW t \in Reach(call[c].starts, call[c].keep), IsHeld(t),
           NEW u \in Token, IsHeld(u), root[u] = root[t]
    PROVE  u \in Reach(call[c].starts, call[c].keep)
  <1> DEFINE k == call[c]
  <1>1. k \in Call /\ RemovalOK(k) /\ OthersOK(k) /\ Store
    BY DEF Inv, TypeOK, CallOK, Store
  <1>2. k.starts \in SUBSET Token /\ k.tok \in 0..MaxTokens
    BY <1>1 DEF Call
  <1>3. SUFFICES \A p \in k.keep : IsHeld(p) => root[p] # root[t]
    BY <1>1, <1>2, ReachWhole
  <1>4. SUFFICES ASSUME NEW p \in k.keep, IsHeld(p), root[p] = root[t] PROVE FALSE
    OBVIOUS
  <1>5. k.op = "others" /\ k.tok # 0 /\ root[p] = root[k.tok]
    BY <1>1 DEF RemovalOK, OthersOK
  <1>6. \A s \in k.starts : IsHeld(s) /\ root[s] = root[k.tok] => s \in k.keep
    BY <1>1, <1>4, <1>5 DEF OthersOK
  <1>7. PICK s \in k.starts \ k.keep : root[s] = root[t] /\ (s = t \/ IsHeld(s))
    BY <1>1, <1>2, ReachFamilies
  <1> QED
    BY <1>4, <1>5, <1>6, <1>7

LEMMA WalkNoHole ==
    ASSUME Inv, NEW c \in Client, Walk(c)
    PROVE  NoHole(Reach(call[c].starts, call[c].keep))
  BY WalkIsWhole DEF NoHole, Walk

LEMMA ConvexStep ==
    ASSUME Inv, [Next]_vars
    PROVE  ConvexOK'
  <1>1. /\ Store /\ refresh \in [Token -> Record] /\ \A u \in Token : u \in Nat
        /\ succ \in [Token -> 0..MaxTokens] /\ MaxTokens \in Nat /\ Token = (0..MaxTokens) \ {0}
    BY BoundAssumption DEF Inv, TypeOK, Store, Token
  <1>2. CASE UNCHANGED <<refresh, root, succ, given>>
    BY <1>1, <1>2 DEF Store, ConvexOK, IsHeld
  <1>3. ASSUME NEW c \in Client, SignIn(c) \/ Rotate(c) PROVE ConvexOK'
    BY <1>1, <1>3, Issues, FoundedKeeps, ExchangedKeeps
  <1>4. ASSUME NEW c \in Client, Replay(c) \/ WriteRow(c) PROVE ConvexOK'
    BY <1>1, <1>4 DEF Replay, WriteRow, Store, ConvexOK, IsHeld
  <1>5. ASSUME NEW c \in Client, Walk(c) PROVE ConvexOK'
    BY <1>1, <1>5, Losses, WalkNoHole, LosingKeeps DEF Walk
  <1>6. ASSUME NEW c \in Client, Sweep(c) PROVE ConvexOK'
    <2>1. \A t \in Token, p \in call[c].starts : IsHeld(t) /\ t < p => t \in call[c].starts
      BY <1>6 DEF Sweep, Inv, CallOK, RemovalOK
    <2>2. NoHole(call[c].starts)
      BY <1>1, <2>1 DEF NoHole
    <2> QED
      BY <1>1, <1>6, <2>2, Losses, LosingKeeps DEF Sweep
  <1>7. ASSUME NEW c \in Client, DeleteRows(c) PROVE ConvexOK'
    BY <1>1, <1>7, Losses, LosingKeeps DEF DeleteRows, NoHole
  <1>8. ASSUME NEW t \in Token, LiveExpires(t) PROVE ConvexOK'
    <2>1. IsLive(t) /\ succ[t] = 0 /\ root[t] # 0
      BY <1>1, <1>8 DEF LiveExpires, IsLive, IsHeld, Store, RecordOK
    <2>2. \A u \in Token : root[u] = root[t] => ~ (t < u)
      BY <2>1 DEF Inv, ChainOK
    <2>3. NoHole({t})
      BY <1>1, <2>2 DEF NoHole
    <2> QED
      BY <1>1, <1>8, <2>3, Losses, LosingKeeps DEF LiveExpires
  <1>9. ASSUME NEW t \in Token, GraceExpires(t) PROVE ConvexOK'
    <2>1. /\ IsHeld(t) /\ root[t] # 0
          /\ \A u \in Token : refresh[u].kind = "grace" => refresh[u].next # t
      BY <1>1, <1>9 DEF GraceExpires, IsHeld, Store, RecordOK
    <2>2. ASSUME NEW r \in Token, IsHeld(r), root[r] = root[t], r < t PROVE FALSE
      <3> DEFINE p == refresh[t].from
      <3>1. p \in 0..MaxTokens /\ p # 0
        <4>1. p \in 0..MaxTokens
          BY <1>1 DEF Record
        <4>2. root[r] <= r
          BY <2>1, <2>2 DEF Inv, ChainOK
        <4>3. root[t] # t
          BY <1>1, <2>2, <4>2
        <4> QED
          BY <2>1, <4>1, <4>3 DEF Inv, RecordOK
      <3>2. p \in Token /\ succ[p] = t
        BY <1>1, <2>1, <3>1 DEF Inv, RecordOK
      <3> HIDE DEF p
      <3>3. root[p] = root[t] /\ p < t /\ ~ (p < r)
        BY <1>1, <2>1, <2>2, <3>2 DEF Inv, ChainOK
      <3>4. IsHeld(p)
        <4>1. r <= p /\ p <= t
          BY <1>1, <3>2, <3>3
        <4> QED
          BY <2>1, <2>2, <3>2, <3>3, <4>1 DEF Inv, ConvexOK
      <3>5. refresh[p].kind = "grace"
        BY <1>1, <2>1, <3>2, <3>4 DEF Inv, RecordOK, IsHeld, IsLive, Record
      <3> QED
        BY <2>1, <3>2, <3>5 DEF Inv, RecordOK
    <2>3. NoHole({t})
      BY <1>1, <2>2 DEF NoHole
    <2> QED
      BY <1>1, <1>9, <2>3, Losses, LosingKeeps DEF GraceExpires
  <1> QED
    BY <1>2, <1>3, <1>4, <1>5, <1>6, <1>7, <1>8, <1>9, StoreMoves

LEMMA StoreStep ==
    ASSUME Inv, [Next]_vars
    PROVE  Store'
  <1>1. Store /\ TypeOK' /\ ConvexOK'
    BY TypeStep, ConvexStep DEF Inv, Store
  <1>2. CASE UNCHANGED <<refresh, root, succ, given>>
    BY <1>1, <1>2 DEF Store, ChainOK, RecordOK, IsHeld, IsLive
  <1>3. ASSUME NEW c \in Client, SignIn(c) \/ Rotate(c) PROVE Store'
    BY <1>1, <1>3, Issues, FoundedKeeps, ExchangedKeeps DEF Store
  <1>4. ASSUME NEW c \in Client, Replay(c) \/ WriteRow(c) PROVE Store'
    <2>1. UNCHANGED <<refresh, root, succ>>
      BY <1>4 DEF Replay, WriteRow
    <2>2. \A t \in Token : given'[t] \subseteq {succ[t]}
      <3>1. given \in [Token -> SUBSET Token] /\ \A t \in Token : given[t] \subseteq {succ[t]}
        BY <1>1 DEF Store, TypeOK, ChainOK
      <3>2. \/ given' = given
            \/ \E t, n : n = succ[t] /\ given' = [given EXCEPT ![t] = @ \cup {n}]
        <4>1. CASE Replay(c)
          <5>1. call[c].rec.next = succ[call[c].tok]
            BY <4>1 DEF Replay, Inv, CallOK, RefreshOK
          <5> QED
            BY <4>1, <5>1 DEF Replay, Tell
        <4>2. CASE WriteRow(c)
          <5>1. call[c].op = "refresh" => call[c].new = succ[call[c].tok]
            BY <4>2 DEF WriteRow, Inv, CallOK, RefreshOK
          <5> QED
            BY <4>2, <5>1 DEF WriteRow, Tell
        <4> QED
          BY <1>4, <4>1, <4>2
      <3> QED
        BY <3>1, <3>2
    <2> QED
      BY <1>1, <2>1, <2>2 DEF Store, ChainOK, RecordOK, IsHeld, IsLive
  <1>5. ASSUME NEW S, Lose(S), UNCHANGED given PROVE Store'
    BY <1>1, <1>5, LosingKeeps DEF Store
  <1>6. ASSUME NEW c \in Client, Walk(c) \/ Sweep(c) \/ DeleteRows(c) PROVE Store'
    BY <1>5, <1>6, Losses DEF Walk, Sweep, DeleteRows
  <1>7. ASSUME NEW t \in Token, GraceExpires(t) \/ LiveExpires(t) PROVE Store'
    BY <1>5, <1>7, Losses DEF GraceExpires, LiveExpires
  <1> QED
    BY <1>2, <1>3, <1>4, <1>6, <1>7, StoreMoves

-----------------------------------------------------------------------------
(* Keys, rows and the calls' locals. *)

LEMMA KeysStep ==
    ASSUME Inv, [Next]_vars
    PROVE  KeysOK'
  <1>1. /\ TypeOK /\ KeysOK /\ StepOK /\ Store'
        /\ minted \in Nat /\ minted' \in Nat /\ Token = (0..MaxTokens) \ {0} /\ MaxTokens \in Nat
    <2>1. TypeOK /\ TypeOK' /\ KeysOK /\ StepOK /\ Store'
      BY StepLemma, StoreStep, TypeStep DEF Inv
    <2>2. minted \in 0..MaxAccess /\ minted' \in 0..MaxAccess /\ MaxAccess \in Nat
      BY <2>1, BoundAssumption DEF TypeOK
    <2> QED
      BY <2>1, <2>2, BoundAssumption DEF Token
  <1>2. ASSUME NEW a \in Access, access'[a] # 0 PROVE root'[access'[a]] # 0 /\ a <= minted'
    <2>1. CASE access'[a] = access[a]
      <3>1. access[a] \in Token /\ root[access[a]] # 0 /\ a <= minted
        BY <1>1, <1>2, <2>1 DEF TypeOK, KeysOK
      <3>2. a \in Nat /\ minted <= minted'
        BY <1>1, BoundAssumption DEF Access, StepOK, KeyStep
      <3> QED
        BY <1>1, <2>1, <3>1, <3>2 DEF StepOK, TokenStep
    <2>2. CASE access'[a] # access[a]
      BY <1>1, <1>2, <2>2 DEF StepOK, KeyStep, Store, RecordOK, IsHeld
    <2> QED
      BY <2>1, <2>2
  <1>3. ASSUME NEW r \in rows' PROVE r \in rows \/ \E c \in Client : call[c].pc = "row" /\ r.token = call[c].new
    <2>1. CASE UNCHANGED vars
      BY <1>3, <2>1 DEF vars
    <2>2. ASSUME NEW c \in Client, Arriving(c) PROVE r \in rows
      BY <1>3, <2>2 DEF Arriving, SignIn, Present, Logout, RevokeListed, RevokeAll, RevokeOthers
    <2>3. ASSUME NEW c \in Client, WriteRow(c) PROVE r \in rows \/ (call[c].pc = "row" /\ r.token = call[c].new)
      BY <1>3, <2>3 DEF WriteRow
    <2>4. ASSUME NEW c \in Client, Refreshing(c) PROVE r \in rows \/ WriteRow(c)
      BY <1>3, <2>4 DEF Refreshing, Rotate, LoseRotation, ReadSuccessor, Replay, RefuseReplay, RowFails
    <2>5. ASSUME NEW c \in Client, Removing(c) PROVE r \in rows
      BY <1>3, <2>5 DEF Removing, Find, Validate, List, Collect, Walk, Leftover, Sweep, Recollect,
         Scan, Local, Del, DeleteRows
    <2>6. ASSUME NEW c \in Client, Crash(c) PROVE r \in rows
      BY <1>3, <2>6 DEF Crash
    <2>7. ASSUME NEW t \in Token, GraceExpires(t) \/ LiveExpires(t) PROVE r \in rows
      BY <1>3, <2>7 DEF GraceExpires, LiveExpires
    <2>8. ASSUME NEW a \in Access, AccessExpires(a) PROVE r \in rows
      BY <1>3, <2>8 DEF AccessExpires
    <2> QED
      BY <2>1, <2>2, <2>3, <2>4, <2>5, <2>6, <2>7, <2>8 DEF Next
  <1>4. ASSUME NEW r \in rows' PROVE root'[r.token] # 0
    <2>1. CASE r \in rows
      BY <1>1, <2>1 DEF KeysOK, TypeOK, Row, StepOK, TokenStep
    <2>2. ASSUME NEW c \in Client, call[c].pc = "row", r.token = call[c].new PROVE root'[r.token] # 0
      <3>1. call[c].new \in Token /\ root[call[c].new] # 0
        BY <1>1, <2>2 DEF Inv, CallOK, RefreshOK, TypeOK, Call
      <3> QED
        BY <1>1, <2>2, <3>1 DEF StepOK, TokenStep
    <2> QED
      BY <1>3, <1>4, <2>1, <2>2
  <1> QED
    BY <1>2, <1>4 DEF KeysOK

\* What a call knows of the tokens is not disturbed by the steps of others, nor
\* by its own while its locals stay.
LEMMA KnowledgeKept ==
    ASSUME Inv, StepOK, minted' \in Nat, NEW k \in Call
    PROVE  /\ RefreshOK(k) => RefreshOK(k)'
           /\ RefreshOK(k) /\ RemovalOK(k) => RemovalOK(k)'
           /\ RefreshOK(k) /\ RemovalOK(k) /\ OthersOK(k) => OthersOK(k)'
  <1>1. /\ TypeOK /\ ChainOK /\ TokenStep /\ KeyStep /\ minted \in Nat
        /\ Token = (0..MaxTokens) \ {0} /\ Access = (0..MaxAccess) \ {0}
        /\ MaxTokens \in Nat /\ MaxAccess \in Nat
    <2>1. TypeOK /\ ChainOK /\ TokenStep /\ KeyStep
      BY DEF Inv, StepOK
    <2>2. minted \in 0..MaxAccess /\ MaxAccess \in Nat
      BY <2>1, BoundAssumption DEF TypeOK
    <2> QED
      BY <2>1, <2>2, BoundAssumption DEF Token, Access
  <1>2. /\ k.tok \in 0..MaxTokens /\ k.acc \in 0..MaxAccess /\ k.new \in 0..MaxTokens
        /\ k.starts \in SUBSET Token /\ k.keep \in SUBSET Token /\ k.owed \in SUBSET Token
    BY DEF Call
  <1>3. \A t \in Token : root[t] # 0 => /\ root'[t] = root[t]
                                        /\ succ[t] # 0 => succ'[t] = succ[t]
                                        /\ IsHeld(t)' => IsHeld(t)
    BY <1>1 DEF TokenStep
  <1>4. \A f : IsFamily(f) => IsFamily(f)'
    BY <1>1, <1>3 DEF IsFamily
  <1>5. ASSUME RefreshOK(k) PROVE RefreshOK(k)'
    <2>1. k.tok # 0 => k.tok \in Token
      BY <1>1, <1>2
    <2>2. k.new # 0 /\ root[k.new] # 0 => root'[k.new] # 0
      BY <1>1, <1>2, <1>3
    <2>3. k.op = "refresh" => /\ k.tok # 0 /\ root[k.tok] # 0 /\ root'[k.tok] # 0
                              /\ succ[k.tok] # 0 => succ'[k.tok] = succ[k.tok]
      BY <1>3, <1>5, <2>1 DEF RefreshOK
    <2>4. k.pc = "row" => k.new # 0 /\ root[k.new] # 0 /\ root'[k.new] # 0
      BY <1>5, <2>2 DEF RefreshOK
    <2>5. k.pc = "row" /\ k.op = "refresh" => k.new = succ'[k.tok]
      BY <1>5, <2>3, <2>4 DEF RefreshOK
    <2>6. k.pc \in {"successor", "replay"} => k.rec.next = succ'[k.tok]
      BY <1>5, <2>3 DEF RefreshOK, Presenting
    <2> QED
      BY <1>5, <2>3, <2>4, <2>5, <2>6 DEF RefreshOK
  <1>6. ASSUME RefreshOK(k), RemovalOK(k) PROVE RemovalOK(k)'
    <2>1. \A t \in k.starts \cup k.keep : root[t] # 0 /\ root'[t] = root[t]
      BY <1>2, <1>3, <1>6 DEF RemovalOK
    <2>2. k.pc = "sweep" => \A t \in Token, p \in k.starts : IsHeld(t)' /\ t < p => t \in k.starts
      <3> SUFFICES ASSUME k.pc = "sweep", NEW t \in Token, NEW p \in k.starts, IsHeld(t)', t < p
                   PROVE  t \in k.starts
        OBVIOUS
      <3>1. root[t] # 0
        BY <1>1, <1>2, <2>1 DEF ChainOK
      <3> QED
        BY <1>3, <1>6, <3>1 DEF RemovalOK
    <2>3. k.op = "byId" => /\ k.tok \in Token /\ root[k.tok] # 0 /\ root'[k.tok] # 0
                           /\ IsHeld(k.tok)' => IsHeld(k.tok)
      BY <1>1, <1>2, <1>3, <1>6 DEF RemovalOK
    <2> QED
      BY <1>4, <1>6, <2>1, <2>2, <2>3 DEF RemovalOK
  <1>7. ASSUME RefreshOK(k), RemovalOK(k), OthersOK(k), k.op = "others" PROVE OthersOK(k)'
    <2>1. /\ \A t \in k.keep : root[t] # 0 /\ root'[t] = root[t] /\ (IsHeld(t)' => IsHeld(t))
          /\ k.tok # 0 => /\ root[k.tok] # 0 /\ root'[k.tok] = root[k.tok]
                          /\ IsHeld(k.tok)' => IsHeld(k.tok)
      <3>1. k.tok # 0 => k.tok \in Token /\ root[k.tok] # 0
        BY <1>1, <1>2, <1>7 DEF OthersOK
      <3>2. \A t \in k.keep : root[t] # 0
        BY <1>7, <3>1 DEF OthersOK
      <3> QED
        BY <1>2, <1>3, <3>1, <3>2
    <2>2. k.acc <= minted' /\ access'[k.acc] \in {0, access[k.acc]}
      <3>1. k.acc \in Access /\ k.acc <= minted
        BY <1>1, <1>2, <1>7 DEF RefreshOK, OthersOK, Removal
      <3> QED
        BY <1>1, <3>1 DEF KeyStep
    <2>3. k.pc = "walk" /\ k.tok # 0 =>
            \/ \A t \in k.starts : IsHeld(t)' /\ root'[t] = root'[k.tok] => t \in k.keep
            \/ k.keep = {k.tok} /\ ~IsHeld(k.tok)'
      <3>1. ASSUME NEW t \in k.starts, IsHeld(t)', root'[t] = root'[k.tok], k.tok # 0
            PROVE  IsHeld(t) /\ root[t] = root[k.tok]
        <4>1. root[t] # 0
          BY <1>7 DEF RemovalOK
        <4> QED
          BY <1>2, <1>3, <2>1, <3>1, <4>1
      <3> QED
        BY <1>7, <2>1, <3>1 DEF OthersOK
    <2>4. \A t \in k.keep : k.tok # 0 /\ root'[t] = root'[k.tok]
      BY <1>7, <2>1 DEF OthersOK
    <2> QED
      BY <1>7, <2>1, <2>2, <2>3, <2>4 DEF OthersOK
  <1> QED
    BY <1>5, <1>6, <1>7 DEF OthersOK

LEMMA IdleOK ==
    RefreshOK(Idle) /\ RemovalOK(Idle) /\ OthersOK(Idle)
  BY DEF Idle, RefreshOK, RemovalOK, OthersOK, Presenting, Before, After, Removal

\* The locals a call has after a step, right of the tokens as they are then or,
\* what is enough, as they were before.
LEMMA NextLocals ==
    ASSUME Inv, [Next]_vars, NEW c \in Client, NEW k \in Call, Become(c, k),
           \/ RefreshOK(k) /\ RemovalOK(k) /\ OthersOK(k)
           \/ RefreshOK(k)' /\ RemovalOK(k)' /\ OthersOK(k)'
    PROVE  \A d \in Client : CallOK(d)'
  <1>1. StepOK /\ minted' \in Nat
    <2>1. TypeOK' /\ MaxAccess \in Nat
      BY TypeStep, BoundAssumption
    <2> QED
      BY <2>1, StepLemma DEF TypeOK
  <1>2. /\ call'[c] = k
        /\ \A d \in Client : d # c => call'[d] = call[d]
    BY Becomes DEF Inv, TypeOK
  <1>3. RefreshOK(k)' /\ RemovalOK(k)' /\ OthersOK(k)'
    BY <1>1, KnowledgeKept
  <1>4. CallOK(c)'
    BY <1>2, <1>3 DEF CallOK
  <1>5. ASSUME NEW d \in Client, d # c PROVE CallOK(d)'
    <2>1. PICK m \in Call : m = call[d] /\ RefreshOK(m) /\ RemovalOK(m) /\ OthersOK(m)
      BY DEF Inv, TypeOK, CallOK
    <2>2. RefreshOK(m)' /\ RemovalOK(m)' /\ OthersOK(m)'
      BY <1>1, <2>1, KnowledgeKept
    <2> QED
      BY <1>2, <1>5, <2>1, <2>2 DEF CallOK
  <1> QED
    BY <1>4, <1>5

LEMMA SameLocals ==
    ASSUME Inv, [Next]_vars, UNCHANGED call
    PROVE  \A d \in Client : CallOK(d)'
  <1> SUFFICES ASSUME NEW d \in Client PROVE CallOK(d)'
    OBVIOUS
  <1>1. StepOK /\ minted' \in Nat
    <2>1. TypeOK' /\ MaxAccess \in Nat
      BY TypeStep, BoundAssumption
    <2> QED
      BY <2>1, StepLemma DEF TypeOK
  <1>2. PICK m \in Call : m = call[d] /\ RefreshOK(m) /\ RemovalOK(m) /\ OthersOK(m)
    BY DEF Inv, TypeOK, CallOK
  <1>3. RefreshOK(m)' /\ RemovalOK(m)' /\ OthersOK(m)'
    BY <1>1, <1>2, KnowledgeKept
  <1> QED
    BY <1>2, <1>3 DEF CallOK

LEMMA CallArriving ==
    ASSUME Inv, [Next]_vars, NEW c \in Client, Arriving(c)
    PROVE  \A d \in Client : CallOK(d)'
  <1> USE BoundAssumption
  <1>1. /\ TypeOK /\ Token = (0..MaxTokens) \ {0} /\ Access = (0..MaxAccess) \ {0}
        /\ MaxTokens \in Nat /\ MaxAccess \in Nat /\ minted \in Nat
    <2>1. minted \in 0..MaxAccess
      BY DEF Inv, TypeOK
    <2> QED
      BY <2>1 DEF Inv, Token, Access
  <1>2. CASE SignIn(c)
    <2>1. PICK t \in Token :
             /\ minted < MaxAccess
             /\ root' = [root EXCEPT ![t] = t]
             /\ Become(c, [Idle EXCEPT !.pc = "row", !.op = "signin",
                              !.new = t, !.acc = minted + 1])
      BY <1>2 DEF SignIn
    <2>2. PICK k : k = [Idle EXCEPT !.pc = "row", !.op = "signin", !.new = t, !.acc = minted + 1]
      OBVIOUS
    <2>3. minted + 1 \in 0..MaxAccess /\ t \in 0..MaxTokens
      BY <1>1, <2>1
    <2>4. k \in Call
      BY <2>2, <2>3, TypeOfRecords DEF Idle, Call
    <2>5. root'[t] # 0
      BY <1>1, <2>1 DEF TypeOK
    <2>6. /\ k.pc = "row" /\ k.op = "signin" /\ k.new = t /\ k.acc = minted + 1
          /\ k.starts = {} /\ k.keep = {} /\ k.owed = {}
      BY <2>2 DEF Idle
    <2>7. RefreshOK(k)' /\ RemovalOK(k)' /\ OthersOK(k)'
      BY <1>1, <2>5, <2>6 DEF RefreshOK, RemovalOK, OthersOK, Presenting, Before, After, Removal
    <2> QED
      BY <2>1, <2>2, <2>4, <2>7, NextLocals
  <1>3. CASE Present(c)
    <2>1. PICK t \in Held :
             Become(c, [Idle EXCEPT !.pc = IF refresh[t].kind = "grace" THEN "successor" ELSE "rotate",
                                    !.op = "refresh", !.tok = t, !.rec = refresh[t]])
      BY <1>3 DEF Present
    <2>2. PICK k : k = [Idle EXCEPT !.pc = IF refresh[t].kind = "grace" THEN "successor" ELSE "rotate",
                                    !.op = "refresh", !.tok = t, !.rec = refresh[t]]
      OBVIOUS
    <2>3. /\ t \in Token /\ t \in 0..MaxTokens /\ refresh[t] \in Record /\ IsHeld(t)
          /\ root[t] # 0 /\ RecordOK(t) /\ t # 0
      BY <1>1, HeldAreIssued DEF Inv, TypeOK
    <2>4. k \in Call
      BY <2>2, <2>3, TypeOfRecords DEF Idle, Call
    <2>5. /\ k.pc = IF refresh[t].kind = "grace" THEN "successor" ELSE "rotate"
          /\ k.op = "refresh" /\ k.tok = t /\ k.rec = refresh[t]
          /\ k.starts = {} /\ k.keep = {} /\ k.owed = {}
      BY <2>2 DEF Idle
    <2>6. refresh[t].kind \in {"live", "grace"}
      BY <2>3 DEF Record, IsHeld
    <2>7. RefreshOK(k) /\ RemovalOK(k) /\ OthersOK(k)
      BY <2>3, <2>5, <2>6 DEF RefreshOK, RemovalOK, OthersOK, RecordOK, Presenting, Before, After, Removal
    <2> QED
      BY <2>1, <2>2, <2>4, <2>7, NextLocals
  <1>4. \A a \in Caller : a \in 0..MaxAccess /\ a # 0 /\ a <= minted
    BY <1>1 DEF Caller, Inv, KeysOK
  <1>5. CASE Logout(c)
    <2>1. PICK a \in Caller : Become(c, [Idle EXCEPT !.pc = "find", !.op = "logout", !.acc = a])
      BY <1>5 DEF Logout, Begin
    <2>2. PICK k : k = [Idle EXCEPT !.pc = "find", !.op = "logout", !.acc = a]
      OBVIOUS
    <2>3. k \in Call
      BY <1>4, <2>2, TypeOfRecords DEF Idle, Call, Removal
    <2>4. /\ k.pc = "find" /\ k.op = "logout" /\ k.acc = a
          /\ k.starts = {} /\ k.keep = {} /\ k.owed = {}
      BY <2>2 DEF Idle
    <2>5. RefreshOK(k) /\ RemovalOK(k) /\ OthersOK(k)
      BY <1>4, <2>4 DEF RefreshOK, RemovalOK, OthersOK, Presenting, Before, After, Removal
    <2> QED
      BY <2>1, <2>2, <2>3, <2>5, NextLocals
  <1>6. CASE RevokeListed(c)
    <2>1. PICK r \in rows : Become(c, [Idle EXCEPT !.pc = "find", !.op = "byId", !.acc = r.access,
                             !.tok = r.token, !.starts = {r.token}])
      BY <1>6 DEF RevokeListed, Begin
    <2>2. PICK k : k = [Idle EXCEPT !.pc = "find", !.op = "byId", !.acc = r.access,
                             !.tok = r.token, !.starts = {r.token}]
      OBVIOUS
    <2>3. /\ r.token \in Token /\ r.token \in 0..MaxTokens /\ r.token # 0
          /\ r.access \in 0..MaxAccess /\ r.access # 0 /\ root[r.token] # 0
      BY <1>1 DEF TypeOK, Row, Inv, KeysOK
    <2>4. k \in Call
      BY <2>2, <2>3, TypeOfRecords DEF Idle, Call, Removal
    <2>5. /\ k.pc = "find" /\ k.op = "byId" /\ k.acc = r.access /\ k.tok = r.token
          /\ k.starts = {r.token} /\ k.keep = {} /\ k.owed = {}
      BY <2>2 DEF Idle
    <2>6. RefreshOK(k) /\ RemovalOK(k) /\ OthersOK(k)
      BY <2>3, <2>5 DEF RefreshOK, RemovalOK, OthersOK, Presenting, Before, After, Removal
    <2> QED
      BY <2>1, <2>2, <2>4, <2>6, NextLocals
  <1>7. CASE RevokeAll(c)
    <2>1. PICK k : k = [Idle EXCEPT !.pc = "walk", !.op = "all", !.starts = Held,
                             !.owed = Families(Held)]
      OBVIOUS
    <2>2. Held \subseteq Token /\ (\A t \in Held : root[t] # 0)
      BY HeldAreIssued
    <2>3. Families(Held) \subseteq Token /\ \A f \in Families(Held) : IsFamily(f)
      BY <2>2, FamiliesOfIssued
    <2>4. k \in Call
      BY <2>1, <2>2, <2>3, TypeOfRecords DEF Idle, Call, Removal
    <2>5. /\ k.pc = "walk" /\ k.op = "all" /\ k.starts = Held /\ k.keep = {}
          /\ k.owed = Families(Held)
      BY <2>1 DEF Idle
    <2>6. RefreshOK(k) /\ RemovalOK(k) /\ OthersOK(k)
      BY <2>2, <2>3, <2>5 DEF RefreshOK, RemovalOK, OthersOK, Presenting, Before, After, Removal
    <2> QED
      BY <1>7, <2>1, <2>4, <2>6, NextLocals DEF RevokeAll, Begin
  <1>8. CASE RevokeOthers(c)
    <2>1. PICK a \in Caller : Become(c, [Idle EXCEPT !.pc = "validate", !.op = "others", !.acc = a])
      BY <1>8 DEF RevokeOthers, Begin
    <2>2. PICK k : k = [Idle EXCEPT !.pc = "validate", !.op = "others", !.acc = a]
      OBVIOUS
    <2>3. k \in Call
      BY <1>4, <2>2, TypeOfRecords DEF Idle, Call, Removal
    <2>4. /\ k.pc = "validate" /\ k.op = "others" /\ k.acc = a /\ k.tok = 0
          /\ k.starts = {} /\ k.keep = {} /\ k.owed = {}
      BY <2>2 DEF Idle
    <2>5. RefreshOK(k) /\ RemovalOK(k) /\ OthersOK(k)
      BY <1>4, <2>4 DEF RefreshOK, RemovalOK, OthersOK, Presenting, Before, After, Removal
    <2> QED
      BY <2>1, <2>2, <2>3, <2>5, NextLocals
  <1> QED
    BY <1>2, <1>3, <1>5, <1>6, <1>7, <1>8 DEF Arriving

LEMMA CallRefreshing ==
    ASSUME Inv, [Next]_vars, NEW c \in Client, Refreshing(c)
    PROVE  \A d \in Client : CallOK(d)'
  <1> USE BoundAssumption
  <1>1. /\ TypeOK /\ Token = (0..MaxTokens) \ {0} /\ Access = (0..MaxAccess) \ {0}
        /\ MaxTokens \in Nat /\ MaxAccess \in Nat /\ minted \in Nat
    <2>1. minted \in 0..MaxAccess
      BY DEF Inv, TypeOK
    <2> QED
      BY <2>1 DEF Inv, Token, Access
  <1>2. PICK m \in Call : m = call[c] /\ RefreshOK(m) /\ RemovalOK(m) /\ OthersOK(m)
    BY DEF Inv, TypeOK, CallOK
  <1>3. ASSUME Become(c, Idle) PROVE \A d \in Client : CallOK(d)'
    BY <1>3, IdleOK, TypeOfRecords, NextLocals
  <1>4. CASE Rotate(c)
    <2>1. PICK t \in Token :
             /\ minted < MaxAccess /\ m.pc = "rotate"
             /\ root' = [root EXCEPT ![t] = root[m.tok]]
             /\ succ' = [succ EXCEPT ![m.tok] = t]
             /\ Become(c, [m EXCEPT !.pc = "row", !.new = t, !.acc = minted + 1])
      BY <1>2, <1>4 DEF Rotate
    <2>2. PICK k : k = [m EXCEPT !.pc = "row", !.new = t, !.acc = minted + 1]
      OBVIOUS
    <2>3. /\ k.pc = "row" /\ k.op = m.op /\ k.tok = m.tok /\ k.new = t /\ k.acc = minted + 1
          /\ k.starts = m.starts /\ k.keep = m.keep /\ k.owed = m.owed
      BY <1>2, <2>2 DEF Call
    <2>4. k \in Call
      <3>1. minted + 1 \in 0..MaxAccess /\ t \in 0..MaxTokens
        BY <1>1, <2>1
      <3> QED
        BY <1>2, <2>2, <3>1 DEF Call
    <2>5. m.op = "refresh" /\ m.tok \in Token /\ root[m.tok] # 0
      BY <1>1, <1>2, <2>1 DEF RefreshOK, Presenting, Call
    <2>6. root'[t] # 0 /\ succ'[m.tok] = t /\ root'[m.tok] # 0
      BY <1>1, <2>1, <2>5 DEF TypeOK
    <2>7. RefreshOK(k)' /\ OthersOK(k)'
      BY <1>1, <2>3, <2>5, <2>6 DEF RefreshOK, OthersOK, Presenting, Before, After, Removal
    <2>8. RemovalOK(k)'
      <3>1. RemovalOK(m)'
        <4>1. TypeOK' /\ StepOK
          BY TypeStep, StepLemma
        <4>2. minted' \in Nat
          BY <1>1, <4>1 DEF TypeOK
        <4> QED
          BY <1>2, <4>1, <4>2, KnowledgeKept
      <3> QED
        BY <2>3, <2>5, <3>1 DEF RemovalOK, After
    <2> QED
      BY <2>1, <2>2, <2>4, <2>7, <2>8, NextLocals
  <1>5. CASE LoseRotation(c)
    <2>1. m.pc = "rotate" /\ m.op = "refresh" /\ m.tok \in Token /\ root[m.tok] # 0
      BY <1>1, <1>2, <1>5 DEF LoseRotation, RefreshOK, Presenting, Call
    <2>2. CASE refresh[m.tok].kind = "grace"
      <3>1. PICK k : k = [m EXCEPT !.pc = "successor", !.rec = refresh[m.tok]]
        OBVIOUS
      <3>2. Become(c, k)
        BY <1>2, <1>5, <2>2, <3>1 DEF LoseRotation
      <3>3. /\ k.pc = "successor" /\ k.op = "refresh" /\ k.tok = m.tok /\ k.rec = refresh[m.tok]
            /\ k.starts = m.starts /\ k.keep = m.keep /\ k.owed = m.owed
        BY <1>2, <2>1, <3>1 DEF Call
      <3>4. k \in Call
        <4>1. refresh[m.tok] \in Record
          BY <1>1, <2>1 DEF TypeOK
        <4> QED
          BY <1>2, <3>1, <4>1 DEF Call
      <3>5. RecordOK(m.tok)
        BY <2>1 DEF Inv
      <3>6. RefreshOK(k) /\ RemovalOK(k) /\ OthersOK(k)
        BY <1>2, <2>1, <2>2, <3>3, <3>5 DEF RefreshOK, RemovalOK, OthersOK, RecordOK,
           Presenting, Before, After, Removal
      <3> QED
        BY <3>2, <3>4, <3>6, NextLocals
    <2>3. CASE refresh[m.tok].kind # "grace"
      BY <1>2, <1>3, <1>5, <2>3 DEF LoseRotation
    <2> QED
      BY <2>2, <2>3
  <1>6. CASE ReadSuccessor(c)
    <2>1. m.pc = "successor" /\ m.op = "refresh" /\ m.rec.next \in Token
      BY <1>1, <1>2, <1>6 DEF ReadSuccessor, RefreshOK, Presenting, Call, Record
    <2>2. CASE refresh[m.rec.next].kind = "live"
      <3>1. PICK k : k = [m EXCEPT !.pc = "replay", !.after = refresh[m.rec.next]]
        OBVIOUS
      <3>2. Become(c, k)
        BY <1>2, <1>6, <2>2, <3>1 DEF ReadSuccessor
      <3>3. /\ k.pc = "replay" /\ k.op = "refresh" /\ k.tok = m.tok /\ k.rec = m.rec
            /\ k.after = refresh[m.rec.next]
            /\ k.starts = m.starts /\ k.keep = m.keep /\ k.owed = m.owed
        BY <1>2, <2>1, <3>1 DEF Call
      <3>4. k \in Call
        <4>1. refresh[m.rec.next] \in Record
          BY <1>1, <2>1 DEF TypeOK
        <4> QED
          BY <1>2, <3>1, <4>1 DEF Call
      <3>5. RefreshOK(k) /\ RemovalOK(k) /\ OthersOK(k)
        BY <1>2, <2>1, <2>2, <3>3 DEF RefreshOK, RemovalOK, OthersOK,
           Presenting, Before, After, Removal
      <3> QED
        BY <3>2, <3>4, <3>5, NextLocals
    <2>3. CASE refresh[m.rec.next].kind # "live"
      BY <1>2, <1>3, <1>6, <2>3 DEF ReadSuccessor
    <2> QED
      BY <2>2, <2>3
  <1>7. CASE Replay(c) \/ RefuseReplay(c) \/ WriteRow(c)
    BY <1>3, <1>7 DEF Replay, RefuseReplay, WriteRow
  <1>8. CASE RowFails(c)
    <2>1. m.pc = "row" /\ m.acc # 0 /\ m.acc \in 0..MaxAccess
      BY <1>2, <1>8 DEF RowFails, RefreshOK, Call
    <2>2. PICK k : k = [Idle EXCEPT !.pc = "find", !.op = "logout", !.acc = m.acc]
      OBVIOUS
    <2>3. k \in Call
      BY <2>1, <2>2, TypeOfRecords DEF Idle, Call, Removal
    <2>4. /\ k.pc = "find" /\ k.op = "logout" /\ k.acc = m.acc
          /\ k.starts = {} /\ k.keep = {} /\ k.owed = {}
      BY <2>2 DEF Idle
    <2>5. RefreshOK(k) /\ RemovalOK(k) /\ OthersOK(k)
      BY <2>1, <2>4 DEF RefreshOK, RemovalOK, OthersOK, Presenting, Before, After, Removal
    <2>6. Become(c, k) \/ Become(c, Idle)
      BY <1>2, <1>8, <2>2 DEF RowFails
    <2> QED
      BY <1>3, <2>3, <2>5, <2>6, NextLocals
  <1> QED
    BY <1>4, <1>5, <1>6, <1>7, <1>8 DEF Refreshing

\* The tokens a walk reached belong to families it started in.
LEMMA WalkedAreIssued ==
    ASSUME Inv, NEW c \in Client
    PROVE  /\ Reach(call[c].starts, call[c].keep) \subseteq Token
           /\ \A t \in Reach(call[c].starts, call[c].keep) : root[t] # 0
  <1>1. call[c].starts \in SUBSET Token /\ \A t \in call[c].starts : root[t] # 0
    BY DEF Inv, TypeOK, Call, CallOK, RemovalOK
  <1>2. ASSUME NEW t \in Reach(call[c].starts, call[c].keep) PROVE root[t] # 0
    <2>1. \E s \in call[c].starts \ call[c].keep : root[s] = root[t]
      BY <1>1, ReachFamilies DEF Inv, Store
    <2> QED
      BY <1>1, <2>1
  <1> QED
    BY <1>2 DEF Reach

\* What is collected holds every record of the caller's family, or there is none.
LEMMA CollectsAll ==
    ASSUME Inv, NEW c \in Client, call[c].op = "others", call[c].tok # 0
    PROVE  /\ call[c].tok \in Collected(c)
           /\ \/ \A t \in Held : root[t] = root[call[c].tok] => t \in Collected(c)
              \/ Collected(c) = {call[c].tok} /\ ~IsHeld(call[c].tok)
  <1> DEFINE x == call[c].tok
  <1>1. x \in Token /\ {x} \ {0} = {x} /\ {x} \in SUBSET Token /\ Store
    <2>1. x \in 0..MaxTokens /\ x # 0
      BY DEF Inv, TypeOK, Call
    <2> HIDE DEF x
    <2> QED
      BY <2>1, BoundAssumption DEF Token, Inv, Store
  <1>2. Collected(c) = Reach({x}, {})
    BY <1>1 DEF Collected
  <1>3. x \in Reach({x}, {})
    BY <1>1, ReachStarts
  <1>4. CASE IsHeld(x)
    <2>1. ASSUME NEW t \in Held, root[t] = root[x] PROVE t \in Reach({x}, {})
      BY <1>1, <1>3, <1>4, <2>1, ReachWhole DEF Held, IsHeld
    <2> QED
      BY <1>2, <1>3, <2>1
  <1>5. CASE ~IsHeld(x)
    <2>1. \A s \in {x} \ {} : s = x
      OBVIOUS
    <2>2. ASSUME NEW t \in Reach({x}, {}) PROVE t = x
      <3>1. PICK s \in {x} \ {} : s = t \/ IsHeld(s)
        BY <1>1, ReachFamilies
      <3> QED
        BY <1>5, <2>1, <3>1
    <2> QED
      BY <1>2, <1>3, <1>5, <2>2
  <1> QED
    BY <1>4, <1>5

LEMMA CallRemoving ==
    ASSUME Inv, [Next]_vars, NEW c \in Client, Removing(c)
    PROVE  \A d \in Client : CallOK(d)'
  <1> USE BoundAssumption
  <1>1. /\ TypeOK /\ Token = (0..MaxTokens) \ {0} /\ Access = (0..MaxAccess) \ {0}
        /\ MaxTokens \in Nat /\ MaxAccess \in Nat
    BY DEF Inv, Token, Access
  <1>2. PICK m \in Call : m = call[c] /\ RefreshOK(m) /\ RemovalOK(m) /\ OthersOK(m)
    BY DEF Inv, TypeOK, CallOK
  <1>3. /\ m.tok \in 0..MaxTokens /\ m.acc \in 0..MaxAccess
        /\ m.starts \in SUBSET Token /\ m.keep \in SUBSET Token
        /\ m.keys \in SUBSET Access /\ m.owed \in SUBSET Token
        /\ \A t \in m.starts \cup m.keep : root[t] # 0
    BY <1>2 DEF Call, RemovalOK
  <1>4. CASE Find(c)
    <2> DEFINE starts == m.starts \cup ({access[m.acc]} \ {0})
    <2>1. PICK k : k = [m EXCEPT !.pc = "walk", !.starts = starts, !.owed = Families(starts \cap Held)]
      OBVIOUS
    <2>2. Become(c, k) /\ m.pc = "find"
      BY <1>2, <1>4, <2>1 DEF Find, Local
    <2>3. m.op \in {"logout", "byId"} /\ m.keep = {} /\ m.acc \in Access
      BY <1>1, <1>2, <1>3, <2>2 DEF RefreshOK, RemovalOK, Removal
    <2>4. access[m.acc] \in 0..MaxTokens /\ (access[m.acc] # 0 => root[access[m.acc]] # 0)
      BY <1>1, <2>3 DEF TypeOK, Inv, KeysOK
    <2>5. starts \in SUBSET Token /\ (\A t \in starts : root[t] # 0) /\ m.starts \subseteq starts
      BY <1>1, <1>3, <2>4
    <2> HIDE DEF starts
    <2>6. /\ Families(starts \cap Held) \in SUBSET Token
          /\ \A f \in Families(starts \cap Held) : IsFamily(f)
      BY <2>5, FamiliesOfIssued
    <2>7. k \in Call
      BY <1>2, <2>1, <2>5, <2>6 DEF Call
    <2>8. /\ k.pc = "walk" /\ k.op = m.op /\ k.tok = m.tok /\ k.acc = m.acc
          /\ k.starts = starts /\ k.keep = {} /\ k.owed = Families(starts \cap Held)
      BY <1>2, <2>1, <2>3 DEF Call
    <2>9. RefreshOK(k) /\ OthersOK(k)
      BY <1>1, <2>3, <2>8 DEF RefreshOK, OthersOK, Presenting, Before, After, Removal
    <2>10. RemovalOK(k)
      BY <1>2, <2>3, <2>5, <2>6, <2>8 DEF RemovalOK, Before, After
    <2> QED
      BY <2>2, <2>7, <2>9, <2>10, NextLocals
  <1>5. CASE Validate(c)
    <2>1. PICK k : k = [m EXCEPT !.pc = "list", !.tok = access[m.acc]]
      OBVIOUS
    <2>2. Become(c, k) /\ m.pc = "validate"
      BY <1>2, <1>5, <2>1 DEF Validate, Local
    <2>3. m.op = "others" /\ m.acc \in Access
      BY <1>1, <1>2, <1>3, <2>2 DEF RefreshOK, RemovalOK, Removal
    <2>4. access[m.acc] \in 0..MaxTokens /\ (access[m.acc] # 0 => root[access[m.acc]] # 0)
      BY <1>1, <2>3 DEF TypeOK, Inv, KeysOK
    <2>5. k \in Call
      BY <1>2, <2>1, <2>4 DEF Call
    <2>6. /\ k.pc = "list" /\ k.op = "others" /\ k.tok = access[m.acc] /\ k.acc = m.acc
          /\ k.starts = m.starts /\ k.keep = m.keep /\ k.owed = m.owed
      BY <1>2, <2>1, <2>3 DEF Call
    <2>7. RefreshOK(k)
      BY <1>1, <2>3, <2>6 DEF RefreshOK, Presenting, Before, After, Removal
    <2>8. RemovalOK(k)
      BY <1>2, <2>2, <2>6 DEF RemovalOK, Before, After
    <2>9. m.keep = {}
      BY <1>2, <2>2 DEF RemovalOK, Before
    <2>10. OthersOK(k)
      BY <1>2, <2>3, <2>4, <2>6, <2>9 DEF OthersOK, After
    <2> QED
      BY <2>2, <2>5, <2>7, <2>8, <2>10, NextLocals
  <1>6. CASE List(c)
    <2>1. PICK k : k = [m EXCEPT !.pc = "collect", !.starts = Held]
      OBVIOUS
    <2>2. Become(c, k) /\ m.pc = "list"
      BY <1>2, <1>6, <2>1 DEF List, Local
    <2>3. m.op = "others"
      BY <1>2, <2>2 DEF RemovalOK
    <2>4. k \in Call
      BY <1>2, <2>1, HeldAreIssued DEF Call
    <2>5. /\ k.pc = "collect" /\ k.op = "others" /\ k.tok = m.tok /\ k.acc = m.acc
          /\ k.starts = Held /\ k.keep = m.keep /\ k.owed = m.owed
      BY <1>2, <2>1, <2>3 DEF Call
    <2>6. RefreshOK(k)
      BY <1>1, <1>2, <2>3, <2>5 DEF RefreshOK, Presenting, Before, After, Removal
    <2>7. RemovalOK(k)
      BY <1>2, <1>3, <2>2, <2>5, HeldAreIssued DEF RemovalOK, Before, After
    <2>8. OthersOK(k)
      BY <1>2, <2>2, <2>3, <2>5 DEF OthersOK, After
    <2> QED
      BY <2>2, <2>4, <2>6, <2>7, <2>8, NextLocals
  <1>7. CASE Collect(c)
    <2> DEFINE keep == Collected(c)
               owed == Families(m.starts \ keep) \ Families(keep)
    <2>1. PICK k : k = [m EXCEPT !.pc = "walk", !.keep = keep, !.owed = owed]
      OBVIOUS
    <2>2. Become(c, k) /\ m.pc = "collect"
      BY <1>2, <1>7, <2>1 DEF Collect, Local
    <2>3. m.op = "others" /\ call[c].op = "others"
      BY <1>2, <2>2 DEF RemovalOK
    <2>4. keep \subseteq Token /\ \A t \in keep : root[t] # 0 /\ root[t] = root[m.tok]
      BY <1>2, <2>3, Collects
    <2>5. m.tok # 0 => /\ m.tok \in keep
                       /\ \/ \A t \in Held : root[t] = root[m.tok] => t \in keep
                          \/ keep = {m.tok} /\ ~IsHeld(m.tok)
      BY <1>2, <2>3, CollectsAll
    <2>6. m.tok = 0 => keep = {}
      <3>1. m.tok = 0 => {call[c].tok} \ {0} = {} /\ Closed({}, {}, {})
        BY <1>2 DEF Closed
      <3> QED
        BY <3>1, ReachWithin DEF Collected
    <2> HIDE DEF keep
    <2>7. owed \in SUBSET Token /\ \A f \in owed : IsFamily(f)
      <3>1. /\ Families(m.starts \ keep) \subseteq Token
            /\ \A f \in Families(m.starts \ keep) : IsFamily(f)
        BY <1>3, FamiliesOfIssued
      <3> QED
        BY <3>1
    <2>8. \A t \in keep : root[t] \notin owed
      BY DEF Families
    <2> HIDE DEF owed
    <2>9. k \in Call
      BY <1>2, <2>1, <2>4, <2>7 DEF Call
    <2>10. /\ k.pc = "walk" /\ k.op = "others" /\ k.tok = m.tok /\ k.acc = m.acc
           /\ k.starts = m.starts /\ k.keep = keep /\ k.owed = owed
      BY <1>2, <2>1, <2>3 DEF Call
    <2>11. RefreshOK(k)
      BY <1>1, <1>2, <2>3, <2>10 DEF RefreshOK, Presenting, Before, After, Removal
    <2>12. RemovalOK(k)
      BY <1>3, <2>4, <2>7, <2>8, <2>10 DEF RemovalOK, Before, After
    <2>13. OthersOK(k)
      <3>1. \A t \in m.starts : IsHeld(t) => t \in Held
        BY <1>3 DEF Held, IsHeld
      <3> QED
        BY <1>2, <2>2, <2>3, <2>4, <2>5, <2>6, <2>10, <3>1 DEF OthersOK, After
    <2> QED
      BY <2>2, <2>9, <2>11, <2>12, <2>13, NextLocals
  <1>8. CASE Walk(c)
    <2> DEFINE walked == Reach(m.starts, m.keep)
               then == CASE m.op = "all" -> "leftover"
                         [] m.op = "others" -> "recollect"
                         [] OTHER -> "scan"
    <2>1. PICK k : k = [m EXCEPT !.pc = then, !.starts = walked]
      OBVIOUS
    <2>2. Become(c, k) /\ m.pc = "walk"
      BY <1>2, <1>8, <2>1 DEF Walk
    <2>3. refresh' = [t \in Token |-> IF t \in walked THEN NoRecord ELSE refresh[t]] /\ UNCHANGED root
      BY <1>2, <1>8 DEF Walk
    <2>4. walked \subseteq Token /\ \A t \in walked : root[t] # 0
      BY <1>2, WalkedAreIssued
    <2>5. m.op = "byId" => m.tok \in Token /\ m.tok \in walked
      BY <1>1, <1>2, <1>3, ReachStarts DEF RemovalOK
    <2>6. m.op \in Removal
      BY <1>2, <2>2 DEF RefreshOK
    <2>7. /\ m.op = "all" => then = "leftover"
          /\ m.op = "others" => then = "recollect"
          /\ m.op \in {"logout", "byId"} => then = "scan"
      OBVIOUS
    <2> HIDE DEF walked, then
    <2>8. k \in Call
      BY <1>2, <2>1, <2>4, <2>6, <2>7 DEF Call, Removal
    <2>9. /\ k.pc = then /\ k.op = m.op /\ k.tok = m.tok /\ k.acc = m.acc
          /\ k.starts = walked /\ k.keep = m.keep /\ k.owed = m.owed
      BY <1>2, <2>1 DEF Call
    <2>10. RefreshOK(k)' /\ RemovalOK(m)' /\ OthersOK(m)'
      <3>1. TypeOK' /\ StepOK
        BY TypeStep, StepLemma
      <3>2. minted' \in Nat
        BY <1>1, <3>1 DEF TypeOK
      <3>3. RefreshOK(k)
        BY <1>1, <1>2, <2>6, <2>7, <2>9 DEF RefreshOK, Presenting, Before, After, Removal
      <3> QED
        BY <1>2, <2>8, <3>1, <3>2, <3>3, KnowledgeKept
    <2>11. m.op = "byId" => ~IsHeld(m.tok)'
      BY <2>3, <2>5 DEF IsHeld, NoRecord
    <2>12. RemovalOK(k)'
      BY <1>3, <2>3, <2>4, <2>5, <2>6, <2>7, <2>9, <2>10, <2>11 DEF RemovalOK, Before, After, Removal
    <2>13. OthersOK(k)'
      BY <2>2, <2>6, <2>7, <2>9, <2>10 DEF OthersOK, After
    <2> QED
      BY <2>2, <2>8, <2>10, <2>12, <2>13, NextLocals
  <1>9. CASE Leftover(c)
    <2>1. PICK k : k = [m EXCEPT !.pc = "sweep", !.starts = Held]
      OBVIOUS
    <2>2. Become(c, k) /\ m.pc = "leftover"
      BY <1>2, <1>9, <2>1 DEF Leftover, Local
    <2>3. m.op = "all"
      BY <1>2, <2>2 DEF RemovalOK
    <2>4. k \in Call
      BY <1>2, <2>1, HeldAreIssued DEF Call
    <2>5. /\ k.pc = "sweep" /\ k.op = "all" /\ k.tok = m.tok /\ k.acc = m.acc
          /\ k.starts = Held /\ k.keep = m.keep /\ k.owed = m.owed
      BY <1>2, <2>1, <2>3 DEF Call
    <2>6. RefreshOK(k) /\ OthersOK(k)
      BY <1>1, <2>3, <2>5 DEF RefreshOK, OthersOK, Presenting, Before, After, Removal
    <2>7. RemovalOK(k)
      <3>1. \A t \in Token : IsHeld(t) => t \in Held
        BY DEF Held, IsHeld
      <3> QED
        BY <1>2, <2>3, <2>5, <3>1, HeldAreIssued DEF RemovalOK, Before, After
    <2> QED
      BY <2>2, <2>4, <2>6, <2>7, NextLocals
  <1>10. CASE Sweep(c)
    <2>1. PICK k : k = [m EXCEPT !.pc = "scan"]
      OBVIOUS
    <2>2. Become(c, k) /\ m.pc = "sweep"
      BY <1>2, <1>10, <2>1 DEF Sweep
    <2>3. m.op = "all"
      BY <1>2, <2>2 DEF RemovalOK
    <2>4. k \in Call
      BY <1>2, <2>1 DEF Call
    <2>5. /\ k.pc = "scan" /\ k.op = "all" /\ k.tok = m.tok /\ k.acc = m.acc
          /\ k.starts = m.starts /\ k.keep = m.keep /\ k.owed = m.owed
      BY <1>2, <2>1, <2>3 DEF Call
    <2>6. RefreshOK(k) /\ RemovalOK(k) /\ OthersOK(k)
      BY <1>1, <1>2, <2>3, <2>5 DEF RefreshOK, RemovalOK, OthersOK, Presenting, Before, After, Removal
    <2> QED
      BY <2>2, <2>4, <2>6, NextLocals
  <1>11. CASE Recollect(c)
    <2>1. PICK k : k = [m EXCEPT !.pc = "scan", !.keep = m.keep \cup Collected(c)]
      OBVIOUS
    <2>2. Become(c, k) /\ m.pc = "recollect"
      BY <1>2, <1>11, <2>1 DEF Recollect, Local
    <2>3. m.op = "others" /\ call[c].op = "others"
      BY <1>2, <2>2 DEF RemovalOK
    <2>4. Collected(c) \subseteq Token /\ \A t \in Collected(c) : root[t] # 0 /\ root[t] = root[m.tok]
      BY <1>2, <2>3, Collects
    <2>5. m.tok = 0 => Collected(c) = {}
      <3>1. m.tok = 0 => {call[c].tok} \ {0} = {} /\ Closed({}, {}, {})
        BY <1>2 DEF Closed
      <3> QED
        BY <3>1, ReachWithin DEF Collected
    <2>6. m.tok # 0 => m.tok \in m.keep
      BY <1>2, <2>2, <2>3 DEF OthersOK, After
    <2>7. k \in Call
      BY <1>2, <1>3, <2>1, <2>4 DEF Call
    <2>8. /\ k.pc = "scan" /\ k.op = "others" /\ k.tok = m.tok /\ k.acc = m.acc
          /\ k.starts = m.starts /\ k.keep = m.keep \cup Collected(c) /\ k.owed = m.owed
      BY <1>2, <2>1, <2>3 DEF Call
    <2>9. RefreshOK(k)
      BY <1>1, <1>2, <2>3, <2>8 DEF RefreshOK, Presenting, Before, After, Removal
    <2>10. \A t \in m.keep \cup Collected(c) : m.tok # 0 /\ root[t] = root[m.tok] /\ root[t] \notin m.owed
      BY <1>2, <2>3, <2>4, <2>5, <2>6 DEF OthersOK, RemovalOK
    <2>11. RemovalOK(k)
      BY <1>2, <1>3, <2>3, <2>4, <2>8, <2>10 DEF RemovalOK, Before, After
    <2>12. OthersOK(k)
      BY <1>2, <2>2, <2>3, <2>6, <2>8, <2>10 DEF OthersOK, After
    <2> QED
      BY <2>2, <2>7, <2>9, <2>11, <2>12, NextLocals
  <1>12. CASE Scan(c) \/ Del(c)
    <2>1. PICK k \in Call : /\ Become(c, k) /\ m.pc \in {"scan", "del"} /\ k.pc \in {"del", "rows"}
                            /\ k.op = m.op /\ k.tok = m.tok /\ k.acc = m.acc
                            /\ k.starts = m.starts /\ k.keep = m.keep /\ k.owed = m.owed
      <3>1. PICK k : /\ Become(c, k) /\ m.pc \in {"scan", "del"} /\ k.pc \in {"del", "rows"}
                     /\ k.op = m.op /\ k.tok = m.tok /\ k.acc = m.acc
                     /\ k.starts = m.starts /\ k.keep = m.keep /\ k.owed = m.owed
        <4>1. CASE Scan(c)
          <5>1. PICK k : k = [m EXCEPT !.pc = "del", !.keys = Doomed(c)]
            OBVIOUS
          <5>2. Become(c, k) /\ m.pc = "scan"
            BY <1>2, <4>1, <5>1 DEF Scan, Local
          <5>3. /\ k.pc = "del" /\ k.op = m.op /\ k.tok = m.tok /\ k.acc = m.acc
                /\ k.starts = m.starts /\ k.keep = m.keep /\ k.owed = m.owed
            <6> DEFINE keys == Doomed(c)
            <6>1. k = [m EXCEPT !.pc = "del", !.keys = keys]
              BY <5>1
            <6> HIDE DEF keys
            <6> QED
              BY <1>2, <6>1 DEF Call
          <5> QED
            BY <5>2, <5>3
        <4>2. CASE Del(c)
          <5>1. PICK k : k = [m EXCEPT !.pc = "rows"]
            OBVIOUS
          <5> QED
            BY <1>2, <4>2, <5>1 DEF Del, Call
        <4> QED
          BY <1>12, <4>1, <4>2
      <3>2. call'[c] \in Call
        BY TypeStep DEF TypeOK
      <3>3. call'[c] = k
        BY <1>1, <3>1 DEF Become, TypeOK
      <3> QED
        BY <3>1, <3>2, <3>3
    <2>2. m.op \in Removal
      BY <1>2, <2>1 DEF RefreshOK, After
    <2>3. RefreshOK(k) /\ RemovalOK(k) /\ OthersOK(k)
      BY <1>1, <1>2, <2>1, <2>2 DEF RefreshOK, RemovalOK, OthersOK, Presenting, Before, After
    <2> QED
      BY <2>1, <2>3, NextLocals
  <1>13. CASE DeleteRows(c)
    BY <1>13, IdleOK, TypeOfRecords, NextLocals DEF DeleteRows
  <1> QED
    BY <1>4, <1>5, <1>6, <1>7, <1>8, <1>9, <1>10, <1>11, <1>12, <1>13 DEF Removing

-----------------------------------------------------------------------------
(* The invariant, and what it says of the families. *)

LEMMA InvInit ==
    Init => Inv
  <1> SUFFICES ASSUME Init PROVE Inv
    OBVIOUS
  <1> USE BoundAssumption
  <1>1. TypeOK
    BY TypeOfRecords DEF Init, TypeOK
  <1>2. \A t \in Token : root[t] = 0 /\ succ[t] = 0 /\ given[t] = {} /\ refresh[t] = NoRecord
    BY DEF Init
  <1>3. ChainOK /\ ConvexOK /\ (\A t \in Token : RecordOK(t))
    BY <1>2 DEF ChainOK, ConvexOK, RecordOK, IsHeld, IsLive, NoRecord
  <1>4. KeysOK
    BY DEF Init, KeysOK
  <1>5. \A c \in Client : CallOK(c)
    BY IdleOK DEF Init, CallOK
  <1> QED
    BY <1>1, <1>3, <1>4, <1>5 DEF Inv

LEMMA InvStep ==
    ASSUME Inv, [Next]_vars
    PROVE  Inv'
  <1>1. Store' /\ KeysOK'
    BY StoreStep, KeysStep
  <1>2. \A d \in Client : CallOK(d)'
    <2>1. CASE UNCHANGED vars
      BY <2>1, SameLocals DEF vars
    <2>2. ASSUME NEW c \in Client, Arriving(c) \/ Refreshing(c) \/ Removing(c)
          PROVE  \A d \in Client : CallOK(d)'
      BY <2>2, CallArriving, CallRefreshing, CallRemoving
    <2>3. ASSUME NEW c \in Client, Crash(c)
          PROVE  \A d \in Client : CallOK(d)'
      BY <2>3, IdleOK, TypeOfRecords, NextLocals DEF Crash
    <2>4. ASSUME NEW t \in Token, GraceExpires(t) \/ LiveExpires(t)
          PROVE  \A d \in Client : CallOK(d)'
      BY <2>4, SameLocals DEF GraceExpires, LiveExpires
    <2>5. ASSUME NEW a \in Access, AccessExpires(a)
          PROVE  \A d \in Client : CallOK(d)'
      BY <2>5, SameLocals DEF AccessExpires
    <2> QED
      BY <2>1, <2>2, <2>3, <2>4, <2>5 DEF Next
  <1> QED
    BY <1>1, <1>2 DEF Inv, Store

LEMMA Invariance ==
    Spec => []Inv
  BY InvInit, InvStep, PTL DEF Spec

LEMMA FamiliesInv ==
    Inv => FamiliesOK
  <1> SUFFICES ASSUME Inv PROVE FamiliesOK
    OBVIOUS
  <1>1. OneLivePerFamily
    <2> SUFFICES ASSUME NEW t \in Token, NEW u \in Token, IsLive(t), IsLive(u), root[t] = root[u],
                        t # u
                 PROVE  FALSE
      BY DEF OneLivePerFamily, IsLive
    <2>1. succ[t] = 0 /\ succ[u] = 0 /\ root[t] # 0
      BY DEF Inv, RecordOK, IsHeld, IsLive
    <2>2. t < u \/ u < t
      BY BoundAssumption DEF Token
    <2> QED
      BY <2>1, <2>2 DEF Inv, ChainOK
  <1>2. SameAnswer
    <2>1. \A t \in Token : given[t] \subseteq {succ[t]}
      BY DEF Inv, ChainOK
    <2> QED
      BY <2>1 DEF SameAnswer
  <1> QED
    BY <1>1, <1>2 DEF FamiliesOK, Inv

\* In every state each family has at most one token it can be refreshed with,
\* and every token presented was answered with one successor only.
THEOREM FamiliesSound ==
    Spec => []FamiliesOK
  BY FamiliesInv, Invariance, PTL

\* Signing out the other sessions takes no record of the family of its caller, unless
\* the record that the caller's access key names has gone and it collected nothing else.
THEOREM KeepsTheCallerHolds ==
    Spec => KeepsTheCaller
  <1> DEFINE Keeps == \A c \in Client : call'[c] # call[c] =>
                         \A t \in Kept(c) : refresh'[t] = refresh[t]
  <1>1. ASSUME Inv, [Next]_vars PROVE Keeps
    <2> SUFFICES ASSUME NEW c \in Client, call'[c] # call[c], NEW t \in Kept(c)
                 PROVE  refresh'[t] = refresh[t]
      OBVIOUS
    <2>1. /\ t \in Token /\ IsHeld(t) /\ call[c].op = "others" /\ call[c].tok \in Token
          /\ root[t] = root[call[c].tok] /\ call[c].tok # 0
          /\ RefreshOK(call[c]) /\ RemovalOK(call[c]) /\ OthersOK(call[c])
          /\ ~(call[c].keep = {call[c].tok} /\ ~IsHeld(call[c].tok))
      <3>1. call[c].tok \in 0..MaxTokens
        BY <1>1 DEF Inv, TypeOK, Call
      <3>2. call[c].tok # 0 => call[c].tok \in Token
        BY <3>1, BoundAssumption DEF Token
      <3> QED
        BY <1>1, <3>2 DEF Kept, Orphan, Held, IsHeld, Inv, CallOK
    <2>2. ASSUME NEW d \in Client, NEW k, Become(d, k) PROVE d = c
      BY <2>2 DEF Become
    <2>3. CASE Walk(c)
      <3>1. t \notin Reach(call[c].starts, call[c].keep)
        <4> SUFFICES ASSUME t \in Reach(call[c].starts, call[c].keep) PROVE FALSE
          OBVIOUS
        <4>1. call[c].starts \in SUBSET Token /\ Store
          BY <1>1 DEF Inv, TypeOK, Call, Store
        <4>2. PICK s \in call[c].starts \ call[c].keep : root[s] = root[t] /\ (s = t \/ IsHeld(s))
          BY <4>1, ReachFamilies
        <4>3. call[c].pc = "walk"
          BY <2>3 DEF Walk
        <4> QED
          BY <2>1, <4>2, <4>3 DEF OthersOK
      <3> QED
        BY <2>1, <2>3, <3>1 DEF Walk
    <2>4. ASSUME NEW d \in Client,
                 \/ SignIn(d) \/ Rotate(d) \/ Replay(d) \/ WriteRow(d)
                 \/ Walk(d) \/ Sweep(d) \/ DeleteRows(d)
          PROVE  d = c
      BY <2>2, <2>4 DEF SignIn, Rotate, Replay, WriteRow, Walk, Sweep, DeleteRows
    <2>5. ~SignIn(c) /\ ~Rotate(c) /\ ~Sweep(c)
      BY <2>1 DEF SignIn, Rotate, Sweep, RefreshOK, RemovalOK, Presenting
    <2>6. Replay(c) \/ WriteRow(c) \/ DeleteRows(c) => refresh'[t] = refresh[t]
      BY <2>1 DEF Replay, WriteRow, DeleteRows
    <2>7. \A u \in Token : ~GraceExpires(u) /\ ~LiveExpires(u)
      BY DEF GraceExpires, LiveExpires
    <2> QED
      BY <1>1, <2>3, <2>4, <2>5, <2>6, <2>7, StoreMoves
  <1> QED
    BY <1>1, Invariance, PTL DEF Spec, KeepsTheCaller

-----------------------------------------------------------------------------
(* What was revoked stays revoked, while no grace record expires under a   *)
(* removal.                                                                *)

\* A record is lost with its whole family, with the family cut, or while no
\* removal runs.
LossOK ==
    \A t \in Token, f \in Token : root[t] = f /\ IsHeld(t) /\ ~IsHeld(t)' =>
        \/ ~Alive(f)'
        \/ f \in cut'
        \/ \A c \in Client : call[c].op \notin Removal

LEMMA LossLemma ==
    ASSUME PromptRemovals, Inv, [Next]_vars
    PROVE  LossOK
  <1> SUFFICES ASSUME NEW t \in Token, NEW f \in Token, root[t] = f, IsHeld(t), ~IsHeld(t)',
                      NEW u \in Token, IsLive(u)', root'[u] = f, f \notin cut',
                      NEW d \in Client, call[d].op \in Removal
               PROVE  FALSE
    BY DEF LossOK, Alive
  <1>1. refresh \in [Token -> Record] /\ root \in [Token -> 0..MaxTokens]
    BY DEF Inv, TypeOK
  <1>2. ASSUME NEW S, Lose(S)
        PROVE  t \in S /\ u \notin S /\ IsLive(u) /\ IsHeld(u) /\ root[u] = root[t]
    <2>1. \A x \in Token : refresh'[x] = IF x \in S THEN NoRecord ELSE refresh[x]
      BY <1>2 DEF Lose
    <2> QED
      BY <1>2, <2>1 DEF Lose, IsHeld, IsLive, NoRecord
  <1>3. CASE UNCHANGED <<refresh, root, succ, given>>
    BY <1>3 DEF IsHeld
  <1>4. ASSUME NEW c \in Client, SignIn(c) \/ Rotate(c) PROVE FALSE
    <2>1. \A x \in Token : IsHeld(x) => IsHeld(x)'
      <3>1. ASSUME NEW x \in Token, Founded(x) PROVE \A y \in Token : IsHeld(y) => IsHeld(y)'
        BY <1>1, <3>1 DEF Founded, Live, IsHeld
      <3>2. ASSUME NEW k \in Token, NEW x \in Token, Exchanged(k, x)
            PROVE  \A y \in Token : IsHeld(y) => IsHeld(y)'
        <4>1. Grace(refresh[k], x).kind = "grace"
          BY <1>1 DEF Grace, Record
        <4> QED
          BY <1>1, <3>2, <4>1 DEF Exchanged, Live, IsHeld
      <3> QED
        BY <1>4, <3>1, <3>2, Issues
    <2> QED
      BY <2>1
  <1>5. ASSUME NEW c \in Client, Replay(c) \/ WriteRow(c) PROVE FALSE
    BY <1>5 DEF Replay, WriteRow, IsHeld
  <1>6. ASSUME NEW c \in Client, Walk(c) PROVE FALSE
    <2>1. /\ t \in Reach(call[c].starts, call[c].keep)
          /\ u \notin Reach(call[c].starts, call[c].keep)
          /\ IsHeld(u) /\ root[u] = root[t] /\ call[c].pc = "walk"
      BY <1>2, <1>6, Losses DEF Walk
    <2> QED
      BY <2>1, WalkIsWhole
  <1>7. ASSUME NEW c \in Client, Sweep(c) PROVE FALSE
    <2>1. /\ t \in call[c].starts /\ u \notin call[c].starts
          /\ IsLive(u) /\ root[u] = f
      BY <1>2, <1>7, Losses
    <2>2. f \in Families(call[c].starts \cap Held)
      BY <2>1 DEF Families, Held, IsHeld
    <2>3. f \in Families({x \in Token \ call[c].starts : refresh[x].kind = "live"})
      BY <2>1 DEF Families, IsLive
    <2> QED
      BY <1>7, <2>2, <2>3 DEF Sweep
  <1>8. ASSUME NEW c \in Client, DeleteRows(c) PROVE FALSE
    BY <1>2, <1>8, Losses
  <1>9. ASSUME NEW x \in Token, GraceExpires(x) PROVE FALSE
    BY <1>9 DEF GraceExpires
  <1>10. ASSUME NEW x \in Token, LiveExpires(x) PROVE FALSE
    <2>1. t = x /\ u # x /\ IsLive(u) /\ IsLive(t) /\ root[u] = root[t]
      BY <1>2, <1>10, Losses DEF LiveExpires, IsLive
    <2>2. succ[t] = 0 /\ succ[u] = 0 /\ root[t] # 0 /\ (t < u \/ u < t)
      BY <2>1, BoundAssumption DEF Inv, RecordOK, IsHeld, IsLive, Token
    <2> QED
      BY <2>1, <2>2 DEF Inv, ChainOK
  <1> QED
    BY <1>3, <1>4, <1>5, <1>6, <1>7, <1>8, <1>9, <1>10, StoreMoves

LEMMA DeadStays ==
    ASSUME Inv, StepOK, NEW f, IsFamily(f), ~Alive(f)
    PROVE  ~Alive(f)' /\ IsFamily(f)'
  <1>1. f \in Token /\ root[f] = f /\ f # 0 /\ root'[f] = f
    BY BoundAssumption DEF IsFamily, Token, StepOK, TokenStep
  <1>2. ASSUME NEW t \in Token, IsLive(t)', root'[t] = f PROVE FALSE
    <2>1. CASE IsLive(t)
      BY <1>2, <2>1 DEF Inv, RecordOK, IsHeld, IsLive, StepOK, TokenStep, Alive
    <2>2. CASE ~IsLive(t)
      BY <1>1, <1>2, <2>2 DEF StepOK, LiveStep
    <2> QED
      BY <2>1, <2>2
  <1> QED
    BY <1>1, <1>2 DEF Alive, IsFamily

\* What a removal owes is still its own to end after a step that leaves its
\* locals alone, or that changes no record.
LEMMA OwedKept ==
    ASSUME Inv, StepOK, LossOK, NEW k \in Call,
           RefreshOK(k), RemovalOK(k), OwedOK(k),
           (\E d \in Client : call[d].op = k.op) \/ UNCHANGED refresh
    PROVE  OwedOK(k)'
  <1>1. /\ k.starts \in SUBSET Token /\ k.owed \in SUBSET Token
        /\ \A t \in k.starts : root[t] # 0 /\ root'[t] = root[t]
        /\ \A f \in k.owed : IsFamily(f)
        /\ cut \subseteq cut'
    BY DEF Call, RemovalOK, StepOK, TokenStep
  <1>2. ASSUME NEW t \in k.starts, NEW f \in Token, f \notin cut', Alive(f)', IsHeld(t), root[t] = f,
               k.op \in Removal
        PROVE  IsHeld(t)'
    BY <1>1, <1>2 DEF LossOK, IsHeld
  <1>3. ASSUME NEW f, IsFamily(f), f \notin cut', Alive(f)', k.op \in Removal,
               Alive(f) => \E t \in k.starts : IsHeld(t) /\ root[t] = f
        PROVE  \E t \in k.starts : IsHeld(t)' /\ root'[t] = f
    <2>1. Alive(f) /\ f \in Token
      BY <1>3, DeadStays DEF IsFamily
    <2> QED
      BY <1>1, <1>2, <1>3, <2>1
  <1>4. k.pc \in Before \cup After \cup {"walk"} => k.op \in Removal
    BY DEF RefreshOK
  <1>5. ASSUME k.pc = "collect", NEW f \in Families(k.starts)', f \notin cut', Alive(f)'
        PROVE  \E t \in k.starts : IsHeld(t)' /\ root'[t] = f
    <2>1. f \in Families(k.starts)
      BY <1>1, <1>5 DEF Families
    <2>2. IsFamily(f) /\ f \notin cut
      BY <1>1, <1>5, <2>1, FamiliesOfIssued
    <2>3. Alive(f) => \E t \in k.starts : IsHeld(t) /\ root[t] = f
      BY <1>5, <2>1, <2>2 DEF OwedOK
    <2> QED
      BY <1>3, <1>4, <1>5, <2>2, <2>3 DEF Before
  <1>6. ASSUME k.pc = "walk", NEW f \in k.owed, f \notin cut', Alive(f)'
        PROVE  \E t \in k.starts : IsHeld(t)' /\ root'[t] = f
    <2>1. IsFamily(f) /\ f \notin cut
      BY <1>1, <1>6
    <2>2. Alive(f) => \E t \in k.starts : IsHeld(t) /\ root[t] = f
      BY <1>6, <2>1 DEF OwedOK
    <2> QED
      BY <1>3, <1>4, <1>6, <2>1, <2>2
  <1>7. ASSUME k.pc \in After, NEW f \in k.owed, f \notin cut'
        PROVE  ~Alive(f)'
    BY <1>1, <1>7, DeadStays DEF OwedOK
  <1>8. ASSUME k.op \in {"all", "others"}, k.pc \in {"del", "rows"}, NEW f \in k.owed, f \notin cut',
               NEW a \in Caller', root'[access'[a]] = f
        PROVE  k.pc = "del" /\ a \in k.keys
    <2>1. ~Alive(f)' /\ f \notin cut
      BY <1>1, <1>7, <1>8 DEF After
    <2>2. a \in Access /\ access'[a] # 0 /\ access'[a] = access[a]
      BY <1>8, <2>1 DEF Caller, StepOK, KeyStep, Alive, IsLive
    <2>3. access[a] \in Token /\ root[access[a]] # 0
      <3>1. access[a] \in 0..MaxTokens
        BY <2>2 DEF Inv, TypeOK
      <3> QED
        BY <2>2, <3>1, BoundAssumption DEF Inv, KeysOK, Token
    <2>4. a \in Caller /\ root[access[a]] = f
      BY <1>8, <2>2, <2>3 DEF Caller, StepOK, TokenStep
    <2> QED
      BY <1>8, <2>1, <2>4 DEF OwedOK
  <1> QED
    BY <1>5, <1>6, <1>7, <1>8 DEF OwedOK

\* The other removals, whatever call c becomes.
LEMMA NextOwed ==
    ASSUME Inv, [Next]_vars, LossOK, \A d \in Client : OwedOK(call[d]),
           NEW c \in Client, NEW k, Become(c, k), OwedOK(k)'
    PROVE  \A d \in Client : OwedOK(call[d])'
  <1>1. call' = [call EXCEPT ![c] = k] /\ call \in [Client -> Call]
    BY DEF Become, Inv, TypeOK
  <1>2. ASSUME NEW d \in Client, d = c PROVE OwedOK(call[d])'
    <2>1. call'[d] = k
      BY <1>1, <1>2
    <2> QED
      BY <2>1 DEF OwedOK
  <1>3. ASSUME NEW d \in Client, d # c PROVE OwedOK(call[d])'
    <2>1. PICK m \in Call : m = call[d] /\ call'[d] = m /\ RefreshOK(m) /\ RemovalOK(m) /\ OwedOK(m)
      BY <1>1, <1>3 DEF Inv, CallOK
    <2>2. OwedOK(m)'
      BY <2>1, StepLemma, OwedKept
    <2> QED
      BY <2>1, <2>2 DEF OwedOK
  <1> QED
    BY <1>2, <1>3

LEMMA SameOwed ==
    ASSUME Inv, [Next]_vars, LossOK, \A d \in Client : OwedOK(call[d]), UNCHANGED call
    PROVE  \A d \in Client : OwedOK(call[d])'
  <1> SUFFICES ASSUME NEW d \in Client PROVE OwedOK(call[d])'
    OBVIOUS
  <1>1. PICK m \in Call : m = call[d] /\ call'[d] = m /\ RefreshOK(m) /\ RemovalOK(m) /\ OwedOK(m)
    BY DEF Inv, CallOK, TypeOK
  <1>2. OwedOK(m)'
    BY <1>1, StepLemma, OwedKept
  <1> QED
    BY <1>1, <1>2 DEF OwedOK

LEMMA OwesNothing ==
    ASSUME NEW k, k.pc \notin {"collect", "walk"} \cup After
    PROVE  OwedOK(k)'
  BY DEF OwedOK, After

LEMMA OwedUnmoved ==
    ASSUME UNCHANGED <<refresh, access, root, cut>>, NEW k, OwedOK(k)
    PROVE  OwedOK(k)'
  BY DEF OwedOK, Alive, Families, IsHeld, IsLive, Caller

LEMMA OwedArriving ==
    ASSUME Inv, [Next]_vars, LossOK, \A d \in Client : OwedOK(call[d]),
           NEW c \in Client, Arriving(c)
    PROVE  \A d \in Client : OwedOK(call[d])'
  <1>1. CASE RevokeAll(c)
    <2>1. PICK k : /\ Become(c, k) /\ k.pc = "walk" /\ k.op = "all" /\ k.starts = Held
                   /\ k.owed = Families(Held) /\ UNCHANGED <<refresh, access, root, cut>>
      <3>1. PICK k : k = [Idle EXCEPT !.pc = "walk", !.op = "all", !.starts = Held,
                                      !.owed = Families(Held)]
        OBVIOUS
      <3>2. k.pc = "walk" /\ k.op = "all" /\ k.starts = Held /\ k.owed = Families(Held)
        BY <3>1 DEF Idle
      <3> QED
        BY <1>1, <3>1, <3>2 DEF RevokeAll, Begin
    <2>2. OwedOK(k)
      BY <2>1 DEF OwedOK, Alive, IsLive, IsHeld, Held, After
    <2> QED
      BY <2>1, <2>2, OwedUnmoved, NextOwed
  <1>2. CASE ~RevokeAll(c)
    <2>1. PICK k : Become(c, k) /\ k.pc \notin {"collect", "walk"} \cup After
      <3>1. CASE SignIn(c)
        <4>1. PICK t \in Token : Become(c, [Idle EXCEPT !.pc = "row", !.op = "signin",
                                                        !.new = t, !.acc = minted + 1])
          BY <3>1 DEF SignIn
        <4>2. [Idle EXCEPT !.pc = "row", !.op = "signin", !.new = t, !.acc = minted + 1].pc = "row"
          BY DEF Idle
        <4> QED
          BY <4>1, <4>2 DEF After
      <3>2. CASE Present(c)
        <4>1. PICK t \in Held :
                 Become(c, [Idle EXCEPT !.pc = IF refresh[t].kind = "grace" THEN "successor" ELSE "rotate",
                                        !.op = "refresh", !.tok = t, !.rec = refresh[t]])
          BY <3>2 DEF Present
        <4>2. [Idle EXCEPT !.pc = IF refresh[t].kind = "grace" THEN "successor" ELSE "rotate",
                           !.op = "refresh", !.tok = t, !.rec = refresh[t]].pc
              \in {"successor", "rotate"}
          BY DEF Idle
        <4> QED
          BY <4>1, <4>2 DEF After
      <3>3. CASE Logout(c)
        <4>1. PICK a \in Caller : Become(c, [Idle EXCEPT !.pc = "find", !.op = "logout", !.acc = a])
          BY <3>3 DEF Logout, Begin
        <4>2. [Idle EXCEPT !.pc = "find", !.op = "logout", !.acc = a].pc = "find"
          BY DEF Idle
        <4> QED
          BY <4>1, <4>2 DEF After
      <3>4. CASE RevokeListed(c)
        <4>1. PICK r \in rows : Become(c, [Idle EXCEPT !.pc = "find", !.op = "byId", !.acc = r.access,
                                                       !.tok = r.token, !.starts = {r.token}])
          BY <3>4 DEF RevokeListed, Begin
        <4>2. [Idle EXCEPT !.pc = "find", !.op = "byId", !.acc = r.access,
                           !.tok = r.token, !.starts = {r.token}].pc = "find"
          BY DEF Idle
        <4> QED
          BY <4>1, <4>2 DEF After
      <3>5. CASE RevokeOthers(c)
        <4>1. PICK a \in Caller : Become(c, [Idle EXCEPT !.pc = "validate", !.op = "others", !.acc = a])
          BY <3>5 DEF RevokeOthers, Begin
        <4>2. [Idle EXCEPT !.pc = "validate", !.op = "others", !.acc = a].pc = "validate"
          BY DEF Idle
        <4> QED
          BY <4>1, <4>2 DEF After
      <3> QED
        BY <1>2, <3>1, <3>2, <3>3, <3>4, <3>5 DEF Arriving
    <2> QED
      BY <2>1, OwesNothing, NextOwed
  <1> QED
    BY <1>1, <1>2

LEMMA OwedRefreshing ==
    ASSUME Inv, [Next]_vars, LossOK, \A d \in Client : OwedOK(call[d]),
           NEW c \in Client, Refreshing(c) \/ Crash(c)
    PROVE  \A d \in Client : OwedOK(call[d])'
  <1>1. PICK m \in Call : m = call[c]
    BY DEF Inv, TypeOK
  <1>2. PICK k : Become(c, k) /\ k.pc \notin {"collect", "walk"} \cup After
    <2>1. Idle.pc = "idle" /\ \A a : [Idle EXCEPT !.pc = "find", !.op = "logout", !.acc = a].pc = "find"
      BY DEF Idle
    <2>2. /\ \A t, a : [m EXCEPT !.pc = "row", !.new = t, !.acc = a].pc = "row"
          /\ \A r : [m EXCEPT !.pc = "successor", !.rec = r].pc = "successor"
          /\ \A r : [m EXCEPT !.pc = "replay", !.after = r].pc = "replay"
      BY DEF Call
    <2>3. CASE Rotate(c)
      <3>1. PICK t \in Token : Become(c, [m EXCEPT !.pc = "row", !.new = t, !.acc = minted + 1])
        BY <1>1, <2>3 DEF Rotate
      <3> QED
        BY <2>2, <3>1 DEF After
    <2>4. CASE LoseRotation(c)
      BY <1>1, <2>1, <2>2, <2>4 DEF LoseRotation, After
    <2>5. CASE ReadSuccessor(c)
      BY <1>1, <2>1, <2>2, <2>5 DEF ReadSuccessor, After
    <2>6. CASE Replay(c) \/ RefuseReplay(c) \/ WriteRow(c) \/ RowFails(c) \/ Crash(c)
      BY <2>1, <2>6 DEF Replay, RefuseReplay, WriteRow, RowFails, Crash, After
    <2> QED
      BY <2>3, <2>4, <2>5, <2>6 DEF Refreshing
  <1> QED
    BY <1>2, OwesNothing, NextOwed

LEMMA OwedRemoving ==
    ASSUME Inv, [Next]_vars, LossOK, \A d \in Client : OwedOK(call[d]),
           NEW c \in Client, Removing(c)
    PROVE  \A d \in Client : OwedOK(call[d])'
  <1> USE BoundAssumption
  <1>1. PICK m \in Call : m = call[c] /\ RefreshOK(m) /\ RemovalOK(m) /\ OthersOK(m) /\ OwedOK(m)
    BY DEF Inv, TypeOK, CallOK
  <1>2. m.starts \in SUBSET Token /\ m.owed \in SUBSET Token /\ m.keep \in SUBSET Token
    BY <1>1 DEF Call
  <1>3. CASE Find(c)
    <2> DEFINE starts == m.starts \cup ({access[m.acc]} \ {0})
               owed == Families(starts \cap Held)
    <2>1. PICK k : k = [m EXCEPT !.pc = "walk", !.starts = starts, !.owed = owed]
      OBVIOUS
    <2>2. Become(c, k) /\ UNCHANGED <<refresh, access, root, cut>>
      BY <1>1, <1>3, <2>1 DEF Find, Local
    <2>3. \A f \in owed : \E t \in starts : IsHeld(t) /\ root[t] = f
      BY DEF Families, Held, IsHeld
    <2> HIDE DEF starts, owed
    <2>4. k.pc = "walk" /\ k.starts = starts /\ k.owed = owed
      BY <1>1, <2>1 DEF Call
    <2>5. OwedOK(k)
      BY <2>3, <2>4 DEF OwedOK, After
    <2> QED
      BY <2>2, <2>5, OwedUnmoved, NextOwed
  <1>4. CASE Validate(c)
    <2>1. PICK k : k = [m EXCEPT !.pc = "list", !.tok = access[m.acc]]
      OBVIOUS
    <2>2. Become(c, k) /\ k.pc = "list"
      BY <1>1, <1>4, <2>1 DEF Validate, Local, Call
    <2> QED
      BY <2>2, OwesNothing, NextOwed DEF After
  <1>5. CASE List(c)
    <2>1. PICK k : k = [m EXCEPT !.pc = "collect", !.starts = Held]
      OBVIOUS
    <2>2. Become(c, k) /\ UNCHANGED <<refresh, access, root, cut>>
      BY <1>1, <1>5, <2>1 DEF List, Local
    <2>3. k.pc = "collect" /\ k.starts = Held
      BY <1>1, <2>1 DEF Call
    <2>4. OwedOK(k)
      BY <2>3 DEF OwedOK, Alive, IsLive, IsHeld, Held, After
    <2> QED
      BY <2>2, <2>4, OwedUnmoved, NextOwed
  <1>6. CASE Collect(c)
    <2> DEFINE keep == Collected(c)
               owed == Families(m.starts \ keep) \ Families(keep)
    <2>1. PICK k : k = [m EXCEPT !.pc = "walk", !.keep = keep, !.owed = owed]
      OBVIOUS
    <2>2. Become(c, k) /\ UNCHANGED <<refresh, access, root, cut>> /\ m.pc = "collect"
      BY <1>1, <1>6, <2>1 DEF Collect, Local
    <2>3. owed \subseteq Families(m.starts)
      BY DEF Families
    <2> HIDE DEF keep, owed
    <2>4. k.pc = "walk" /\ k.starts = m.starts /\ k.owed = owed
      BY <1>1, <2>1 DEF Call
    <2>5. OwedOK(k)
      BY <1>1, <2>2, <2>3, <2>4 DEF OwedOK, After
    <2> QED
      BY <2>2, <2>5, OwedUnmoved, NextOwed
  <1>7. CASE Walk(c)
    <2> DEFINE walked == Reach(m.starts, m.keep)
               then == CASE m.op = "all" -> "leftover"
                         [] m.op = "others" -> "recollect"
                         [] OTHER -> "scan"
    <2>1. PICK k : k = [m EXCEPT !.pc = then, !.starts = walked]
      OBVIOUS
    <2>2. /\ Become(c, k) /\ m.pc = "walk" /\ UNCHANGED <<root, cut>>
          /\ refresh' = [t \in Token |-> IF t \in walked THEN NoRecord ELSE refresh[t]]
      BY <1>1, <1>7, <2>1 DEF Walk
    <2>3. then \in {"leftover", "recollect", "scan"}
      OBVIOUS
    <2>4. ASSUME NEW f \in m.owed, f \notin cut, NEW u \in Token, IsLive(u)', root'[u] = f
          PROVE  FALSE
      <3>1. u \notin walked /\ IsLive(u) /\ IsHeld(u) /\ root[u] = f
        BY <2>2, <2>4 DEF IsLive, IsHeld, NoRecord
      <3>2. PICK t \in m.starts : IsHeld(t) /\ root[t] = f
        BY <1>1, <2>2, <2>4, <3>1 DEF OwedOK, Alive
      <3>3. t \notin m.keep
        BY <1>1, <2>4, <3>2 DEF RemovalOK
      <3>4. t \in walked
        BY <1>2, <3>2, <3>3, ReachStarts
      <3>5. u \in walked
        BY <1>1, <2>2, <3>1, <3>2, <3>4, WalkIsWhole
      <3> QED
        BY <3>1, <3>5
    <2> HIDE DEF walked, then
    <2>5. k.pc = then /\ k.owed = m.owed
      BY <1>1, <2>1 DEF Call
    <2>6. OwedOK(k)'
      BY <2>2, <2>3, <2>4, <2>5 DEF OwedOK, Alive, After
    <2> QED
      BY <2>2, <2>6, NextOwed
  <1>8. CASE Leftover(c)
    <2>1. PICK k : k = [m EXCEPT !.pc = "sweep", !.starts = Held]
      OBVIOUS
    <2>2. Become(c, k) /\ UNCHANGED <<refresh, access, root, cut>> /\ m.pc = "leftover"
      BY <1>1, <1>8, <2>1 DEF Leftover, Local
    <2>3. k.pc = "sweep" /\ k.owed = m.owed
      BY <1>1, <2>1 DEF Call
    <2>4. OwedOK(k)
      BY <1>1, <2>2, <2>3 DEF OwedOK, After
    <2> QED
      BY <2>2, <2>4, OwedUnmoved, NextOwed
  <1>9. CASE Sweep(c)
    <2>1. PICK k : k = [m EXCEPT !.pc = "scan"]
      OBVIOUS
    <2>2. Become(c, k) /\ m.pc = "sweep"
      BY <1>1, <1>9, <2>1 DEF Sweep
    <2>3. k.pc = "scan" /\ k.owed = m.owed
      BY <1>1, <2>1 DEF Call
    <2>4. \A f \in m.owed \ cut' : ~Alive(f)'
      <3>1. StepOK /\ \A f \in m.owed : IsFamily(f)
        BY <1>1, StepLemma DEF RemovalOK
      <3>2. \A f \in m.owed \ cut : ~Alive(f)
        BY <1>1, <2>2 DEF OwedOK, After
      <3> QED
        BY <3>1, <3>2, DeadStays DEF StepOK
    <2>5. OwedOK(k)'
      BY <2>3, <2>4 DEF OwedOK, After
    <2> QED
      BY <2>2, <2>5, NextOwed
  <1>10. CASE Recollect(c)
    <2> DEFINE keep == m.keep \cup Collected(c)
    <2>1. PICK k : k = [m EXCEPT !.pc = "scan", !.keep = keep]
      OBVIOUS
    <2>2. Become(c, k) /\ UNCHANGED <<refresh, access, root, cut>> /\ m.pc = "recollect"
      BY <1>1, <1>10, <2>1 DEF Recollect, Local
    <2> HIDE DEF keep
    <2>3. k.pc = "scan" /\ k.owed = m.owed
      BY <1>1, <2>1 DEF Call
    <2>4. OwedOK(k)
      BY <1>1, <2>2, <2>3 DEF OwedOK, After
    <2> QED
      BY <2>2, <2>4, OwedUnmoved, NextOwed
  <1>11. CASE Scan(c)
    <2> DEFINE keys == Doomed(c)
    <2>1. PICK k : k = [m EXCEPT !.pc = "del", !.keys = keys]
      OBVIOUS
    <2>2. Become(c, k) /\ UNCHANGED <<refresh, access, root, cut>> /\ m.pc = "scan"
      BY <1>1, <1>11, <2>1 DEF Scan, Local
    <2>3. ASSUME m.op \in {"all", "others"}, NEW f \in m.owed, NEW a \in Caller, root[access[a]] = f
          PROVE  a \in keys
      <3>1. CASE m.op = "all"
        BY <1>1, <3>1 DEF Doomed
      <3>2. CASE m.op = "others"
        <4>1. access[a] \notin m.keep
          BY <1>1, <2>3 DEF RemovalOK
        <4>2. a # m.acc
          <5> SUFFICES ASSUME a = m.acc PROVE FALSE
            OBVIOUS
          <5>1. access[a] = m.tok /\ m.tok # 0
            BY <1>1, <2>2, <3>2 DEF OthersOK, Caller
          <5> QED
            BY <1>1, <2>2, <3>2, <4>1, <5>1 DEF OthersOK, After
        <4> QED
          BY <1>1, <3>2, <4>1, <4>2 DEF Doomed
      <3> QED
        BY <2>3, <3>1, <3>2
    <2> HIDE DEF keys
    <2>4. k.pc = "del" /\ k.owed = m.owed /\ k.keys = keys /\ k.op = m.op
      BY <1>1, <2>1 DEF Call
    <2>5. OwedOK(k)
      BY <1>1, <2>2, <2>3, <2>4 DEF OwedOK, After
    <2> QED
      BY <2>2, <2>5, OwedUnmoved, NextOwed
  <1>12. CASE Del(c)
    <2>1. PICK k : k = [m EXCEPT !.pc = "rows"]
      OBVIOUS
    <2>2. /\ Become(c, k) /\ UNCHANGED <<refresh, root, cut>> /\ m.pc = "del"
          /\ access' = [a \in Access |-> IF a \in m.keys THEN 0 ELSE access[a]]
      BY <1>1, <1>12, <2>1 DEF Del
    <2>3. k.pc = "rows" /\ k.owed = m.owed /\ k.op = m.op
      BY <1>1, <2>1 DEF Call
    <2>4. \A f \in m.owed \ cut : ~Alive(f)'
      BY <1>1, <2>2 DEF OwedOK, After, Alive, IsLive
    <2>5. ASSUME m.op \in {"all", "others"}, NEW f \in m.owed \ cut, NEW a \in Caller',
                 root'[access'[a]] = f
          PROVE  FALSE
      <3>1. a \in Caller /\ access'[a] = access[a] /\ a \notin m.keys
        BY <2>2 DEF Caller
      <3> QED
        BY <1>1, <2>2, <2>5, <3>1 DEF OwedOK
    <2>6. OwedOK(k)'
      BY <2>2, <2>3, <2>4, <2>5 DEF OwedOK, After
    <2> QED
      BY <2>2, <2>6, NextOwed
  <1>13. CASE DeleteRows(c)
    <2>1. Become(c, Idle) /\ Idle.pc = "idle"
      BY <1>13 DEF DeleteRows, Idle
    <2>2. OwedOK(Idle)'
      BY <2>1, OwesNothing DEF After
    <2> QED
      BY <2>1, <2>2, NextOwed
  <1> QED
    BY <1>3, <1>4, <1>5, <1>6, <1>7, <1>8, <1>9, <1>10, <1>11, <1>12, <1>13 DEF Removing

LEMMA RevokedStep ==
    ASSUME PromptRemovals, Inv, RevokeInv, [Next]_vars
    PROVE  RevokeInv'
  <1>1. LossOK /\ StepOK /\ RevokedOK /\ \A d \in Client : OwedOK(call[d])
    BY LossLemma, StepLemma DEF RevokeInv
  <1>2. \A d \in Client : OwedOK(call[d])'
    <2>1. CASE UNCHANGED call
      BY <1>1, <2>1, SameOwed
    <2>2. ASSUME NEW c \in Client, Arriving(c) \/ Refreshing(c) \/ Removing(c) \/ Crash(c)
          PROVE  \A d \in Client : OwedOK(call[d])'
      BY <1>1, <2>2, OwedArriving, OwedRefreshing, OwedRemoving
    <2> QED
      BY <2>1, <2>2 DEF Next, vars, GraceExpires, LiveExpires, AccessExpires
  <1>3. ASSUME NEW F, NEW A, A \subseteq F, \A f \in F : IsFamily(f), \A f \in F \ cut : ~Alive(f),
               \A f \in A \ cut, a \in Caller : root[access[a]] # f
        PROVE  /\ \A f \in F : IsFamily(f)'
               /\ \A f \in F \ cut' : ~Alive(f)'
               /\ \A f \in A \ cut', a \in Caller' : root'[access'[a]] # f
    <2>1. \A f \in F : IsFamily(f)'
      BY <1>1, <1>3, BoundAssumption DEF IsFamily, StepOK, TokenStep, Token
    <2>2. \A f \in F \ cut' : ~Alive(f)'
      BY <1>1, <1>3, DeadStays DEF StepOK
    <2>3. ASSUME NEW f \in A \ cut', NEW a \in Caller', root'[access'[a]] = f PROVE FALSE
      <3>1. a \in Access /\ access'[a] # 0 /\ access'[a] = access[a]
        BY <1>1, <1>3, <2>2, <2>3 DEF Caller, StepOK, KeyStep, Alive, IsLive
      <3>2. access[a] \in 0..MaxTokens
        BY <3>1 DEF Inv, TypeOK
      <3>3. access[a] \in Token /\ root[access[a]] # 0
        BY <3>1, <3>2, BoundAssumption DEF Inv, KeysOK, Token
      <3>4. a \in Caller /\ root[access[a]] = f /\ f \notin cut
        BY <1>1, <2>3, <3>1, <3>3 DEF Caller, StepOK, TokenStep
      <3> QED
        BY <1>3, <2>3, <3>4
    <2> QED
      BY <2>1, <2>2, <2>3
  <1>4. ASSUME UNCHANGED revoked PROVE RevokedOK'
    <2> DEFINE F == revoked.refresh
               A == revoked.access
    <2>1. /\ A \subseteq F /\ \A f \in F : IsFamily(f)
          /\ \A f \in F \ cut : ~Alive(f)
          /\ \A f \in A \ cut, a \in Caller : root[access[a]] # f
      BY <1>1 DEF RevokedOK
    <2>2. PICK G, B : G = F /\ B = A
      OBVIOUS
    <2>3. /\ \A f \in G : IsFamily(f)'
          /\ \A f \in G \ cut' : ~Alive(f)'
          /\ \A f \in B \ cut', a \in Caller' : root'[access'[a]] # f
      BY <1>3, <2>1, <2>2
    <2> QED
      BY <1>4, <2>1, <2>2, <2>3 DEF RevokedOK
  <1>5. ASSUME NEW c \in Client, DeleteRows(c) PROVE RevokedOK'
    <2> DEFINE F == revoked.refresh \cup call[c].owed
               A == revoked.access \cup
                       IF call[c].op \in {"all", "others"} THEN call[c].owed ELSE {}
    <2>1. revoked'.refresh = F /\ revoked'.access = A /\ call[c].pc = "rows"
      BY <1>5 DEF DeleteRows
    <2>2. A \subseteq F /\ \A f \in F : IsFamily(f)
      BY <1>1 DEF RevokedOK, Inv, CallOK, RemovalOK
    <2>3. \A f \in F \ cut : ~Alive(f)
      BY <1>1, <2>1 DEF RevokedOK, OwedOK, After
    <2>4. \A f \in A \ cut, a \in Caller : root[access[a]] # f
      BY <1>1, <2>1 DEF RevokedOK, OwedOK
    <2>5. PICK G, B : G = F /\ B = A
      OBVIOUS
    <2>6. /\ \A f \in G : IsFamily(f)'
          /\ \A f \in G \ cut' : ~Alive(f)'
          /\ \A f \in B \ cut', a \in Caller' : root'[access'[a]] # f
      BY <1>3, <2>2, <2>3, <2>4, <2>5
    <2>7. revoked'.refresh = G /\ revoked'.access = B /\ B \subseteq G
      BY <2>1, <2>2, <2>5
    <2> HIDE DEF F, A
    <2> QED
      BY <2>6, <2>7 DEF RevokedOK
  <1>6. RevokedOK'
    <2>1. UNCHANGED revoked \/ \E c \in Client : DeleteRows(c)
      BY DEF Next, vars, Arriving, SignIn, Present, Logout, RevokeListed, RevokeAll, RevokeOthers,
         Begin, Refreshing, Rotate, LoseRotation, ReadSuccessor, Replay, RefuseReplay, WriteRow,
         RowFails, Removing, Find, Validate, List, Collect, Walk, Leftover, Sweep, Recollect, Scan,
         Local, Del, Crash, GraceExpires, LiveExpires, AccessExpires
    <2> QED
      BY <1>4, <1>5, <2>1
  <1> QED
    BY <1>2, <1>6 DEF RevokeInv

\* While no grace record expires under a removal, a family whose end a finished
\* removal owed has no live token and, after the removal of all or of the others,
\* no access key, unless a sweep had cut it in two.
THEOREM RevokedSound ==
    ASSUME PromptRemovals
    PROVE  Spec => []RevokedStaysRevoked
  <1>1. Init => RevokeInv
    BY IdleOK DEF Init, RevokeInv, RevokedOK, OwedOK, Idle, After
  <1>2. Inv /\ RevokeInv /\ [Next]_vars => RevokeInv'
    BY RevokedStep
  <1>3. Inv /\ RevokeInv => RevokedStaysRevoked
    <2> SUFFICES ASSUME Inv, RevokeInv PROVE RevokedStaysRevoked
      OBVIOUS
    <2>1. RevokedOK
      BY DEF RevokeInv
    <2> QED
      BY <2>1 DEF RevokedOK, RevokedStaysRevoked, Alive, IsLive
  <1> QED
    BY <1>1, <1>2, <1>3, Invariance, PTL DEF Spec

-----------------------------------------------------------------------------
(* Every step is one of SessionFamilies, or none of them.                  *)

\* A family's current token is its live one.
CurrentOK ==
    \A f \in Token :
        /\ \A t \in Token : IsLive(t) /\ root[t] = f => Current(f) = t
        /\ Current(f) # 0 => /\ Current(f) \in Token /\ IsLive(Current(f))
                             /\ root[Current(f)] = f

LEMMA CurrentIs ==
    FamiliesOK => CurrentOK
  <1> SUFFICES ASSUME FamiliesOK, NEW f \in Token
               PROVE  /\ \A t \in Token : IsLive(t) /\ root[t] = f => Current(f) = t
                      /\ Current(f) # 0 => /\ Current(f) \in Token /\ IsLive(Current(f))
                                           /\ root[Current(f)] = f
    BY DEF CurrentOK
  <1> DEFINE live == {t \in Token : refresh[t].kind = "live" /\ root[t] = f}
  <1>1. Current(f) = IF live = {} THEN 0 ELSE CHOOSE t \in live : TRUE
    BY DEF Current
  <1>2. live # {} => Current(f) \in live
    BY <1>1
  <1>3. \A t, u \in live : t = u
    BY DEF FamiliesOK, OneLivePerFamily
  <1> QED
    BY <1>1, <1>2, <1>3 DEF IsLive

LEMMA CurrentStays ==
    ASSUME CurrentOK, CurrentOK', NEW f \in Token,
           \A u \in Token : IsLive(u)' /\ root'[u] = f <=> IsLive(u) /\ root[u] = f
    PROVE  Current(f)' = Current(f)
  <1>1. CASE Current(f) # 0
    BY <1>1 DEF CurrentOK
  <1>2. CASE Current(f) = 0
    <2>1. \A u \in Token : ~ (IsLive(u) /\ root[u] = f)
      BY <1>2, BoundAssumption DEF CurrentOK, Token
    <2> QED
      BY <1>2, <2>1 DEF CurrentOK, IsLive
  <1> QED
    BY <1>1, <1>2

\* The families in the words of the promise.
current == [f \in Token |-> Current(f)]
used == {t \in Token : root[t] # 0}

LEMMA PromiseOfSignIn ==
    ASSUME Inv, CurrentOK, CurrentOK', NEW t \in Token, Founded(t)
    PROVE  Promise!SignIn(t)
  <1>1. /\ refresh \in [Token -> Record] /\ root \in [Token -> 0..MaxTokens] /\ ChainOK
        /\ t # 0
    BY BoundAssumption DEF Inv, TypeOK, Token
  <1>2. /\ root[t] = 0 /\ root'[t] = t /\ refresh'[t].kind = "live"
        /\ \A u \in Token : u # t => root'[u] = root[u] /\ refresh'[u] = refresh[u]
        /\ UNCHANGED <<succ, given>>
    BY <1>1 DEF Founded, Fresh, Live
  <1>3. \A u \in Token : root[u] # 0 => root[root[u]] = root[u]
    BY DEF Inv, ChainOK
  <1>4. Current(t)' = t
    BY <1>2 DEF CurrentOK, IsLive
  <1>5. ASSUME NEW f \in Token, f # t PROVE Current(f)' = Current(f)
    <2>1. f # 0
      BY BoundAssumption DEF Token
    <2>2. \A u \in Token : IsLive(u)' /\ root'[u] = f <=> IsLive(u) /\ root[u] = f
      BY <1>2, <1>5, <2>1 DEF IsLive
    <2> QED
      BY <2>2, CurrentStays
  <1>6. current' = [current EXCEPT ![t] = t]
    BY <1>4, <1>5 DEF current
  <1>7. t \notin used /\ used' = used \cup {t}
    BY <1>1, <1>2 DEF used
  <1> QED
    BY <1>2, <1>6, <1>7 DEF Promise!SignIn, current, used

LEMMA PromiseOfRotate ==
    ASSUME Inv, CurrentOK, CurrentOK', NEW k \in Token, NEW t \in Token, Exchanged(k, t)
    PROVE  root[k] \in Token /\ Promise!Exchange(root[k], t)
  <1>0. PICK f : f = root[k]
    OBVIOUS
  <1>1. /\ refresh \in [Token -> Record] /\ root \in [Token -> 0..MaxTokens]
        /\ succ \in [Token -> 0..MaxTokens] /\ t # 0 /\ k # 0 /\ f \in Token /\ root[f] = f
    <2>1. /\ refresh \in [Token -> Record] /\ root \in [Token -> 0..MaxTokens]
          /\ succ \in [Token -> 0..MaxTokens] /\ Token = (0..MaxTokens) \ {0}
      BY BoundAssumption DEF Inv, TypeOK, Token
    <2> QED
      BY <1>0, <2>1 DEF Exchanged, Inv, ChainOK
  <1>2. /\ root[t] = 0 /\ root'[t] = f /\ refresh'[t].kind = "live" /\ k # t
        /\ \A u \in Token : /\ u # t => root'[u] = root[u]
                            /\ u # t /\ u # k => refresh'[u] = refresh[u]
        /\ IsLive(k) /\ succ[k] = 0 /\ succ' = [succ EXCEPT ![k] = t] /\ UNCHANGED given
    BY <1>0, <1>1 DEF Exchanged, Fresh, Live
  <1>3. refresh'[k].kind = "grace"
    <2>1. Grace(refresh[k], t).kind = "grace"
      BY <1>1 DEF Grace, Record
    <2> QED
      BY <1>1, <1>2, <2>1 DEF Exchanged
  <1>4. Current(f) = k /\ Current(f)' = t
    BY <1>0, <1>1, <1>2 DEF CurrentOK, IsLive
  <1>5. ASSUME NEW g \in Token, g # f PROVE Current(g)' = Current(g)
    <2>1. g # 0
      BY BoundAssumption DEF Token
    <2>2. \A u \in Token : IsLive(u)' /\ root'[u] = g <=> IsLive(u) /\ root[u] = g
      BY <1>0, <1>2, <1>3, <1>5, <2>1 DEF IsLive
    <2> QED
      BY <2>2, CurrentStays
  <1>6. current[f] = k /\ current' = [current EXCEPT ![f] = t]
    BY <1>1, <1>4, <1>5 DEF current
  <1>7. t \notin used /\ used' = used \cup {t}
    BY <1>0, <1>1, <1>2 DEF used, Exchanged
  <1>8. Promise!Exchange(f, t)
    BY <1>1, <1>2, <1>6, <1>7 DEF Promise!Exchange, current, used
  <1> QED
    BY <1>0, <1>1, <1>8

LEMMA PromiseOfLoss ==
    ASSUME Inv, CurrentOK, CurrentOK', NEW S, Lose(S), UNCHANGED given
    PROVE  \E F \in SUBSET Token : Promise!End(F)
  <1> DEFINE F == {f \in Token : Current(f) \in S}
  <1>1. /\ \A t \in Token : refresh'[t] = IF t \in S THEN NoRecord ELSE refresh[t]
        /\ UNCHANGED <<root, succ>>
    BY DEF Lose
  <1>2. ASSUME NEW f \in Token PROVE Current(f)' = IF f \in F THEN 0 ELSE Current(f)
    <2>1. \A u \in Token : IsLive(u)' /\ root'[u] = f <=> IsLive(u) /\ root[u] = f /\ u \notin S
      BY <1>1 DEF IsLive, NoRecord
    <2>2. CASE f \in F
      <3>1. \A u \in Token : ~ (IsLive(u)' /\ root'[u] = f)
        BY <2>1, <2>2 DEF CurrentOK
      <3> QED
        BY <2>2, <3>1 DEF CurrentOK, IsLive
    <2>3. CASE f \notin F
      <3>1. \A u \in Token : IsLive(u)' /\ root'[u] = f <=> IsLive(u) /\ root[u] = f
        BY <2>1, <2>3 DEF CurrentOK
      <3> QED
        BY <2>3, <3>1, CurrentStays
    <2> QED
      BY <2>2, <2>3
  <1>3. current' = [f \in Token |-> IF f \in F THEN 0 ELSE current[f]]
    BY <1>2 DEF current
  <1>4. used' = used
    BY <1>1 DEF used
  <1>5. Promise!End(F)
    BY <1>1, <1>3, <1>4 DEF Promise!End, current, used
  <1> QED
    BY <1>5

\* A presenter is answered with the successor of what it presented.
LEMMA PromiseOfAnswer ==
    ASSUME Inv, NEW c \in Client, Replay(c) \/ WriteRow(c)
    PROVE  \/ \E t \in Token : Promise!Answer(t)
           \/ UNCHANGED <<refresh, root, succ, given>>
  <1>1. RefreshOK(call[c]) /\ call[c].tok \in 0..MaxTokens /\ UNCHANGED <<refresh, root, succ>>
    BY DEF Inv, CallOK, TypeOK, Call, Replay, WriteRow
  <1>2. CASE UNCHANGED given
    BY <1>1, <1>2
  <1>3. CASE ~UNCHANGED given
    <2>1. /\ call[c].op = "refresh"
          /\ \E n : n # 0 /\ n = succ[call[c].tok] /\ given' = [given EXCEPT ![call[c].tok] = @ \cup {n}]
      <3>1. CASE Replay(c)
        BY <1>1, <3>1 DEF Replay, Tell, RefreshOK, Presenting
      <3>2. CASE WriteRow(c)
        BY <1>1, <1>3, <3>2 DEF WriteRow, Tell, RefreshOK
      <3> QED
        BY <3>1, <3>2
    <2>2. call[c].tok \in Token
      BY <1>1, <2>1, BoundAssumption DEF RefreshOK, Token
    <2>3. UNCHANGED <<current, used>>
      BY <1>1 DEF current, used, Current
    <2>4. Promise!Answer(call[c].tok)
      BY <1>1, <2>1, <2>3 DEF Promise!Answer, current, used
    <2> QED
      BY <2>2, <2>4
  <1> QED
    BY <1>2, <1>3

\* The sessions implement SessionFamilies: a token is exchanged at most once, all
\* who present it are answered with its one successor, and a family that ended
\* never comes back.
THEOREM SessionsKeepThePromise ==
    Spec => KeepsThePromise
  <1>1. Init => Promise!Init
    <2> SUFFICES ASSUME Init PROVE Promise!Init
      OBVIOUS
    <2>1. \A f \in Token : Current(f) = 0
      BY DEF Init, Current, NoRecord
    <2> QED
      BY <2>1 DEF Init, Promise!Init
  <1>2. Inv /\ CurrentOK /\ CurrentOK' /\ [Next]_vars => [Promise!Next]_(Promise!vars)
    <2> SUFFICES ASSUME Inv, CurrentOK, CurrentOK', [Next]_vars
                 PROVE  Promise!Next \/ UNCHANGED Promise!vars
      OBVIOUS
    <2>1. CASE UNCHANGED <<refresh, root, succ, given>>
      BY <2>1 DEF Promise!vars, Current
    <2>2. ASSUME NEW c \in Client, SignIn(c) \/ Rotate(c) PROVE Promise!Next
      <3>1. CASE SignIn(c)
        BY <3>1, Issues, PromiseOfSignIn DEF Promise!Next
      <3>2. CASE Rotate(c)
        BY <3>2, Issues, PromiseOfRotate DEF Promise!Next
      <3> QED
        BY <2>2, <3>1, <3>2
    <2>3. ASSUME NEW c \in Client, Replay(c) \/ WriteRow(c)
          PROVE  Promise!Next \/ UNCHANGED <<refresh, root, succ, given>>
      BY <2>3, PromiseOfAnswer DEF Promise!Next
    <2>4. ASSUME NEW c \in Client, Walk(c) \/ Sweep(c) \/ DeleteRows(c) PROVE Promise!Next
      <3>1. \E S : Lose(S) /\ UNCHANGED given
        BY <2>4, Losses DEF Walk, Sweep, DeleteRows
      <3> QED
        BY <3>1, PromiseOfLoss DEF Promise!Next
    <2>5. ASSUME NEW t \in Token, GraceExpires(t) \/ LiveExpires(t) PROVE Promise!Next
      <3>1. \E S : Lose(S) /\ UNCHANGED given
        BY <2>5, Losses DEF GraceExpires, LiveExpires
      <3> QED
        BY <3>1, PromiseOfLoss DEF Promise!Next
    <2> QED
      BY <2>1, <2>2, <2>3, <2>4, <2>5, StoreMoves
  <1> QED
    BY <1>1, <1>2, FamiliesInv, CurrentIs, Invariance, PTL DEF Spec, KeepsThePromise, Promise!Spec
=============================================================================
