-------------------------- MODULE Campaign_proofs --------------------------
(***************************************************************************)
(* For every number of workers, all lists and any number of crashes: the   *)
(* lock file excludes, and no experiment is run twice.                     *)
(***************************************************************************)
EXTENDS Campaign, FiniteSetTheorems, TLAPS

Critical == {"read", "truncate", "move", "unlock"}
Taking == {"truncate", "move"}
Taken == {"unlock", "simulate", "store"}

(* Only the holder of the lock file is between lockfile and rm -f.  A      *)
(* crash leaves the file, a restarted worker is not its holder again.      *)
Mutex == \A w \in Workers : pc[w] \in Critical => lock = w

(* l is what is left of file f. *)
Rest(l, f) == /\ Len(l) \in 0..Len(Lists[f])
              /\ l \in Seq(Experiments)
              /\ \A i \in 1..Len(l) : l[i] = Lists[f][i]

(* The experiments no worker holds and no result has. *)
Free == {e \in Experiments : Holding(e) = {} /\ stored[e] = 0}

Places ==
    /\ DOMAIN list = Files
    /\ pc \in [Workers -> {"checkpoint", "test", "lock", "read", "truncate", "move",
                           "unlock", "simulate", "store", "done", "dead"}]
    /\ file \in [Workers -> Files]
    /\ exp \in [Workers -> Experiments \cup {Empty}]
    /\ temp \in [Workers -> Seq(Experiments)]
    /\ stored \in [Experiments \cup {Empty} -> Nat]

(* The lists shrink from their ends; what is listed nobody holds and no    *)
(* result has; what a worker is about to take is the line after those it   *)
(* leaves.                                                                 *)
Lines ==
    /\ \A f \in Files : Rest(list[f], f)
    /\ \A f \in Files : \A i \in 1..Len(list[f]) : list[f][i] \in Free
    /\ \A w \in Workers : pc[w] \in Taking =>
        /\ Rest(temp[w], file[w])
        /\ \A i \in 1..Len(temp[w]) : temp[w][i] \in Free
        /\ exp[w] \in Experiments =>
            /\ exp[w] \in Free
            /\ Len(temp[w]) < Len(Lists[file[w]])
            /\ exp[w] = Lists[file[w]][Len(temp[w]) + 1]

Once == \A e \in Experiments :
            /\ \A v, w \in Holding(e) : v = w
            /\ Holding(e) # {} => stored[e] = 0
            /\ stored[e] \in 0..1

TakeInv == Places /\ Mutex /\ Lines /\ Once

(* Arithmetic of the counts below. *)
LEMMA IndexNat ==
    ASSUME NEW n, NEW i \in 0..n
    PROVE  i \in Nat
OBVIOUS

LEMMA NotEmptyAt ==
    ASSUME NEW l, NEW i \in 1..Len(l)
    PROVE  l # <<>>
OBVIOUS

LEMMA Successor ==
    ASSUME NEW n \in Nat
    PROVE  n + 1 \in Nat /\ n <= n
OBVIOUS

LEMMA OneFewer ==
    ASSUME NEW a \in Nat, NEW b \in Nat, NEW c \in Nat, NEW f \in Nat,
           b <= a - 1, f + a <= c
    PROVE  (f + 1) + b <= c
OBVIOUS

LEMMA OneMoreLost ==
    ASSUME NEW a \in Nat, NEW b \in Nat, NEW c \in Nat, NEW d, d = a \/ d = a + 1,
           b <= d, a <= c
    PROVE  b <= c + 1
OBVIOUS

LEMMA FewerChances ==
    ASSUME NEW a \in Nat, NEW c \in Nat, NEW d \in Nat, NEW o \in Nat, NEW n \in Nat,
           a + c + o <= n, d <= c
    PROVE  a + d + o <= n
OBVIOUS

LEMMA BackAtMost ==
    ASSUME NEW a \in Nat, NEW c \in Nat, NEW d \in Nat, NEW e \in Nat, NEW l \in Nat,
           NEW n \in Nat, d <= c + e, a + c <= n
    PROVE  a + d + (l - e) <= n + l
OBVIOUS

LEMMA DropLast ==
    ASSUME NEW a, NEW b, NEW c \in Nat, NEW n \in Nat, a + b + c <= n, a \in Nat, b \in Nat
    PROVE  a + b <= n
OBVIOUS

LEMMA BeforeLast ==
    ASSUME NEW m \in Nat, NEW n, n = m + 1, NEW i \in 1..n, i # n
    PROVE  i \in 1..m
OBVIOUS

LEMMA AtMostSum ==
    ASSUME NEW d \in Nat, NEW u \in Nat, NEW c \in Nat, NEW e \in Nat, d <= u, u <= c + e
    PROVE  d <= c + e
OBVIOUS

LEMMA ListFacts ==
    /\ 1 \in Files /\ Len(Lists) \in Nat
    /\ \A f \in Files : Lists[f] \in Seq(Experiments)
    /\ \A f, g \in Files : \A i \in 1..Len(Lists[f]), j \in 1..Len(Lists[g]) :
        Lists[f][i] = Lists[g][j] => f = g /\ i = j
<1>1. Lists \in Seq(Seq(Experiments)) /\ Lists # <<>>
  BY CampaignAssumption
<1>2. 1 \in Files /\ Len(Lists) \in Nat /\ \A f \in Files : Lists[f] \in Seq(Experiments)
  BY <1>1 DEF Files
<1> QED BY <1>2, CampaignAssumption

(* What changes neither the lists nor the results, and adds no worker to   *)
(* those that take or have taken a line, keeps the invariant.              *)
LEMMA QuietStep ==
    ASSUME TakeInv, Places', Mutex',
           UNCHANGED <<list, stored, temp, exp>>,
           \A w \in Workers : pc'[w] \in Taken => pc[w] \in Taken,
           \A w \in Workers : pc'[w] \in Taking => pc[w] \in Taking /\ file'[w] = file[w]
    PROVE  TakeInv'
<1>1. \A e \in Experiments : Holding(e)' \subseteq Holding(e)
  BY DEF Holding, Taken
<1>2. Free \subseteq Free'
  BY <1>1 DEF Free
<1>3. Once'
  BY <1>1 DEF TakeInv, Once
<1>4. Lines'
  BY <1>2 DEF TakeInv, Lines
<1> QED BY <1>3, <1>4 DEF TakeInv

(* The worker that takes a line is alone with the lists. *)
LEMMA Alone ==
    ASSUME Mutex, NEW w \in Workers, pc[w] \in Critical,
           NEW v \in Workers, v # w
    PROVE  pc[v] \notin Critical
BY DEF Mutex

LEMMA ReadKeeps ==
    ASSUME TakeInv, NEW w \in Workers, Read(w)
    PROVE  TakeInv'
<1> DEFINE f == file[w]
           l == list[f]
<1>1. /\ pc[w] = "read"
      /\ pc' = [pc EXCEPT ![w] = IF setup.cross THEN "truncate" ELSE "move"]
      /\ UNCHANGED <<list, lock, file, stored>>
      /\ exp' = [exp EXCEPT ![w] = IF l = <<>> THEN Empty ELSE l[Len(l)]]
      /\ temp' = [temp EXCEPT ![w] = IF l = <<>> THEN <<>> ELSE SubSeq(l, 1, Len(l) - 1)]
  BY DEF Read, Goto, results
<1>2. f \in Files /\ Rest(l, f) /\ l \in Seq(Experiments)
  BY DEF TakeInv, Places, Lines, Rest
<1>3. /\ temp'[w] \in Seq(Experiments)
      /\ l = <<>> => temp'[w] = <<>> /\ exp'[w] = Empty
      /\ l # <<>> => /\ Len(temp'[w]) = Len(l) - 1 /\ Len(l) >= 1
                     /\ \A i \in 1..(Len(l) - 1) : temp'[w][i] = l[i]
                     /\ exp'[w] = l[Len(l)] /\ exp'[w] \in Experiments
  <2>1. CASE l = <<>>
    BY <1>1, <2>1 DEF TakeInv, Places
  <2>2. CASE l # <<>>
    <3>1. Len(l) \in Nat /\ Len(l) >= 1
      BY <1>2, <2>2
    <3>2. SubSeq(l, 1, Len(l) - 1) \in Seq(Experiments) /\ l[Len(l)] \in Experiments
      BY <1>2, <3>1
    <3>3. Len(SubSeq(l, 1, Len(l) - 1)) = Len(l) - 1
      BY <1>2, <3>1
    <3>4. \A i \in 1..(Len(l) - 1) : SubSeq(l, 1, Len(l) - 1)[i] = l[i]
      BY <1>2, <3>1
    <3> QED BY <1>1, <2>2, <3>1, <3>2, <3>3, <3>4 DEF TakeInv, Places
  <2> QED BY <2>1, <2>2
<1>4. Places'
  <2>1. pc'[w] \in Taking /\ \A v \in Workers : v # w => pc'[v] = pc[v]
    BY <1>1 DEF Taking, TakeInv, Places
  <2>2. exp' \in [Workers -> Experiments \cup {Empty}]
    BY <1>1, <1>3 DEF TakeInv, Places
  <2>3. temp' \in [Workers -> Seq(Experiments)]
    BY <1>1, <1>3 DEF TakeInv, Places
  <2> QED BY <1>1, <2>2, <2>3 DEF TakeInv, Places
<1>5. Mutex'
  BY <1>1 DEF TakeInv, Places, Mutex, Critical
<1>6. \A e \in Experiments : Holding(e)' = Holding(e)
  BY <1>1 DEF Holding, TakeInv, Places
<1>7. Free' = Free /\ Once'
  BY <1>1, <1>6 DEF Free, TakeInv, Once
<1>8. \A v \in Workers : pc'[v] \in Taking => v = w
  BY <1>1, Alone DEF TakeInv, Places, Taking, Critical
<1>9. /\ Rest(temp'[w], f)
      /\ \A i \in 1..Len(temp'[w]) : temp'[w][i] \in Free
      /\ exp'[w] \in Experiments =>
          /\ exp'[w] \in Free
          /\ Len(temp'[w]) < Len(Lists[f])
          /\ exp'[w] = Lists[f][Len(temp'[w]) + 1]
  <2>1. CASE l = <<>>
    BY <1>2, <1>3, <2>1, CampaignAssumption DEF Rest
  <2>2. CASE l # <<>>
    <3>1. Len(l) \in 1..Len(Lists[f]) /\ Len(Lists[f]) \in Nat
      BY <1>2, <1>3, <2>2, ListFacts DEF Rest
    <3>2. \A i \in 1..Len(l) : l[i] = Lists[f][i] /\ l[i] \in Free
      BY <1>2 DEF Rest, TakeInv, Lines
    <3>3. Len(temp'[w]) = Len(l) - 1 /\ Len(temp'[w]) + 1 = Len(l)
      BY <1>3, <2>2, <3>1
    <3>4. \A i \in 1..Len(temp'[w]) : temp'[w][i] = l[i] /\ i \in 1..Len(l)
      BY <1>3, <2>2, <3>1, <3>3
    <3>5. Rest(temp'[w], f)
      BY <1>3, <3>1, <3>2, <3>3, <3>4 DEF Rest
    <3>6. exp'[w] = l[Len(l)] /\ Len(l) \in 1..Len(l)
      BY <1>3, <2>2, <3>1
    <3>7. exp'[w] \in Free /\ exp'[w] = Lists[f][Len(l)]
      BY <3>2, <3>6
    <3>8. Len(temp'[w]) < Len(Lists[f])
      BY <3>1, <3>3
    <3>9. exp'[w] = Lists[f][Len(temp'[w]) + 1]
      BY <3>3, <3>7
    <3>10. \A i \in 1..Len(temp'[w]) : temp'[w][i] \in Free
      BY <3>2, <3>4, ZenonT(30)
    <3> QED BY <3>5, <3>7, <3>8, <3>9, <3>10
  <2> QED BY <2>1, <2>2
<1>10. Lines'
  BY <1>1, <1>7, <1>8, <1>9 DEF TakeInv, Lines
<1> QED BY <1>4, <1>5, <1>7, <1>10 DEF TakeInv

LEMMA TruncateKeeps ==
    ASSUME TakeInv, NEW w \in Workers, Truncate(w)
    PROVE  TakeInv'
<1>1. /\ pc[w] = "truncate" /\ pc' = [pc EXCEPT ![w] = "move"]
      /\ list' = [list EXCEPT ![file[w]] = <<>>]
      /\ UNCHANGED <<lock, file, stored, exp, temp>>
  BY DEF Truncate, Goto, results, core
<1>2. Places'
  BY <1>1 DEF TakeInv, Places
<1>3. Mutex'
  BY <1>1 DEF TakeInv, Places, Mutex, Critical
<1>4. \A e \in Experiments : Holding(e)' = Holding(e)
  BY <1>1 DEF Holding, TakeInv, Places
<1>5. Free' = Free /\ Once'
  BY <1>1, <1>4 DEF Free, TakeInv, Once
<1>6. \A v \in Workers : pc'[v] \in Taking => pc[v] \in Taking
  BY <1>1 DEF TakeInv, Places, Taking
<1>7. \A g \in Files : Rest(<<>>, g)
  BY ListFacts DEF Rest
<1>8. \A g \in Files : list'[g] = list[g] \/ list'[g] = <<>>
  BY <1>1 DEF TakeInv, Places
<1>9. \A g \in Files : Rest(list'[g], g) /\ \A i \in 1..Len(list'[g]) : list'[g][i] \in Free
  BY <1>7, <1>8 DEF TakeInv, Lines
<1>10. Lines'
  BY <1>1, <1>5, <1>6, <1>9 DEF TakeInv, Lines
<1> QED BY <1>2, <1>3, <1>5, <1>10 DEF TakeInv

LEMMA MoveKeeps ==
    ASSUME TakeInv, NEW w \in Workers, Move(w)
    PROVE  TakeInv'
<1> DEFINE f == file[w]
           n == Len(temp[w])
<1>1. /\ pc[w] = "move" /\ pc' = [pc EXCEPT ![w] = "unlock"]
      /\ list' = [list EXCEPT ![f] = temp[w]]
      /\ UNCHANGED <<lock, file, stored, exp, temp>>
  BY DEF Move, Goto, results, core
<1>2. f \in Files /\ Rest(temp[w], f) /\ \A i \in 1..n : temp[w][i] \in Free
  BY <1>1 DEF TakeInv, Places, Lines, Taking
<1>3. n \in 0..Len(Lists[f]) /\ Len(Lists[f]) \in Nat
  BY <1>2, ListFacts DEF Rest
<1>4. Places'
  BY <1>1 DEF TakeInv, Places
<1>5. Mutex'
  BY <1>1 DEF TakeInv, Places, Mutex, Critical
<1>6. \A v \in Workers : pc'[v] \notin Taking
  BY <1>1, Alone DEF TakeInv, Places, Taking, Critical
<1>7. \A e \in Experiments : Holding(e)' = IF e = exp[w] THEN Holding(e) \cup {w} ELSE Holding(e)
  BY <1>1 DEF Holding, TakeInv, Places
<1>8. \A e \in Experiments : e = exp[w] =>
          /\ Holding(e) = {} /\ stored[e] = 0
          /\ n + 1 \in 1..Len(Lists[f]) /\ e = Lists[f][n + 1]
  BY <1>1, <1>3 DEF TakeInv, Lines, Taking, Free
<1>9. Once'
  BY <1>1, <1>7, <1>8 DEF TakeInv, Once
<1>10. \A e \in Free : e # exp[w] => e \in Free'
  BY <1>1, <1>7 DEF Free
<1>11. \A g \in Files : \A i \in 1..Len(list'[g]) :
          /\ list'[g][i] \in Free /\ list'[g][i] = Lists[g][i] /\ i \in 1..Len(Lists[g])
          /\ (g = f => i # n + 1)
  <2> SUFFICES ASSUME NEW g \in Files, NEW i \in 1..Len(list'[g])
               PROVE  /\ list'[g][i] \in Free /\ list'[g][i] = Lists[g][i]
                      /\ i \in 1..Len(Lists[g]) /\ (g = f => i # n + 1)
    OBVIOUS
  <2>1. CASE g = f
    <3>1. list'[g] = temp[w]
      BY <1>1, <1>2, <2>1 DEF TakeInv, Places
    <3>2. i \in 1..n /\ i \in 1..Len(Lists[g]) /\ i # n + 1
      BY <1>3, <2>1, <3>1
    <3> QED BY <1>2, <2>1, <3>1, <3>2 DEF Rest
  <2>2. CASE g # f
    <3>1. list'[g] = list[g]
      BY <1>1, <2>2 DEF TakeInv, Places
    <3>2. Rest(list[g], g) /\ list[g][i] \in Free
      BY <3>1 DEF TakeInv, Lines
    <3>3. Len(Lists[g]) \in Nat /\ Len(list[g]) \in 0..Len(Lists[g])
      BY <3>2, ListFacts DEF Rest
    <3>4. i \in 1..Len(Lists[g])
      BY <3>1, <3>3
    <3> QED BY <2>2, <3>1, <3>2, <3>4 DEF Rest
  <2> QED BY <2>1, <2>2
<1>12. \A g \in Files : \A i \in 1..Len(list'[g]) : list'[g][i] # exp[w]
  <2> SUFFICES ASSUME NEW g \in Files, NEW i \in 1..Len(list'[g]), list'[g][i] = exp[w]
               PROVE  FALSE
    OBVIOUS
  <2>1. exp[w] \in Experiments /\ exp[w] = Lists[g][i] /\ i \in 1..Len(Lists[g])
    BY <1>11 DEF Free
  <2>2. n + 1 \in 1..Len(Lists[f]) /\ exp[w] = Lists[f][n + 1]
    BY <1>8, <2>1
  <2>3. \A j \in 1..Len(Lists[f]) : Lists[g][i] = Lists[f][j] => g = f /\ i = j
    BY <1>2, <2>1, ListFacts
  <2>4. g = f /\ i = n + 1
    BY <2>1, <2>2, <2>3
  <2> QED BY <1>11, <2>4
<1>13. \A g \in Files : Rest(list'[g], g)
  <2>1. list'[f] = temp[w] /\ \A g \in Files : g # f => list'[g] = list[g]
    BY <1>1, <1>2 DEF TakeInv, Places
  <2> QED BY <1>2, <2>1 DEF TakeInv, Lines
<1>14. Lines'
  BY <1>6, <1>10, <1>11, <1>12, <1>13 DEF Lines
<1> QED BY <1>4, <1>5, <1>9, <1>14 DEF TakeInv

LEMMA StoreKeeps ==
    ASSUME TakeInv, NEW w \in Workers, Store(w)
    PROVE  TakeInv'
<1>1. /\ pc[w] = "store" /\ pc' = [pc EXCEPT ![w] = "test"]
      /\ UNCHANGED <<list, lock, file, exp, temp>>
      /\ stored' = [stored EXCEPT ![exp[w]] = @ + 1] \/ stored' = stored
  BY DEF Store, Deliver, Goto
<1>2. Places'
  <2>1. exp[w] \in Experiments \cup {Empty} /\ stored \in [Experiments \cup {Empty} -> Nat]
    BY DEF TakeInv, Places
  <2>2. stored' \in [Experiments \cup {Empty} -> Nat]
    BY <1>1, <2>1
  <2> QED BY <1>1, <2>2 DEF TakeInv, Places
<1>3. Mutex'
  BY <1>1 DEF TakeInv, Places, Mutex, Critical
<1>4. \A e \in Experiments : Holding(e)' = Holding(e) \ {w}
  BY <1>1 DEF Holding, TakeInv, Places
<1>5. \A e \in Experiments : e # exp[w] => stored'[e] = stored[e]
  BY <1>1 DEF TakeInv, Places
<1>6. \A e \in Experiments : e = exp[w] =>
          Holding(e) = {w} /\ stored[e] = 0 /\ stored'[e] \in 0..1
  <2> SUFFICES ASSUME NEW e \in Experiments, e = exp[w]
               PROVE  Holding(e) = {w} /\ stored[e] = 0 /\ stored'[e] \in 0..1
    OBVIOUS
  <2>1. w \in Holding(e)
    BY <1>1 DEF Holding
  <2>2. Holding(e) = {w} /\ stored[e] = 0
    BY <2>1 DEF TakeInv, Once
  <2> QED BY <1>1, <2>2 DEF TakeInv, Places
<1>7. Once'
  BY <1>4, <1>5, <1>6 DEF TakeInv, Once
<1>8. Free \subseteq Free'
  BY <1>4, <1>5, <1>6 DEF Free
<1>9. \A v \in Workers : pc'[v] \in Taking => pc[v] \in Taking
  BY <1>1 DEF TakeInv, Places, Taking
<1>10. Lines'
  BY <1>1, <1>8, <1>9 DEF TakeInv, Lines
<1> QED BY <1>2, <1>3, <1>7, <1>10 DEF TakeInv

LEMMA TakeInit == Init => TakeInv
<1> SUFFICES ASSUME Init PROVE TakeInv
  OBVIOUS
<1>1. Places
  BY ListFacts, CampaignAssumption DEF Init, Places, Files
<1>2. Mutex
  BY DEF Init, Mutex, Critical
<1>3. \A e \in Experiments : Holding(e) = {} /\ stored[e] = 0
  BY DEF Init, Holding
<1>4. Once
  BY <1>3 DEF Once
<1>5. \A f \in Files : Rest(list[f], f)
  BY ListFacts DEF Init, Rest
<1>6. \A f \in Files : \A i \in 1..Len(list[f]) : list[f][i] \in Free
  BY <1>3, ListFacts DEF Init, Free
<1>7. Lines
  BY <1>5, <1>6, ZenonT(30) DEF Init, Lines, Taking
<1> QED BY <1>1, <1>2, <1>4, <1>7 DEF TakeInv

LEMMA TakeStep == TakeInv /\ [Next]_vars => TakeInv'
<1> SUFFICES ASSUME TakeInv, [Next]_vars PROVE TakeInv'
  OBVIOUS
<1> USE DEF TakeInv, Places, Mutex, Critical, Taking, Taken, Goto, core, results, faultVars
<1>1. ASSUME NEW w \in Workers, Checkpoint(w) PROVE TakeInv'
  BY <1>1, QuietStep DEF Checkpoint
<1>2. ASSUME NEW w \in Workers, Test(w) PROVE TakeInv'
  <2>1. file' \in [Workers -> Files]
    <3>1. file[w] \in 1..Len(Lists) /\ Len(Lists) \in Nat
      BY ListFacts DEF Files
    <3>2. file[w] < Len(Lists) => file[w] + 1 \in Files
      BY <3>1 DEF Files
    <3>3. \/ file' = file
          \/ file[w] < Len(Lists) /\ file' = [file EXCEPT ![w] = @ + 1]
      BY <1>2 DEF Test
    <3> QED BY <3>2, <3>3
  <2>2. pc' \in [Workers -> {"checkpoint", "test", "lock", "read", "truncate", "move",
                             "unlock", "simulate", "store", "done", "dead"}]
    BY <1>2, Zenon DEF Test
  <2>3. \A v \in Workers : pc'[v] = pc[v] \/ pc'[v] \in {"test", "lock", "done"}
    BY <1>2 DEF Test
  <2>4. \A v \in Workers : v # w => file'[v] = file[v]
    BY <1>2 DEF Test
  <2>5. pc'[w] \in {"test", "lock", "done"} /\ UNCHANGED <<list, lock, stored, temp, exp>>
    BY <1>2 DEF Test
  <2> QED BY <2>1, <2>2, <2>3, <2>4, <2>5, QuietStep, Zenon
<1>3. ASSUME NEW w \in Workers, Lock(w) PROVE TakeInv'
  BY <1>3, QuietStep, CampaignAssumption, ZenonT(30) DEF Lock
<1>4. ASSUME NEW w \in Workers, Unlock(w) PROVE TakeInv'
  BY <1>4, QuietStep DEF Unlock
<1>5. ASSUME NEW w \in Workers, Simulate(w) PROVE TakeInv'
  BY <1>5, QuietStep, ZenonT(30) DEF Simulate
<1>6. ASSUME NEW w \in Workers, Crash(w) PROVE TakeInv'
  BY <1>6, QuietStep DEF Crash
<1>7. ASSUME NEW w \in Workers, OrphanWrites(w) PROVE TakeInv'
  BY <1>7, QuietStep, ZenonT(30) DEF OrphanWrites
<1>8. ASSUME NEW w \in Workers, Restart(w) PROVE TakeInv'
  BY <1>8, QuietStep, ListFacts DEF Restart
<1>9. CASE UNCHANGED vars
  BY <1>9, QuietStep DEF vars
<1> QED
  BY <1>1, <1>2, <1>3, <1>4, <1>5, <1>6, <1>7, <1>8, <1>9,
     ReadKeeps, TruncateKeeps, MoveKeeps, StoreKeeps, Zenon DEF Next, Step

(* No experiment is run twice, for any number of workers on any number of  *)
(* workstations, any lists and any crashes and restarts, and even if mv    *)
(* truncates and copies: tail, head and mv of run.sh are exclusive under   *)
(* the lock file.                                                          *)
THEOREM TakenOnce == Spec => []AtMostOnce
<1>1. TakeInv => AtMostOnce
  <2> SUFFICES ASSUME TakeInv, NEW e \in Experiments
               PROVE  Cardinality(Holding(e)) + stored[e] <= 1
    BY DEF AtMostOnce
  <2>1. CASE Holding(e) = {}
    BY <2>1, FS_EmptySet DEF TakeInv, Once
  <2>2. CASE Holding(e) # {}
    <3>1. PICK w : w \in Holding(e)
      BY <2>2
    <3>2. Holding(e) = {w} /\ stored[e] = 0
      BY <3>1 DEF TakeInv, Once
    <3>3. Cardinality({w}) = 1
      BY FS_Singleton
    <3> QED BY <3>2, <3>3
  <2> QED BY <2>1, <2>2
<1> QED BY <1>1, TakeInit, TakeStep, PTL DEF Spec

LEMMA TakeInvariance == Spec => []TakeInv
  BY TakeInit, TakeStep, PTL DEF Spec

---------------------------------------------------------------------------
(* The variables that TakeInv says nothing about have their types. *)
Typed ==
    /\ setup \in Setups
    /\ lock \in Workers \cup {NoOne}
    /\ output \in [Workers -> Experiments \cup {Empty, NoOne}]
    /\ stage_ckpt \in [Workers -> SUBSET Files]
    /\ main_ckpt \in [Workers -> BOOLEAN] /\ recent \in [Workers -> BOOLEAN]
    /\ clash \subseteq Experiments \cup {Empty}
    /\ foreign \in Nat /\ orphan \in [Workers -> Experiments \cup {Empty, NoOne}]
    /\ crashes \in Nat

LEMMA TypedInit == Init => Typed
<1>1. SUFFICES ASSUME Init PROVE Typed
  OBVIOUS
<1>2. setup.old \subseteq SUBSET Files
  BY <1>1, CampaignAssumption DEF Init
<1> QED
  BY <1>1, <1>2 DEF Init, Typed

LEMMA TypedStep ==
    ASSUME TakeInv, Typed, [Next]_vars
    PROVE  Typed'
<1>1. exp \in [Workers -> Experiments \cup {Empty}]
  BY DEF TakeInv, Places
<1> USE DEF Goto, core, results, faultVars
<1>2. ASSUME NEW w \in Workers, Checkpoint(w) PROVE Typed'
  BY <1>2 DEF Checkpoint, Typed
<1>3. ASSUME NEW w \in Workers, Test(w) PROVE Typed'
  BY <1>3 DEF Test, Typed
<1>4. ASSUME NEW w \in Workers, Lock(w) PROVE Typed'
  BY <1>4 DEF Lock, Typed
<1>5. ASSUME NEW w \in Workers, Read(w) PROVE Typed'
  BY <1>5 DEF Read, Typed
<1>6. ASSUME NEW w \in Workers, Truncate(w) PROVE Typed'
  BY <1>6 DEF Truncate, Typed
<1>7. ASSUME NEW w \in Workers, Move(w) PROVE Typed'
  BY <1>7 DEF Move, Typed
<1>8. ASSUME NEW w \in Workers, Unlock(w) PROVE Typed'
  BY <1>8 DEF Unlock, Typed
<1>9. ASSUME NEW w \in Workers, Simulate(w) PROVE Typed'
  BY <1>1, <1>9 DEF Simulate, Typed
<1>10. ASSUME NEW w \in Workers, Store(w) PROVE Typed'
  BY <1>1, <1>10 DEF Store, Deliver, Typed
<1>11. ASSUME NEW w \in Workers, Crash(w) PROVE Typed'
  BY <1>1, <1>11 DEF Crash, Typed
<1>12. ASSUME NEW w \in Workers, OrphanWrites(w) PROVE Typed'
  BY <1>12 DEF OrphanWrites, Typed
<1>13. ASSUME NEW w \in Workers, Restart(w) PROVE Typed'
  BY <1>13, Zenon DEF Restart, Typed
<1>14. CASE UNCHANGED vars
  BY <1>14 DEF vars, Typed
<1> QED
  BY <1>2, <1>3, <1>4, <1>5, <1>6, <1>7, <1>8, <1>9, <1>10, <1>11, <1>12, <1>13, <1>14
     DEF Next, Step

LEMMA Typing == Spec => []Typed
<1>1. TakeInv /\ Typed /\ [Next]_vars => Typed'
  BY TypedStep
<1> QED
  BY <1>1, TypedInit, TakeInvariance, PTL DEF Spec

(* Every variable keeps its type; in particular a list file never holds a  *)
(* line that was not in it when the campaign began.                        *)
THEOREM TypeCorrect == Spec => []TypeOK
<1>1. TakeInv /\ Typed => TypeOK
  <2>1. SUFFICES ASSUME TakeInv, Typed PROVE TypeOK
    OBVIOUS
  <2>2. ASSUME NEW f \in Files PROVE Range(list[f]) \subseteq Range(Lists[f])
    <3>1. Rest(list[f], f) /\ Lists[f] \in Seq(Experiments)
      BY <2>1, ListFacts DEF TakeInv, Lines
    <3>2. /\ DOMAIN list[f] = 1..Len(list[f]) /\ DOMAIN Lists[f] = 1..Len(Lists[f])
          /\ 1..Len(list[f]) \subseteq 1..Len(Lists[f])
      BY <3>1 DEF Rest
    <3> QED
      BY <3>1, <3>2 DEF Rest, Range
  <2> QED
    BY <2>1, <2>2 DEF TakeInv, Places, Typed, TypeOK
<1> QED
  BY <1>1, TakeInvariance, Typing, PTL

---------------------------------------------------------------------------
(* The workers whose next result may carry a foreign output: those that    *)
(* died, and those that have one in their directory.                       *)
Spoilt == {w \in Workers :
              \/ pc[w] = "dead"
              \/ pc[w] = "store" /\ output[w] \notin {exp[w], NoOne}
              \/ pc[w] \notin {"dead", "store", "done"} /\ output[w] # NoOne}

(* Every crash pays for one of them, and it stays paid for until a foreign *)
(* output is stored.  A simulator survives only a dead script.             *)
OutputInv ==
    /\ \A w \in Workers : orphan[w] # NoOne => pc[w] = "dead"
    /\ IsFiniteSet(Spoilt)
    /\ foreign + Cardinality(Spoilt) <= crashes

LEMMA OutputInit == Init => OutputInv
<1>1. SUFFICES ASSUME Init PROVE OutputInv
  OBVIOUS
<1>2. Spoilt = {} /\ foreign = 0 /\ crashes = 0 /\ \A w \in Workers : orphan[w] = NoOne
  BY <1>1 DEF Init, Spoilt
<1>3. IsFiniteSet({}) /\ Cardinality({}) = 0
  BY FS_EmptySet
<1> QED
  BY <1>2, <1>3 DEF OutputInv

(* No step but a crash spoils a worker. *)
LEMMA OutputQuiet ==
    ASSUME Typed, OutputInv, Spoilt' \subseteq Spoilt, UNCHANGED <<foreign, crashes>>,
           \A w \in Workers : orphan'[w] # NoOne => pc'[w] = "dead"
    PROVE  OutputInv'
<1>1. IsFiniteSet(Spoilt) /\ foreign \in Nat /\ crashes \in Nat
  BY DEF Typed, OutputInv
<1>2. IsFiniteSet(Spoilt') /\ Cardinality(Spoilt') <= Cardinality(Spoilt)
  BY <1>1, FS_Subset
<1>3. Cardinality(Spoilt) \in Nat /\ Cardinality(Spoilt') \in Nat
  BY <1>1, <1>2, FS_CardinalityType
<1>4. foreign' + Cardinality(Spoilt') <= crashes'
  BY <1>1, <1>2, <1>3 DEF OutputInv
<1> QED
  BY <1>2, <1>4 DEF OutputInv

LEMMA OutputStore ==
    ASSUME TakeInv, Typed, OutputInv, NEW w \in Workers, Store(w)
    PROVE  OutputInv'
<1>1. /\ pc[w] = "store" /\ pc' = [pc EXCEPT ![w] = "test"]
      /\ foreign' = IF output[w] \in {exp[w], NoOne} THEN foreign ELSE foreign + 1
      /\ output' = [output EXCEPT ![w] = NoOne]
      /\ UNCHANGED <<exp, orphan, crashes>>
  BY DEF Store, Goto, faultVars
<1>2. DOMAIN pc = Workers /\ DOMAIN output = Workers
  BY DEF TakeInv, Places, Typed
<1>3. Spoilt' \subseteq Spoilt \ {w}
  BY <1>1, <1>2 DEF Spoilt
<1>4. \A v \in Workers : orphan'[v] # NoOne => pc'[v] = "dead"
  BY <1>1, <1>2 DEF OutputInv
<1>5. CASE output[w] \in {exp[w], NoOne}
  BY <1>1, <1>3, <1>4, <1>5, OutputQuiet
<1>6. CASE output[w] \notin {exp[w], NoOne}
  <2>1. w \in Spoilt /\ IsFiniteSet(Spoilt)
    BY <1>1, <1>6 DEF Spoilt, OutputInv
  <2>2. /\ IsFiniteSet(Spoilt \ {w})
        /\ Cardinality(Spoilt \ {w}) = Cardinality(Spoilt) - 1
    BY <2>1, FS_RemoveElement
  <2>3. IsFiniteSet(Spoilt') /\ Cardinality(Spoilt') <= Cardinality(Spoilt \ {w})
    BY <1>3, <2>2, FS_Subset
  <2>4. Cardinality(Spoilt) \in Nat /\ Cardinality(Spoilt') \in Nat
    BY <2>1, <2>3, FS_CardinalityType, ZenonT(30)
  <2>5. foreign' = foreign + 1 /\ foreign \in Nat /\ crashes \in Nat
    BY <1>1, <1>6 DEF Typed
  <2>6. foreign' + Cardinality(Spoilt') <= crashes'
    <3>1. foreign + Cardinality(Spoilt) <= crashes /\ crashes' = crashes
      BY <1>1, Zenon DEF OutputInv
    <3>2. Cardinality(Spoilt') <= Cardinality(Spoilt) - 1
      BY <2>2, <2>3, Zenon
    <3>3. (foreign + 1) + Cardinality(Spoilt') <= crashes
      BY <2>4, <2>5, <3>1, <3>2, OneFewer, Zenon
    <3> QED BY <2>5, <3>1, <3>3, Zenon
  <2> QED
    BY <1>4, <2>3, <2>6 DEF OutputInv
<1> QED
  BY <1>5, <1>6

LEMMA OutputCrash ==
    ASSUME TakeInv, Typed, OutputInv, NEW w \in Workers, Crash(w)
    PROVE  OutputInv'
<1>1. /\ pc' = [pc EXCEPT ![w] = "dead"] /\ crashes' = crashes + 1
      /\ orphan' = orphan \/ orphan' = [orphan EXCEPT ![w] = exp[w]]
      /\ UNCHANGED <<output, exp, foreign>>
  BY DEF Crash, core, results
<1>2. DOMAIN pc = Workers /\ DOMAIN orphan = Workers
  BY DEF TakeInv, Places, Typed
<1>3. Spoilt' \subseteq Spoilt \cup {w}
  BY <1>1, <1>2 DEF Spoilt
<1>4. \A v \in Workers : orphan'[v] # NoOne => pc'[v] = "dead"
  BY <1>1, <1>2 DEF OutputInv
<1>5. IsFiniteSet(Spoilt)
  BY DEF OutputInv
<1>6. /\ IsFiniteSet(Spoilt \cup {w})
      /\ Cardinality(Spoilt \cup {w}) <= Cardinality(Spoilt) + 1
  <2>1. Cardinality(Spoilt) \in Nat
    BY <1>5, FS_CardinalityType
  <2>2. /\ IsFiniteSet(Spoilt \cup {w})
        /\ \/ Cardinality(Spoilt \cup {w}) = Cardinality(Spoilt)
           \/ Cardinality(Spoilt \cup {w}) = Cardinality(Spoilt) + 1
    BY <1>5, FS_AddElement
  <2> QED
    BY <2>1, <2>2
<1>7. IsFiniteSet(Spoilt') /\ Cardinality(Spoilt') <= Cardinality(Spoilt \cup {w})
  BY <1>3, <1>6, FS_Subset
<1>8. /\ Cardinality(Spoilt) \in Nat /\ Cardinality(Spoilt') \in Nat
      /\ Cardinality(Spoilt \cup {w}) \in Nat /\ foreign \in Nat /\ crashes \in Nat
  BY <1>5, <1>6, <1>7, FS_CardinalityType DEF Typed
<1>9. foreign' + Cardinality(Spoilt') <= crashes'
  BY <1>1, <1>6, <1>7, <1>8 DEF OutputInv
<1> QED
  BY <1>4, <1>7, <1>9 DEF OutputInv

LEMMA OutputStep ==
    ASSUME TakeInv, Typed, OutputInv, [Next]_vars
    PROVE  OutputInv'
<1>1. DOMAIN pc = Workers /\ DOMAIN output = Workers /\ DOMAIN orphan = Workers
  BY ZenonT(30) DEF TakeInv, Places, Typed
<1>2. \A w \in Workers : orphan[w] # NoOne => pc[w] = "dead"
  BY ZenonT(30) DEF OutputInv
<1> USE DEF Goto, core, results, faultVars, Spoilt
<1>3. ASSUME NEW w \in Workers, Checkpoint(w) PROVE OutputInv'
  BY <1>1, <1>2, <1>3, OutputQuiet, Zenon DEF Checkpoint
<1>4. ASSUME NEW w \in Workers, Test(w) PROVE OutputInv'
  <2>1. \E to \in {"lock", "test", "done"} : pc[w] = "test" /\ pc' = [pc EXCEPT ![w] = to]
    BY <1>4 DEF Test
  <2>2. UNCHANGED <<output, exp, foreign, crashes, orphan>>
    BY <1>4, ZenonT(30) DEF Test
  <2> QED
    BY <1>1, <1>2, <2>1, <2>2, OutputQuiet
<1>5. ASSUME NEW w \in Workers, Lock(w) PROVE OutputInv'
  BY <1>1, <1>2, <1>5, OutputQuiet DEF Lock
<1>6. ASSUME NEW w \in Workers, Read(w) PROVE OutputInv'
  <2>1. /\ \E to \in {"truncate", "move"} : pc[w] = "read" /\ pc' = [pc EXCEPT ![w] = to]
        /\ \A v \in Workers : v # w => exp'[v] = exp[v]
        /\ UNCHANGED <<output, foreign, crashes, orphan>>
    BY <1>6, Zenon DEF Read, TakeInv, Places
  <2> QED
    BY <1>1, <1>2, <2>1, OutputQuiet, ZenonT(30)
<1>7. ASSUME NEW w \in Workers, Truncate(w) PROVE OutputInv'
  BY <1>1, <1>2, <1>7, OutputQuiet DEF Truncate
<1>8. ASSUME NEW w \in Workers, Move(w) PROVE OutputInv'
  BY <1>1, <1>2, <1>8, OutputQuiet DEF Move
<1>9. ASSUME NEW w \in Workers, Unlock(w) PROVE OutputInv'
  BY <1>1, <1>2, <1>9, OutputQuiet DEF Unlock
<1>10. ASSUME NEW w \in Workers, Simulate(w) PROVE OutputInv'
  BY <1>1, <1>2, <1>10, OutputQuiet, ZenonT(30) DEF Simulate
<1>11. ASSUME NEW w \in Workers, OrphanWrites(w) PROVE OutputInv'
  BY <1>1, <1>2, <1>11, OutputQuiet, ZenonT(30) DEF OrphanWrites
<1>12. ASSUME NEW w \in Workers, Restart(w) PROVE OutputInv'
  BY <1>1, <1>2, <1>12, OutputQuiet, ZenonT(30) DEF Restart
<1>13. CASE UNCHANGED vars
  BY <1>2, <1>13, OutputQuiet DEF vars
<1> QED
  BY <1>3, <1>4, <1>5, <1>6, <1>7, <1>8, <1>9, <1>10, <1>11, <1>12, <1>13,
     OutputStore, OutputCrash, ZenonT(30) DEF Next, Step

(* A crash spoils at most one result, for any number of workers and of     *)
(* crashes: run.sh empties the output directory after every result, so     *)
(* only what a crash leaves behind can be stored under another name.       *)
THEOREM OneSpoiltPerCrash == Spec => []OwnOutput
<1>1. Typed /\ OutputInv => OwnOutput
  <2>1. SUFFICES ASSUME Typed, OutputInv PROVE OwnOutput
    OBVIOUS
  <2>2. Cardinality(Spoilt) \in Nat /\ foreign \in Nat /\ crashes \in Nat
    BY <2>1, FS_CardinalityType DEF OutputInv, Typed
  <2> QED
    BY <2>1, <2>2 DEF OutputInv, OwnOutput
<1>2. TakeInv /\ Typed /\ OutputInv /\ [Next]_vars => OutputInv'
  BY OutputStep, ZenonT(30)
<1> QED
  BY <1>1, <1>2, OutputInit, TakeInvariance, Typing, PTL DEF Spec

---------------------------------------------------------------------------
Listed(e) == \E f \in Files : \E i \in 1..Len(list[f]) : list[f][i] = e

(* The experiments that nobody will run any more and that have no result. *)
Lost == {e \in Experiments \ clash : ~Listed(e) /\ Holding(e) = {} /\ stored[e] = 0}

(* What a worker leaves of its list and what it takes are together all of  *)
(* the list, until a rename replaces it.                                   *)
Parted(w) ==
    LET l == list[file[w]] IN
    \/ l = <<>> /\ temp[w] = <<>> /\ exp[w] = Empty
    \/ /\ Len(l) = Len(temp[w]) + 1 /\ exp[w] = l[Len(l)]
       /\ \A i \in 1..Len(temp[w]) : temp[w][i] = l[i]

LossInv == ~setup.cross =>
    /\ \A w \in Workers : pc[w] # "truncate" /\ (pc[w] = "move" => Parted(w))
    /\ IsFiniteSet(Lost) /\ Cardinality(Lost) <= crashes

LEMMA LossInit == Init => LossInv
<1>1. SUFFICES ASSUME Init PROVE LossInv
  OBVIOUS
<1>2. ASSUME NEW e \in Experiments PROVE Listed(e)
  <2>1. PICK f \in Files : e \in Range(Lists[f])
    BY DEF Experiments
  <2>2. PICK i \in DOMAIN Lists[f] : Lists[f][i] = e
    BY <2>1 DEF Range
  <2>3. DOMAIN Lists[f] = 1..Len(Lists[f])
    BY ListFacts
  <2> QED
    BY <1>1, <2>2, <2>3 DEF Init, Listed
<1>3. Lost = {}
  BY <1>2 DEF Lost
<1>4. IsFiniteSet({}) /\ Cardinality({}) = 0
  BY FS_EmptySet
<1> QED
  <2>1. crashes = 0 /\ \A w \in Workers : pc[w] # "truncate" /\ pc[w] # "move"
    BY <1>1, Zenon DEF Init
  <2>2. Cardinality(Lost) <= crashes
    <3>1. 0 \in Nat
      OBVIOUS
    <3> QED BY <1>3, <1>4, <2>1, <3>1, Successor, Zenon
  <2> QED BY <1>3, <1>4, <2>1, <2>2, Zenon DEF LossInv

LEMMA LossQuiet ==
    ASSUME Typed, LossInv, UNCHANGED <<setup, crashes>>, ~setup.cross => Lost' \subseteq Lost,
           ~setup.cross =>
                \A w \in Workers : pc'[w] # "truncate" /\ (pc'[w] = "move" => Parted(w)')
    PROVE  LossInv'
<1>1. SUFFICES ASSUME ~setup.cross
               PROVE  IsFiniteSet(Lost') /\ Cardinality(Lost') <= crashes
  BY DEF LossInv
<1>2. IsFiniteSet(Lost) /\ Cardinality(Lost) <= crashes /\ Lost' \subseteq Lost
  BY <1>1 DEF LossInv
<1>3. IsFiniteSet(Lost') /\ Cardinality(Lost') <= Cardinality(Lost)
  BY <1>2, FS_Subset
<1>4. Cardinality(Lost) \in Nat /\ Cardinality(Lost') \in Nat /\ crashes \in Nat
  BY <1>2, <1>3, FS_CardinalityType, ZenonT(30) DEF Typed
<1> QED
  BY <1>2, <1>3, <1>4

(* Steps between which nothing is taken off a list or stored. *)
LEMMA LossElsewhere ==
    ASSUME Typed, LossInv, UNCHANGED <<setup, crashes, list, temp, exp, stored, clash>>,
           \A w \in Workers : pc[w] \in Taken => pc'[w] \in Taken,
           \A w \in Workers : pc'[w] \in Taking => pc'[w] = pc[w] /\ file'[w] = file[w]
    PROVE  LossInv'
<1>1. \A e : Listed(e)' <=> Listed(e)
  BY DEF Listed
<1>2. \A e \in Experiments : Holding(e) \subseteq Holding(e)'
  BY ZenonT(30) DEF Holding, Taken
<1>3. Lost' \subseteq Lost
  BY <1>1, <1>2, ZenonT(30) DEF Lost
<1>4. ~setup.cross => \A w \in Workers : pc'[w] # "truncate" /\ (pc'[w] = "move" => Parted(w)')
  <2> SUFFICES ASSUME ~setup.cross, NEW w \in Workers
               PROVE  pc'[w] # "truncate" /\ (pc'[w] = "move" => Parted(w)')
    BY Zenon
  <2>1. pc[w] # "truncate" /\ (pc[w] = "move" => Parted(w))
    BY Zenon DEF LossInv
  <2>2. pc'[w] \in Taking => pc[w] = pc'[w] /\ (Parted(w)' <=> Parted(w))
    BY Zenon DEF Parted
  <2> QED BY <2>1, <2>2, Zenon DEF Taking
<1> QED
  BY <1>3, <1>4, LossQuiet, Zenon

LEMMA LossRead ==
    ASSUME TakeInv, Typed, LossInv, NEW w \in Workers, Read(w)
    PROVE  LossInv'
<1> DEFINE l == list[file[w]]
<1>1. /\ pc[w] = "read"
      /\ pc' = [pc EXCEPT ![w] = IF setup.cross THEN "truncate" ELSE "move"]
      /\ UNCHANGED <<list, file, stored, clash, setup, crashes>>
      /\ exp' = [exp EXCEPT ![w] = IF l = <<>> THEN Empty ELSE l[Len(l)]]
      /\ temp' = [temp EXCEPT ![w] = IF l = <<>> THEN <<>> ELSE SubSeq(l, 1, Len(l) - 1)]
  BY ZenonT(30) DEF Read, Goto, results, faultVars
<1>2. /\ l \in Seq(Experiments) /\ DOMAIN pc = Workers /\ DOMAIN exp = Workers
      /\ DOMAIN temp = Workers
  BY DEF TakeInv, Places, Lines, Rest
<1>3. \A e : Listed(e)' <=> Listed(e)
  BY <1>1 DEF Listed
<1>4. \A e \in Experiments : Holding(e)' = Holding(e)
  BY <1>1, <1>2 DEF Holding
<1>5. Lost' \subseteq Lost
  BY <1>1, <1>3, <1>4 DEF Lost
<1>6. ASSUME ~setup.cross, NEW v \in Workers
      PROVE  pc'[v] # "truncate" /\ (pc'[v] = "move" => Parted(v)')
  <2>1. CASE v # w
    BY <1>1, <1>2, <1>6, <2>1, ZenonT(30) DEF LossInv, Parted
  <2>2. CASE v = w
    <3>1. pc'[w] = "move"
      BY <1>1, <1>2, <1>6, ZenonT(30)
    <3>2. CASE l = <<>>
      BY <1>1, <1>2, <2>2, <3>1, <3>2 DEF Parted
    <3>3. CASE l # <<>>
      <4>1. Len(l) \in Nat /\ Len(l) >= 1
        BY <1>2, <3>3
      <4>2. /\ Len(SubSeq(l, 1, Len(l) - 1)) = Len(l) - 1
            /\ \A i \in 1..(Len(l) - 1) : SubSeq(l, 1, Len(l) - 1)[i] = l[i]
        BY <1>2, <4>1
      <4>3. temp'[w] = SubSeq(l, 1, Len(l) - 1) /\ exp'[w] = l[Len(l)] /\ list'[file'[w]] = l
        BY <1>1, <1>2, <3>3
      <4>4. /\ Len(l) = Len(temp'[w]) + 1
            /\ \A i \in 1..Len(temp'[w]) : temp'[w][i] = l[i]
        BY <4>1, <4>2, <4>3
      <4>5. Parted(w)'
        BY <4>3, <4>4, ZenonT(30) DEF Parted
      <4> QED
        BY <2>2, <3>1, <4>5
    <3> QED
      BY <3>2, <3>3, ZenonT(30)
  <2> QED
    BY <2>1, <2>2, ZenonT(30)
<1> QED
  BY <1>1, <1>5, <1>6, LossQuiet, ZenonT(30)

LEMMA LossMove ==
    ASSUME TakeInv, Typed, LossInv, NEW w \in Workers, Move(w)
    PROVE  LossInv'
<1> DEFINE l == list[file[w]]
<1>1. /\ pc[w] = "move" /\ pc' = [pc EXCEPT ![w] = "unlock"]
      /\ list' = [list EXCEPT ![file[w]] = temp[w]]
      /\ UNCHANGED <<file, stored, exp, temp, clash, setup, crashes>>
  BY DEF Move, Goto, results, core, faultVars
<1>2. file[w] \in Files /\ DOMAIN list = Files /\ DOMAIN pc = Workers
  BY DEF TakeInv, Places
<1>3. \A v \in Workers : pc'[v] \notin Taking
  BY <1>1, <1>2, Alone, ZenonT(30) DEF TakeInv, Taking, Critical
<1>4. \A e \in Experiments : Holding(e) \subseteq Holding(e)'
  BY <1>1, <1>2 DEF Holding
<1>5. ASSUME ~setup.cross, NEW e \in Experiments, Listed(e)
      PROVE  Listed(e)' \/ Holding(e)' # {}
  <2>0. PICK f \in Files : \E i \in 1..Len(list[f]) : list[f][i] = e
    BY <1>5 DEF Listed
  <2>1. PICK i \in 1..Len(list[f]) : list[f][i] = e
    BY <2>0, ZenonT(30)
  <2>2. CASE f # file[w]
    BY <1>1, <1>2, <2>1, <2>2 DEF Listed
  <2>3. CASE f = file[w]
    <3>1. Parted(w) /\ l # <<>> /\ Len(l) \in Nat /\ Len(temp[w]) \in Nat
      <4>1. Parted(w)
        BY <1>1, <1>5, Zenon DEF LossInv
      <4>2. Rest(l, file[w]) /\ Rest(temp[w], file[w])
        BY <1>1, <1>2, Zenon DEF TakeInv, Lines, Taking
      <4>3. Len(l) \in Nat /\ Len(temp[w]) \in Nat
        BY <4>2, IndexNat, Zenon DEF Rest
      <4>4. l # <<>>
        BY <2>1, <2>3, NotEmptyAt, Zenon
      <4> QED BY <4>1, <4>3, <4>4, Zenon
    <3>2. /\ Len(l) = Len(temp[w]) + 1 /\ exp[w] = l[Len(l)]
          /\ \A j \in 1..Len(temp[w]) : temp[w][j] = l[j]
      BY <3>1 DEF Parted
    <3>3. CASE i = Len(l)
      <4>1. w \in Holding(e)'
        BY <1>1, <1>2, <2>1, <2>3, <3>2, <3>3 DEF Holding
      <4> QED
        BY <4>1
    <3>4. CASE i # Len(l)
      <4>1. i \in 1..Len(temp[w]) /\ temp[w][i] = e /\ list'[f] = temp[w]
        <5>1. i \in 1..Len(l) /\ l[i] = e
          BY <2>1, <2>3, Zenon
        <5>2. i \in 1..Len(temp[w])
          BY <3>1, <3>2, <3>4, <5>1, BeforeLast, Zenon
        <5>3. temp[w][i] = e
          BY <3>2, <5>1, <5>2, Zenon
        <5>4. list'[f] = temp[w]
          BY <1>1, <1>2, <2>3, Zenon
        <5> QED BY <5>2, <5>3, <5>4, Zenon
      <4> QED
        BY <4>1 DEF Listed
    <3> QED
      BY <3>3, <3>4, ZenonT(30)
  <2> QED
    BY <2>2, <2>3, ZenonT(30)
<1>6. ~setup.cross => Lost' \subseteq Lost
  BY <1>1, <1>4, <1>5 DEF Lost
<1> QED
  BY <1>1, <1>3, <1>6, LossQuiet DEF Taking

LEMMA LossStore ==
    ASSUME TakeInv, Typed, LossInv, NEW w \in Workers, Store(w)
    PROVE  LossInv'
<1>1. /\ pc[w] = "store" /\ pc' = [pc EXCEPT ![w] = "test"]
      /\ UNCHANGED <<list, file, exp, temp, setup, crashes>>
      /\ \/ stored' = [stored EXCEPT ![exp[w]] = @ + 1] /\ clash' = clash
         \/ stored' = stored /\ clash' = clash \cup {exp[w]}
  BY DEF Store, Deliver, Goto, faultVars
<1>2. /\ stored \in [Experiments \cup {Empty} -> Nat] /\ DOMAIN pc = Workers
      /\ exp[w] \in Experiments \cup {Empty}
  BY DEF TakeInv, Places
<1>3. \A e : Listed(e)' <=> Listed(e)
  BY <1>1 DEF Listed
<1>4. ASSUME NEW e \in Lost' PROVE e \in Lost
  <2>1. CASE e = exp[w]
    <3>1. stored'[e] = 0 /\ e \notin clash' /\ e \in Experiments
      BY DEF Lost
    <3>2. stored' = [stored EXCEPT ![e] = @ + 1]
      BY <1>1, <2>1, <3>1
    <3>3. stored[e] \in Nat /\ stored'[e] = stored[e] + 1
      BY <1>2, <3>1, <3>2
    <3> QED
      BY <3>1, <3>3
  <2>2. CASE e # exp[w]
    <3>1. Holding(e)' = Holding(e)
      BY <1>1, <1>2, <2>2, ZenonT(30) DEF Holding
    <3>2. stored'[e] = stored[e] /\ clash \subseteq clash'
      BY <1>1, <1>2, <2>2, ZenonT(30) DEF Lost
    <3> QED
      BY <1>3, <3>1, <3>2 DEF Lost
  <2> QED
    BY <2>1, <2>2
<1>5. ~setup.cross => \A v \in Workers : pc'[v] # "truncate" /\ (pc'[v] = "move" => Parted(v)')
  BY <1>1, <1>2, ZenonT(30) DEF LossInv, Parted
<1> QED
  BY <1>1, <1>4, <1>5, LossQuiet

LEMMA LossCrash ==
    ASSUME TakeInv, Typed, LossInv, NEW w \in Workers, Crash(w)
    PROVE  LossInv'
<1>1. /\ pc' = [pc EXCEPT ![w] = "dead"] /\ crashes' = crashes + 1
      /\ UNCHANGED <<setup, list, file, exp, temp, stored, clash>>
  BY DEF Crash, core, results
<1>2. DOMAIN pc = Workers /\ crashes \in Nat
  BY DEF TakeInv, Places, Typed
<1>3. \A e : Listed(e)' <=> Listed(e)
  BY <1>1 DEF Listed
<1>4. \A e \in Experiments : e # exp[w] => Holding(e)' = Holding(e)
  BY <1>1, <1>2, ZenonT(30) DEF Holding
<1>5. Lost' \subseteq Lost \cup {exp[w]}
  BY <1>1, <1>3, <1>4 DEF Lost
<1>6. SUFFICES ASSUME ~setup.cross PROVE LossInv'
  BY <1>1 DEF LossInv
<1>7. IsFiniteSet(Lost) /\ Cardinality(Lost) <= crashes
  BY <1>6 DEF LossInv
<1>8. Cardinality(Lost) \in Nat
  BY <1>7, FS_CardinalityType, ZenonT(30)
<1>9. /\ IsFiniteSet(Lost \cup {exp[w]})
      /\ \/ Cardinality(Lost \cup {exp[w]}) = Cardinality(Lost)
         \/ Cardinality(Lost \cup {exp[w]}) = Cardinality(Lost) + 1
  BY <1>7, FS_AddElement
<1>10. IsFiniteSet(Lost') /\ Cardinality(Lost') <= Cardinality(Lost \cup {exp[w]})
  BY <1>5, <1>9, FS_Subset
<1>11. Cardinality(Lost') \in Nat
  BY <1>10, FS_CardinalityType
<1>12. Cardinality(Lost') <= crashes'
  BY <1>1, <1>2, <1>7, <1>8, <1>9, <1>10, <1>11, OneMoreLost, Zenon
<1>13. \A v \in Workers : pc'[v] # "truncate" /\ (pc'[v] = "move" => Parted(v)')
  BY <1>1, <1>2, <1>6 DEF LossInv, Parted
<1> QED
  BY <1>10, <1>12, <1>13 DEF LossInv

LEMMA LossStep ==
    ASSUME TakeInv, Typed, LossInv, [Next]_vars
    PROVE  LossInv'
<1>1. DOMAIN pc = Workers /\ DOMAIN file = Workers
  BY ZenonT(30) DEF TakeInv, Places
<1> USE DEF Goto, core, results, faultVars, Taken, Taking
<1>2. ASSUME NEW w \in Workers, Checkpoint(w) PROVE LossInv'
  BY <1>1, <1>2, LossElsewhere, Zenon DEF Checkpoint
<1>3. ASSUME NEW w \in Workers, Test(w) PROVE LossInv'
  <2>1. /\ pc[w] = "test" /\ \E to \in {"lock", "test", "done"} : pc' = [pc EXCEPT ![w] = to]
        /\ \A v \in Workers : v # w => file'[v] = file[v]
        /\ UNCHANGED <<setup, crashes, list, temp, exp, stored, clash>>
    BY <1>1, <1>3, ZenonT(30) DEF Test
  <2> QED
    BY <1>1, <2>1, LossElsewhere
<1>4. ASSUME NEW w \in Workers, Lock(w) PROVE LossInv'
  BY <1>1, <1>4, LossElsewhere, ZenonT(30) DEF Lock
<1>5. ASSUME NEW w \in Workers, Truncate(w) PROVE LossInv'
  BY <1>5, Zenon DEF Truncate, LossInv
<1>6. ASSUME NEW w \in Workers, Unlock(w) PROVE LossInv'
  BY <1>1, <1>6, LossElsewhere, ZenonT(30) DEF Unlock
<1>7. ASSUME NEW w \in Workers, Simulate(w) PROVE LossInv'
  BY <1>1, <1>7, LossElsewhere DEF Simulate
<1>8. ASSUME NEW w \in Workers, OrphanWrites(w) PROVE LossInv'
  BY <1>8, LossElsewhere DEF OrphanWrites
<1>9. ASSUME NEW w \in Workers, Restart(w) PROVE LossInv'
  BY <1>1, <1>9, LossElsewhere, ZenonT(30) DEF Restart
<1>10. CASE UNCHANGED vars
  BY <1>10, LossElsewhere DEF vars
<1> QED
  BY <1>2, <1>3, <1>4, <1>5, <1>6, <1>7, <1>8, <1>9, <1>10,
     LossRead, LossMove, LossStore, LossCrash DEF Next, Step

(* A crash loses at most one experiment, for any lists and any number of   *)
(* workers: while mv is a rename, the line that a worker took is on the    *)
(* list until the worker holds it, and held until it has a result.         *)
THEOREM OneLostPerCrash == Spec => []Accounted
<1>1. TakeInv /\ LossInv => Accounted
  <2>1. SUFFICES ASSUME TakeInv, LossInv PROVE Accounted
    OBVIOUS
  <2>2. ASSUME NEW e PROVE e \in UNION {Range(list[f]) : f \in Files} <=> Listed(e)
    <3>1. \A f \in Files : DOMAIN list[f] = 1..Len(list[f])
      BY <2>1 DEF TakeInv, Lines, Rest
    <3>2. e \in UNION {Range(list[f]) : f \in Files} <=> \E f \in Files : e \in Range(list[f])
      OBVIOUS
    <3>3. \A f \in Files : e \in Range(list[f]) <=> \E i \in 1..Len(list[f]) : list[f][i] = e
      BY <3>1 DEF Range
    <3> QED
      BY <3>2, <3>3 DEF Listed
  <2>3. {e \in Experiments \ ((UNION {Range(list[f]) : f \in Files}) \cup clash) :
            Holding(e) = {} /\ stored[e] = 0} = Lost
    BY <2>2 DEF Lost
  <2> QED
    BY <2>1, <2>3, Zenon DEF LossInv, Accounted
<1>2. TakeInv /\ Typed /\ LossInv /\ [Next]_vars => LossInv'
  BY LossStep
<1> QED
  BY <1>1, <1>2, LossInit, TakeInvariance, Typing, PTL DEF Spec
---------------------------------------------------------------------------
(* A file is live while it has lines, those included that the rewriting of *)
(* the file is about to give back.                                         *)
Live(f) == \/ list[f] # <<>>
           \/ \E w \in Workers : pc[w] = "move" /\ file[w] = f /\ temp[w] # <<>>

(* Worker w may still come to the loop of file f. *)
Ahead(w, f) == pc[w] = "dead" \/ (pc[w] # "done" /\ file[w] <= f)

(* It has found f not empty, and has read no line of it. *)
Pending(w, f) ==
    /\ file[w] = f
    /\ pc[w] \in {"lock", "read"} \/ (pc[w] \in Taking \cup Taken /\ exp[w] = Empty)

(* The runs without a fault that are still possible. *)
Chances == {s \in Workers \X Files :
               (Live(s[2]) /\ Ahead(s[1], s[2])) \/ Pending(s[1], s[2])}

Over == {f \in Files : ~Live(f)}

Marks ==
    /\ \A w \in Workers : pc[w] \in Taking \cup Taken /\ exp[w] = Empty => ~Live(file[w])
    /\ \A w \in Workers : pc[w] \in Taking /\ exp[w] = Empty => temp[w] = <<>>
    /\ \A w \in Workers : pc[w] = "truncate" /\ exp[w] # Empty => list[file[w]] # <<>>

(* A file with lines has somebody to come for them. *)
Attended == \A f \in Files : Live(f) => \E w \in Workers : Ahead(w, f)

(* Every worker has one chance per file, every crash gives it another; the *)
(* worker that takes the last line of a file gives up its chance there.    *)
Budget ==
    stored[Empty] + Cardinality(Chances) + Cardinality(Over)
        <= (Cardinality(Workers) + crashes) * Len(Lists)

EmptyInv == crashes \in Nat /\ Marks /\ Attended /\ Budget

LEMMA Sizes ==
    /\ Len(Lists) \in Nat /\ IsFiniteSet(Files) /\ Cardinality(Files) = Len(Lists)
    /\ Cardinality(Workers) \in Nat
    /\ IsFiniteSet(Chances) /\ Cardinality(Chances) \in Nat
    /\ IsFiniteSet(Over) /\ Cardinality(Over) \in Nat
<1>1. Len(Lists) \in Nat
  BY ListFacts
<1>2. IsFiniteSet(Files) /\ Cardinality(Files) = Len(Lists)
  <2> DEFINE n == Len(Lists)
  <2>1. n \in Nat /\ Files = 1..n
    BY <1>1 DEF Files
  <2> HIDE DEF n
  <2>2. 1 \in Int /\ n \in Int
    BY <2>1
  <2>3. IsFiniteSet(1..n) /\ Cardinality(1..n) = IF 1 > n THEN 0 ELSE n - 1 + 1
    BY <2>2, FS_Interval
  <2>4. IsFiniteSet(Files) /\ Cardinality(Files) = n
    BY <2>1, <2>3
  <2> QED
    BY <2>4 DEF n
<1>3. IsFiniteSet(Workers) /\ Cardinality(Workers) \in Nat
  BY CampaignAssumption, FS_CardinalityType
<1>4. IsFiniteSet(Workers \X Files)
  BY <1>2, <1>3, FS_Product
<1>5. Chances \in SUBSET (Workers \X Files) /\ Over \in SUBSET Files
  BY DEF Chances, Over
<1>6. IsFiniteSet(Chances) /\ IsFiniteSet(Over)
  BY <1>2, <1>4, <1>5, FS_Subset
<1>7. Cardinality(Chances) \in Nat /\ Cardinality(Over) \in Nat
  BY <1>6, FS_CardinalityType
<1> QED
  BY <1>1, <1>2, <1>3, <1>6, <1>7

LEMMA OneLess ==
    ASSUME NEW S, IsFiniteSet(S), NEW T \in SUBSET S, NEW x \in S, x \notin T
    PROVE  Cardinality(T) + 1 <= Cardinality(S)
<1>1. IsFiniteSet(S \ {x}) /\ Cardinality(S \ {x}) = Cardinality(S) - 1
  BY FS_RemoveElement
<1>2. T \in SUBSET (S \ {x})
  OBVIOUS
<1>3. IsFiniteSet(T) /\ Cardinality(T) <= Cardinality(S \ {x})
  BY <1>1, <1>2, FS_Subset
<1>4. Cardinality(S) \in Nat /\ Cardinality(T) \in Nat
  BY <1>3, FS_CardinalityType
<1> QED
  BY <1>1, <1>3, <1>4

LEMMA EmptyInit == Init => EmptyInv
<1>1. SUFFICES ASSUME Init PROVE EmptyInv
  OBVIOUS
<1>2. /\ DOMAIN pc = Workers /\ \A w \in Workers : pc[w] = "checkpoint" /\ file[w] = 1
      /\ stored[Empty] = 0 /\ crashes = 0
  BY <1>1, ZenonT(30) DEF Init
<1>3. Marks
  BY <1>2 DEF Marks, Taking, Taken
<1>4. \A w \in Workers, f \in Files : Ahead(w, f) /\ ~Pending(w, f)
  BY <1>2, ListFacts DEF Ahead, Pending, Taking, Taken, Files
<1>5. Attended
  BY <1>4, CampaignAssumption DEF Attended
<1>6. PICK w \in Workers : TRUE
  BY CampaignAssumption
<1> DEFINE B == {w} \X Over
<1>7. IsFiniteSet({w}) /\ Cardinality({w}) = 1
  BY FS_Singleton
<1>8. IsFiniteSet(B) /\ Cardinality(B) = Cardinality(Over)
  <2>1. IsFiniteSet(B) /\ Cardinality(B) = Cardinality({w}) * Cardinality(Over)
    BY <1>7, Sizes, FS_Product
  <2> QED
    BY <1>7, <2>1, Sizes
<1>9. Chances \cap B = {}
  BY <1>4 DEF Chances, Over
<1>10. IsFiniteSet(Chances \cup B)
       /\ Cardinality(Chances \cup B) = Cardinality(Chances) + Cardinality(Over)
  <2>1. IsFiniteSet(Chances \cup B)
        /\ Cardinality(Chances \cup B)
            = Cardinality(Chances) + Cardinality(B) - Cardinality(Chances \cap B)
    BY <1>8, Sizes, FS_Union, Zenon
  <2>2. Cardinality(Chances \cap B) = 0
    BY <1>9, FS_EmptySet
  <2>3. Cardinality(Chances) \in Nat /\ Cardinality(Over) \in Nat
    BY Sizes
  <2> QED
    BY <1>8, <2>1, <2>2, <2>3
<1>11. IsFiniteSet(Workers \X Files)
       /\ Cardinality(Workers \X Files) = Cardinality(Workers) * Len(Lists)
  <2>1. IsFiniteSet(Workers) /\ IsFiniteSet(Files) /\ Cardinality(Files) = Len(Lists)
    BY Sizes, CampaignAssumption
  <2> QED
    BY <2>1, FS_Product
<1>12. Chances \cup B \in SUBSET (Workers \X Files)
  BY DEF Chances, Over
<1>13. Cardinality(Chances \cup B) <= Cardinality(Workers \X Files)
  BY <1>11, <1>12, FS_Subset
<1>14. Budget
  BY <1>2, <1>10, <1>11, <1>13, Sizes DEF Budget
<1> QED
  BY <1>2, <1>3, <1>5, <1>14, ZenonT(30) DEF EmptyInv

(* No step but a crash gives a worker a chance it did not have.  Whoever   *)
(* makes a file end, or runs without a fault, gives one up.                *)
LEMMA BudgetKept ==
    ASSUME EmptyInv, TakeInv, Chances' \subseteq Chances, crashes' = crashes,
           \/ Over' = Over /\ stored'[Empty] = stored[Empty]
           \/ /\ \E f : Over' = Over \cup {f}
              /\ \E s \in Chances : s \notin Chances'
              /\ stored'[Empty] = stored[Empty]
           \/ /\ Over' = Over
              /\ \E s \in Chances : s \notin Chances'
              /\ stored'[Empty] = stored[Empty] + 1
    PROVE  Budget'
<1> DEFINE c == Cardinality(Chances)
           o == Cardinality(Over)
           bound == (Cardinality(Workers) + crashes) * Len(Lists)
<1>1. stored[Empty] \in Nat /\ c \in Nat /\ o \in Nat /\ stored[Empty] + c + o <= bound
  BY Sizes DEF EmptyInv, Budget, TakeInv, Places
<1>2. bound \in Nat
  BY Sizes DEF EmptyInv
<1>3. IsFiniteSet(Chances') /\ c' <= c
  BY Sizes, FS_Subset
<1>4. c' \in Nat
  BY <1>3, FS_CardinalityType
<1>5. Budget' <=> stored'[Empty] + c' + o' <= bound
  BY DEF Budget
<1> HIDE DEF bound
<1>6. CASE Over' = Over /\ stored'[Empty] = stored[Empty]
  <2>1. stored[Empty] + c' + o <= bound
    BY <1>1, <1>2, <1>3, <1>4, FewerChances, Zenon
  <2> QED BY <1>5, <1>6, <2>1, Zenon
<1>7. ASSUME NEW s \in Chances, s \notin Chances' PROVE c' + 1 <= c
  BY <1>7, Sizes, OneLess, ZenonT(30)
<1>8. CASE /\ \E f : Over' = Over \cup {f}
           /\ \E s \in Chances : s \notin Chances'
           /\ stored'[Empty] = stored[Empty]
  <2>1. PICK f : Over' = Over \cup {f}
    BY <1>8
  <2>2. Cardinality(Over \cup {f}) = IF f \in Over THEN o ELSE o + 1
    BY Sizes, FS_AddElement, Zenon
  <2>3. o' = o \/ o' = o + 1
    BY <2>1, <2>2
  <2>4. c' + 1 <= c
    BY <1>7, <1>8
  <2>5. stored'[Empty] = stored[Empty]
    BY <1>8
  <2> QED
    BY <1>1, <1>2, <1>4, <1>5, <2>3, <2>4, <2>5
<1>9. CASE /\ Over' = Over
           /\ \E s \in Chances : s \notin Chances'
           /\ stored'[Empty] = stored[Empty] + 1
  <2>1. c' + 1 <= c /\ o' = o /\ stored'[Empty] = stored[Empty] + 1
    BY <1>7, <1>9, ZenonT(30)
  <2> QED
    BY <1>1, <1>2, <1>4, <1>5, <2>1
<1> QED
  BY <1>6, <1>8, <1>9, Zenon

(* What leaves the files and the lines that are on their way alone. *)
LEMMA EmptyQuiet ==
    ASSUME EmptyInv, TakeInv, crashes' = crashes, stored'[Empty] = stored[Empty],
           \A f \in Files : Live(f)' <=> Live(f),
           \A v \in Workers, f \in Files : Ahead(v, f)' => Ahead(v, f),
           \A v \in Workers, f \in Files :
                Pending(v, f)' => Pending(v, f) \/ (Live(f) /\ Ahead(v, f)),
           Marks', Attended'
    PROVE  EmptyInv'
<1>1. Over' = Over
  BY ZenonT(30) DEF Over
<1>2. Chances' \subseteq Chances
  BY ZenonT(30) DEF Chances
<1>3. Budget'
  BY <1>1, <1>2, BudgetKept, ZenonT(30)
<1> QED
  BY <1>3, ZenonT(30) DEF EmptyInv
(* A worker that takes its next step in the loop of its file. *)
LEMMA EmptyOnward ==
    ASSUME EmptyInv, TakeInv, NEW w \in Workers,
           NEW to \in {"test", "lock", "read", "simulate", "store"},
           pc' = [pc EXCEPT ![w] = to], UNCHANGED <<list, file, exp, temp, stored, crashes>>,
           \/ pc[w] \in {"checkpoint", "test"} /\ to = "test"
           \/ pc[w] = "test" /\ to = "lock" /\ list[file[w]] # <<>>
           \/ pc[w] = "lock" /\ to = "read"
           \/ pc[w] = "unlock" /\ to = "simulate"
           \/ pc[w] = "simulate" /\ to = "store"
    PROVE  EmptyInv'
<1>1. DOMAIN pc = Workers /\ file \in [Workers -> Files]
  BY DEF TakeInv, Places
<1>2. \A f \in Files : Live(f)' <=> Live(f)
  BY <1>1 DEF Live
<1>3. \A v \in Workers, f \in Files : Ahead(v, f)' <=> Ahead(v, f)
  BY <1>1, ZenonT(30) DEF Ahead
<1>4. ASSUME NEW v \in Workers, NEW f \in Files, Pending(v, f)'
      PROVE  Pending(v, f) \/ (Live(f) /\ Ahead(v, f))
  <2>1. CASE v # w
    BY <1>1, <1>4, <2>1, ZenonT(30) DEF Pending
  <2>2. CASE v = w
    <3>1. file[w] = f /\ pc'[w] = to
      BY <1>1, <1>4, <2>2, ZenonT(30) DEF Pending
    <3>2. CASE to = "lock"
      <4>1. Live(f)
        BY <3>1, <3>2 DEF Live
      <4>2. Ahead(w, f)
        BY <1>1, <3>1, <3>2 DEF Ahead, Files
      <4> QED
        BY <2>2, <4>1, <4>2
    <3>3. CASE to # "lock"
      BY <1>1, <1>4, <2>2, <3>1, <3>3, ZenonT(30) DEF Pending, Taking, Taken
    <3> QED
      BY <3>2, <3>3
  <2> QED
    BY <2>1, <2>2, ZenonT(30)
<1>5. Marks'
  BY <1>1, <1>2, ZenonT(30) DEF EmptyInv, Marks, Taking, Taken
<1>6. Attended'
  BY <1>2, <1>3, ZenonT(30) DEF EmptyInv, Attended
<1> QED
  BY <1>2, <1>3, <1>4, <1>5, <1>6, EmptyQuiet, ZenonT(30)

(* The worker goes past a file that is empty, or is being rewritten by     *)
(* another worker.                                                         *)
LEMMA EmptyPast ==
    ASSUME EmptyInv, TakeInv, NEW w \in Workers, NEW to \in {"test", "done"},
           pc[w] = "test", pc' = [pc EXCEPT ![w] = to], list[file[w]] = <<>>,
           \/ to = "test" /\ file' = [file EXCEPT ![w] = @ + 1]
           \/ to = "done" /\ file' = file /\ file[w] = Len(Lists),
           UNCHANGED <<list, exp, temp, stored, crashes>>
    PROVE  EmptyInv'
<1>1. DOMAIN pc = Workers /\ file \in [Workers -> Files] /\ Files = 1..Len(Lists)
      /\ Len(Lists) \in Nat
  BY ListFacts, ZenonT(30) DEF TakeInv, Places, Files
<1>2. \A v \in Workers : v # w => pc'[v] = pc[v] /\ file'[v] = file[v]
  BY <1>1
<1>3. pc'[w] \in {"test", "done"}
  BY <1>1
<1>4. \A f \in Files : Live(f)' <=> Live(f)
  BY <1>2, <1>3 DEF Live
<1>5. ASSUME NEW f \in Files PROVE Ahead(w, f)' <=> f > file[w]
  BY <1>1, <1>2, <1>3 DEF Ahead
<1>6. \A v \in Workers, f \in Files : Ahead(v, f)' => Ahead(v, f)
  BY <1>1, <1>2, <1>5 DEF Ahead
<1>7. \A v \in Workers, f \in Files : Pending(v, f)' => Pending(v, f)
  BY <1>2, <1>3, ZenonT(30) DEF Pending, Taking, Taken
<1>8. Marks'
  BY <1>1, <1>2, <1>3, <1>4, ZenonT(30) DEF EmptyInv, Marks, Taking, Taken
<1>9. Attended'
  <2>1. SUFFICES ASSUME NEW f \in Files, Live(f) PROVE \E v \in Workers : Ahead(v, f)'
    BY <1>4 DEF Attended
  <2>2. PICK v \in Workers : Ahead(v, f)
    BY <2>1 DEF EmptyInv, Attended
  <2>3. CASE v # w
    BY <1>2, <2>2, <2>3, ZenonT(30) DEF Ahead
  <2>4. CASE v = w /\ f = file[w]
    <3>1. PICK u \in Workers : pc[u] = "move" /\ file[u] = f
      BY <2>1, <2>4 DEF Live
    <3>2. Ahead(u, f)'
      BY <1>1, <1>2, <3>1 DEF Ahead
    <3> QED
      BY <3>2
  <2>5. CASE v = w /\ f # file[w]
    <3>1. file[w] <= f
      BY <2>2, <2>5, ZenonT(30) DEF Ahead
    <3> QED
      BY <1>1, <1>5, <2>5, <3>1
  <2> QED
    BY <2>3, <2>4, <2>5, ZenonT(30)
<1> QED
  BY <1>4, <1>6, <1>7, <1>8, <1>9, EmptyQuiet, ZenonT(30)

LEMMA EmptyRead ==
    ASSUME EmptyInv, TakeInv, NEW w \in Workers, Read(w)
    PROVE  EmptyInv'
<1> DEFINE l == list[file[w]]
<1>1. /\ pc[w] = "read" /\ UNCHANGED <<list, file, stored, crashes>>
      /\ \E to \in Taking : pc' = [pc EXCEPT ![w] = to]
      /\ exp' = [exp EXCEPT ![w] = IF l = <<>> THEN Empty ELSE l[Len(l)]]
      /\ temp' = [temp EXCEPT ![w] = IF l = <<>> THEN <<>> ELSE SubSeq(l, 1, Len(l) - 1)]
  BY ZenonT(30) DEF Read, Goto, results, faultVars, Taking
<1>2. /\ DOMAIN pc = Workers /\ DOMAIN exp = Workers /\ DOMAIN temp = Workers
      /\ file \in [Workers -> Files]
  BY DEF TakeInv, Places
<1>3. /\ \A v \in Workers : v # w => pc'[v] = pc[v] /\ exp'[v] = exp[v] /\ temp'[v] = temp[v]
      /\ pc'[w] \in Taking /\ file' = file
  BY <1>1, <1>2
<1>4. l = <<>> => exp'[w] = Empty /\ temp'[w] = <<>>
  BY <1>1, <1>2
<1>5. l # <<>> => exp'[w] # Empty
  <2>1. l \in Seq(Experiments)
    BY <1>2 DEF TakeInv, Lines, Rest
  <2>2. l # <<>> => l[Len(l)] \in Experiments
    BY <2>1
  <2> QED
    BY <1>1, <1>2, <2>2, CampaignAssumption, ZenonT(30)
<1>6. \A f \in Files : Live(f)' <=> Live(f)
  BY <1>1, <1>3, <1>4, ZenonT(30) DEF Live
<1>7. \A v \in Workers, f \in Files : Ahead(v, f)' <=> Ahead(v, f)
  BY <1>1, <1>3, ZenonT(30) DEF Ahead, Taking
<1>8. \A v \in Workers, f \in Files : Pending(v, f)' => Pending(v, f)
  BY <1>1, <1>3, ZenonT(30) DEF Pending, Taking, Taken
<1>9. ASSUME l = <<>> PROVE ~Live(file[w])
  BY <1>1, <1>9, Alone, ZenonT(30) DEF Live, TakeInv, Critical
<1>10. Marks'
  <2> SUFFICES ASSUME NEW v \in Workers
               PROVE  /\ pc'[v] \in Taking \cup Taken /\ exp'[v] = Empty => ~Live(file[v])'
                      /\ pc'[v] \in Taking /\ exp'[v] = Empty => temp'[v] = <<>>
                      /\ pc'[v] = "truncate" /\ exp'[v] # Empty => list[file[v]] # <<>>
    BY <1>1, Zenon DEF Marks
  <2>1. file[v] \in Files /\ (Live(file[v])' <=> Live(file[v]))
    BY <1>1, <1>2, <1>6, Zenon DEF Live
  <2>2. CASE v # w
    BY <1>3, <2>1, <2>2, Zenon DEF EmptyInv, Marks
  <2>3. CASE v = w
    BY <1>4, <1>5, <1>9, <2>1, <2>3, Zenon
  <2> QED BY <2>2, <2>3, Zenon
<1>11. Attended'
  BY <1>6, <1>7 DEF EmptyInv, Attended
<1> QED
  BY <1>1, <1>6, <1>7, <1>8, <1>10, <1>11, EmptyQuiet, ZenonT(30)
(* Rewriting the file gives up no line but the one taken: if that was the  *)
(* last, the file is over and its taker has no chance left there.          *)
LEMMA EmptyRewrite ==
    ASSUME EmptyInv, TakeInv, NEW w \in Workers, Truncate(w) \/ Move(w)
    PROVE  EmptyInv'
<1>0. PICK g \in Files : g = file[w]
  BY DEF TakeInv, Places
<1>1. /\ UNCHANGED <<file, exp, temp, stored, crashes>>
      /\ \/ /\ pc[w] = "truncate" /\ pc' = [pc EXCEPT ![w] = "move"]
            /\ list' = [list EXCEPT ![g] = <<>>]
         \/ /\ pc[w] = "move" /\ pc' = [pc EXCEPT ![w] = "unlock"]
            /\ list' = [list EXCEPT ![g] = temp[w]]
  BY <1>0 DEF Truncate, Move, Goto, core, results, faultVars
<1>2. /\ DOMAIN pc = Workers /\ DOMAIN list = Files /\ file \in [Workers -> Files]
      /\ Files = 1..Len(Lists) /\ Len(Lists) \in Nat
  BY ListFacts, Zenon DEF TakeInv, Places, Files
<1>3. /\ \A v \in Workers : v # w => pc'[v] = pc[v]
      /\ pc'[w] \in {"move", "unlock"} /\ pc[w] \in Taking
      /\ \A f \in Files : f # g => list'[f] = list[f]
  BY <1>1, <1>2 DEF Taking
<1>4. \A v \in Workers : v # w => pc[v] \notin Critical
  BY <1>3, Alone, ZenonT(30) DEF TakeInv, Taking, Critical
<1>5. \A f \in Files : f # g => (Live(f)' <=> Live(f))
  BY <1>0, <1>1, <1>3, <1>4, ZenonT(30) DEF Live, Critical
<1>6. Live(g)' => Live(g)
  <2>1. exp[w] = Empty => temp[w] = <<>>
    BY <1>3, ZenonT(30) DEF EmptyInv, Marks
  <2>2. CASE pc[w] = "truncate"
    <3>1. exp[w] # Empty => list[g] # <<>>
      BY <1>0, <2>2 DEF EmptyInv, Marks
    <3>2. list'[g] = <<>> /\ temp' = temp /\ file' = file
      BY <1>1, <1>2, <2>2
    <3>3. Live(g)' => temp[w] # <<>>
      BY <1>3, <1>4, <3>2, ZenonT(30) DEF Live, Critical
    <3> QED
      BY <1>0, <1>1, <2>1, <2>2, <3>1, <3>3, ZenonT(30) DEF Live
  <2>3. CASE pc[w] = "move"
    <3>1. list'[g] = temp[w] /\ pc'[w] = "unlock"
      BY <1>1, <1>2, <2>3, ZenonT(30)
    <3>2. Live(g)' => temp[w] # <<>>
      BY <1>3, <1>4, <3>1, ZenonT(30) DEF Live, Critical
    <3> QED
      BY <1>0, <2>3, <3>2, ZenonT(30) DEF Live
  <2> QED
    BY <1>1, <2>2, <2>3, ZenonT(30)
<1>7. \A v \in Workers, f \in Files : Ahead(v, f)' <=> Ahead(v, f)
  BY <1>1, <1>3, ZenonT(30) DEF Ahead, Taking
<1>8. \A v \in Workers, f \in Files : Pending(v, f)' <=> Pending(v, f)
  <2>1. pc'[w] \in Taking \cup Taken /\ pc[w] \in Taking \cup Taken
        /\ pc'[w] \notin {"lock", "read"} /\ pc[w] \notin {"lock", "read"}
    BY <1>3 DEF Taking, Taken
  <2> QED
    BY <1>1, <1>3, <2>1 DEF Pending
<1>9. Chances' \subseteq Chances
  BY <1>5, <1>6, <1>7, <1>8 DEF Chances
<1>10. Budget'
  <2>1. CASE Live(g)' <=> Live(g)
    <3>1. Over' = Over
      BY <1>5, <2>1, ZenonT(30) DEF Over
    <3> QED
      BY <1>1, <1>9, <3>1, BudgetKept
  <2>2. CASE ~(Live(g)' <=> Live(g))
    <3>1. Live(g) /\ ~Live(g)'
      BY <1>6, <2>2
    <3>2. Over' = Over \cup {g}
      BY <1>2, <1>5, <3>1 DEF Over
    <3>3. Ahead(w, g)
      BY <1>0, <1>2, <1>3 DEF Ahead, Taking
    <3>4. ~Pending(w, g)'
      BY <1>0, <1>3, <1>8, <3>1, ZenonT(30) DEF EmptyInv, Marks, Pending, Taking
    <3>5. <<w, g>> \in Chances /\ <<w, g>> \notin Chances'
      BY <1>2, <3>1, <3>3, <3>4, ZenonT(30) DEF Chances
    <3> QED
      BY <1>1, <1>9, <3>2, <3>5, BudgetKept, Zenon
  <2> QED
    BY <2>1, <2>2, ZenonT(30)
<1>11. Marks'
  <2>1. \A v \in Workers : pc'[v] \in Taking \cup Taken => pc[v] \in Taking \cup Taken
    BY <1>3
  <2>2. \A v \in Workers : pc'[v] \in Taking => pc[v] \in Taking
    BY <1>3
  <2>3. \A v \in Workers : pc'[v] # "truncate"
    BY <1>3, <1>4 DEF Critical
  <2>4. \A f \in Files : Live(f)' => Live(f)
    BY <1>5, <1>6
  <2> QED
    BY <1>1, <1>2, <2>1, <2>2, <2>3, <2>4, ZenonT(30) DEF EmptyInv, Marks
<1>12. Attended'
  BY <1>5, <1>6, <1>7, ZenonT(30) DEF EmptyInv, Attended
<1> QED
  BY <1>1, <1>10, <1>11, <1>12 DEF EmptyInv

LEMMA EmptyStore ==
    ASSUME EmptyInv, TakeInv, NEW w \in Workers, Store(w)
    PROVE  EmptyInv'
<1>0. PICK g \in Files : g = file[w]
  BY DEF TakeInv, Places
<1>1. /\ pc[w] = "store" /\ pc' = [pc EXCEPT ![w] = "test"]
      /\ UNCHANGED <<list, file, exp, temp, crashes>>
      /\ stored' = stored \/ stored' = [stored EXCEPT ![exp[w]] = @ + 1]
  BY ZenonT(30) DEF Store, Deliver, Goto, faultVars
<1>2. /\ DOMAIN pc = Workers /\ file \in [Workers -> Files] /\ Files = 1..Len(Lists)
      /\ Len(Lists) \in Nat /\ stored \in [Experiments \cup {Empty} -> Nat]
  BY ListFacts DEF TakeInv, Places, Files
<1>3. pc'[w] = "test" /\ \A v \in Workers : v # w => pc'[v] = pc[v]
  BY <1>1, <1>2
<1>4. \A f \in Files : Live(f)' <=> Live(f)
  BY <1>1, <1>3, ZenonT(30) DEF Live
<1>5. \A v \in Workers, f \in Files : Ahead(v, f)' <=> Ahead(v, f)
  BY <1>1, <1>3, ZenonT(30) DEF Ahead
<1>6. \A v \in Workers, f \in Files : Pending(v, f)' => Pending(v, f)
  BY <1>1, <1>3, ZenonT(30) DEF Pending, Taking, Taken
<1>7. Marks'
  BY <1>1, <1>2, <1>3, <1>4 DEF EmptyInv, Marks, Taking, Taken
<1>8. Attended'
  BY <1>4, <1>5 DEF EmptyInv, Attended
<1>9. CASE stored'[Empty] = stored[Empty]
  BY <1>1, <1>4, <1>5, <1>6, <1>7, <1>8, <1>9, EmptyQuiet, ZenonT(30)
<1>10. CASE stored'[Empty] # stored[Empty]
  <2>1. exp[w] = Empty /\ stored'[Empty] = stored[Empty] + 1
    BY <1>1, <1>2, <1>10, ZenonT(30)
  <2>2. ~Live(g)' /\ ~Pending(w, g)' /\ Pending(w, g)
    BY <1>0, <1>1, <1>2, <1>3, <1>4, <2>1, ZenonT(30) DEF EmptyInv, Marks, Pending, Taking, Taken
  <2>3. <<w, g>> \in Chances /\ <<w, g>> \notin Chances'
    BY <1>2, <2>2, ZenonT(30) DEF Chances
  <2>4. Over' = Over /\ Chances' \subseteq Chances
    BY <1>4, <1>5, <1>6, ZenonT(30) DEF Over, Chances
  <2>5. Budget'
    BY <1>1, <2>1, <2>3, <2>4, BudgetKept, ZenonT(30)
  <2> QED
    BY <1>1, <1>7, <1>8, <2>5, ZenonT(30) DEF EmptyInv
<1> QED
  BY <1>9, <1>10

(* A crash gives back to the worker the chances at the files that live. *)
LEMMA EmptyCrash ==
    ASSUME EmptyInv, TakeInv, NEW w \in Workers, Crash(w)
    PROVE  EmptyInv'
<1>1. /\ pc' = [pc EXCEPT ![w] = "dead"] /\ crashes' = crashes + 1
      /\ UNCHANGED <<list, file, exp, temp, stored>>
  BY DEF Crash, core, results
<1>2. DOMAIN pc = Workers /\ file \in [Workers -> Files] /\ stored[Empty] \in Nat
      /\ crashes \in Nat
  BY DEF TakeInv, Places, EmptyInv
<1>3. pc'[w] = "dead" /\ \A v \in Workers : v # w => pc'[v] = pc[v]
  BY <1>1, <1>2, ZenonT(30)
<1>4. \A f \in Files : Live(f)' => Live(f)
  BY <1>1, <1>3, ZenonT(30) DEF Live
<1>5. \A v \in Workers, f \in Files : v # w =>
          /\ Ahead(v, f)' => Ahead(v, f)
          /\ Pending(v, f)' => Pending(v, f)
  BY <1>1, <1>3 DEF Ahead, Pending
<1>6. \A f \in Files : Ahead(w, f)' /\ ~Pending(w, f)'
  BY <1>3, ZenonT(30) DEF Ahead, Pending, Taking, Taken
<1>7. Marks'
  BY <1>1, <1>2, <1>3, <1>4 DEF EmptyInv, Marks, Taking, Taken
<1>8. Attended'
  BY <1>6 DEF Attended
<1> DEFINE alive == Files \ Over'
           back == {w} \X alive
<1>9. Chances' \in SUBSET (Chances \cup back)
  BY <1>4, <1>5, <1>6 DEF Chances, Over
<1>10. Over' \in SUBSET Files
  BY DEF Over
<1> HIDE DEF alive
<1>11. /\ IsFiniteSet(alive) /\ Cardinality(alive) \in Nat
       /\ Cardinality(Over') = Len(Lists) - Cardinality(alive)
  <2>1. IsFiniteSet(alive) /\ Cardinality(alive) = Cardinality(Files) - Cardinality(Files \cap Over')
    BY Sizes, FS_Difference, Zenon DEF alive
  <2>2. Files \cap Over' = Over'
    BY <1>10
  <2>3. IsFiniteSet(Over')
    BY <1>10, Sizes, FS_Subset
  <2>4. Cardinality(Over') \in Nat /\ Cardinality(alive) \in Nat
    BY <2>1, <2>3, FS_CardinalityType, ZenonT(30)
  <2> QED
    <3>1. Cardinality(Files) = Len(Lists) /\ Len(Lists) \in Nat
      BY Sizes
    <3>2. Cardinality(alive) = Len(Lists) - Cardinality(Over')
      BY <2>1, <2>2, <3>1, Zenon
    <3> QED
      BY <2>1, <2>4, <3>1, <3>2
<1>12. IsFiniteSet(back) /\ Cardinality(back) = Cardinality(alive)
  <2>1. IsFiniteSet({w}) /\ Cardinality({w}) = 1
    BY FS_Singleton, Zenon
  <2>2. IsFiniteSet(back) /\ Cardinality(back) = Cardinality({w}) * Cardinality(alive)
    BY <1>11, <2>1, FS_Product
  <2> QED
    BY <1>11, <2>1, <2>2
<1> HIDE DEF back
<1>13. /\ IsFiniteSet(Chances \cup back)
       /\ Cardinality(Chances \cup back) <= Cardinality(Chances) + Cardinality(back)
  <2>1. /\ IsFiniteSet(Chances \cup back)
        /\ Cardinality(Chances \cup back)
            = Cardinality(Chances) + Cardinality(back) - Cardinality(Chances \cap back)
    BY <1>12, Sizes, FS_Union, Zenon
  <2>2. IsFiniteSet(Chances \cap back)
    BY <1>12, FS_Subset
  <2>3. Cardinality(Chances \cap back) \in Nat
    BY <2>2, FS_CardinalityType
  <2>4. Cardinality(Chances) \in Nat /\ Cardinality(back) \in Nat
    BY <1>11, <1>12, Sizes
  <2> QED
    BY <2>1, <2>3, <2>4
<1>14. IsFiniteSet(Chances') /\ Cardinality(Chances') <= Cardinality(Chances \cup back)
  BY <1>9, <1>13, FS_Subset
<1>15. Cardinality(Chances') \in Nat /\ Cardinality(Chances \cup back) \in Nat
  BY <1>13, <1>14, FS_CardinalityType, ZenonT(30)
<1>16. stored[Empty] + Cardinality(Chances)
           <= (Cardinality(Workers) + crashes) * Len(Lists)
  <2>1. (Cardinality(Workers) + crashes) * Len(Lists) \in Nat
    BY <1>2, Sizes
  <2>2. stored[Empty] + Cardinality(Chances) + Cardinality(Over)
            <= (Cardinality(Workers) + crashes) * Len(Lists)
    BY Zenon DEF EmptyInv, Budget
  <2> QED
    BY <1>2, <2>1, <2>2, Sizes, DropLast, Zenon
<1>17. (Cardinality(Workers) + crashes') * Len(Lists)
           = (Cardinality(Workers) + crashes) * Len(Lists) + Len(Lists)
  BY <1>1, <1>2, Sizes
<1>18. Budget'
  <2>1. (Cardinality(Workers) + crashes) * Len(Lists) \in Nat
    BY <1>2, Sizes
  <2>2. Len(Lists) \in Nat /\ Cardinality(Chances) \in Nat
    BY Sizes, Zenon
  <2>3. stored[Empty] + Cardinality(Chances') + Cardinality(Over')
            <= (Cardinality(Workers) + crashes) * Len(Lists) + Len(Lists)
    <3>1. Cardinality(Chances \cup back) <= Cardinality(Chances) + Cardinality(alive)
      BY <1>12, <1>13, Zenon
    <3>2. /\ stored[Empty] \in Nat /\ Cardinality(Chances') \in Nat /\ Cardinality(alive) \in Nat
          /\ Cardinality(Chances \cup back) \in Nat
          /\ Cardinality(Chances') <= Cardinality(Chances \cup back)
          /\ Cardinality(Over') = Len(Lists) - Cardinality(alive)
      BY <1>2, <1>11, <1>14, <1>15, Zenon
    <3>3. Cardinality(Chances') <= Cardinality(Chances) + Cardinality(alive)
      BY <2>2, <3>1, <3>2, AtMostSum, Zenon
    <3>4. stored[Empty] + Cardinality(Chances') + (Len(Lists) - Cardinality(alive))
              <= (Cardinality(Workers) + crashes) * Len(Lists) + Len(Lists)
      BY <1>16, <2>1, <2>2, <3>2, <3>3, BackAtMost, Zenon
    <3> QED BY <3>2, <3>4, Zenon
  <2> QED
    BY <1>1, <1>17, <2>3, Zenon DEF Budget
<1> QED
  BY <1>1, <1>2, <1>7, <1>8, <1>18, Successor, Zenon DEF EmptyInv

LEMMA EmptyRestart ==
    ASSUME EmptyInv, TakeInv, NEW w \in Workers, Restart(w)
    PROVE  EmptyInv'
<1>1. /\ pc[w] = "dead" /\ pc' = [pc EXCEPT ![w] = "checkpoint"]
      /\ file' = [file EXCEPT ![w] = 1] /\ UNCHANGED <<list, exp, temp, stored, crashes>>
  BY Zenon DEF Restart, Goto, results
<1>2. DOMAIN pc = Workers /\ DOMAIN file = Workers
  BY DEF TakeInv, Places
<1>3. /\ pc'[w] = "checkpoint" /\ file'[w] = 1
      /\ \A v \in Workers : v # w => pc'[v] = pc[v] /\ file'[v] = file[v]
  BY <1>1, <1>2, ZenonT(30)
<1>4. \A f \in Files : Live(f)' <=> Live(f)
  BY <1>1, <1>3, ZenonT(30) DEF Live
<1>5. \A f \in Files : Ahead(w, f)' /\ Ahead(w, f)
  BY <1>1, <1>3, ListFacts DEF Ahead, Files
<1>6. \A v \in Workers, f \in Files : Ahead(v, f)' <=> Ahead(v, f)
  BY <1>3, <1>5 DEF Ahead
<1>7. \A v \in Workers, f \in Files : Pending(v, f)' => Pending(v, f)
  BY <1>1, <1>3 DEF Pending, Taking, Taken
<1>8. file \in [Workers -> Files]
  BY ZenonT(30) DEF TakeInv, Places
<1>9. Marks'
  BY <1>1, <1>3, <1>4, <1>8, ZenonT(30) DEF EmptyInv, Marks, Taking, Taken
<1>10. Attended'
  BY <1>4, <1>6 DEF EmptyInv, Attended
<1> QED
  BY <1>1, <1>4, <1>6, <1>7, <1>9, <1>10, EmptyQuiet, ZenonT(30)
LEMMA EmptyStep ==
    ASSUME EmptyInv, TakeInv, [Next]_vars
    PROVE  EmptyInv'
<1> USE DEF Goto, core, results, faultVars
<1>1. ASSUME NEW w \in Workers, Checkpoint(w) PROVE EmptyInv'
  BY <1>1, EmptyOnward, Zenon DEF Checkpoint
<1>2. ASSUME NEW w \in Workers, Test(w) PROVE EmptyInv'
  <2>1. CASE pc' = [pc EXCEPT ![w] = "lock"] /\ list[file[w]] # <<>> /\ UNCHANGED file
    BY <1>2, <2>1, EmptyOnward, Zenon DEF Test
  <2>2. CASE pc' = [pc EXCEPT ![w] = "test"] /\ list[file[w]] = <<>>
             /\ file' = [file EXCEPT ![w] = @ + 1]
    BY <1>2, <2>2, EmptyPast, Zenon DEF Test
  <2>3. CASE pc' = [pc EXCEPT ![w] = "done"] /\ list[file[w]] = <<>>
             /\ UNCHANGED file /\ file[w] = Len(Lists)
    BY <1>2, <2>3, EmptyPast, Zenon DEF Test
  <2> QED
    BY <1>2, <2>1, <2>2, <2>3, ZenonT(30) DEF Test
<1>3. ASSUME NEW w \in Workers, Lock(w) PROVE EmptyInv'
  BY <1>3, EmptyOnward, Zenon DEF Lock
<1>4. ASSUME NEW w \in Workers, Unlock(w) PROVE EmptyInv'
  BY <1>4, EmptyOnward, Zenon DEF Unlock
<1>5. ASSUME NEW w \in Workers, Simulate(w) PROVE EmptyInv'
  BY <1>5, EmptyOnward, Zenon DEF Simulate
<1>6. ASSUME UNCHANGED <<list, pc, file, exp, temp, stored, crashes>> PROVE EmptyInv'
  BY <1>6, ZenonT(30) DEF EmptyInv, Marks, Attended, Budget, Chances, Over, Live, Ahead, Pending
<1>7. ASSUME NEW w \in Workers, OrphanWrites(w) PROVE EmptyInv'
  BY <1>6, <1>7 DEF OrphanWrites
<1>8. CASE UNCHANGED vars
  BY <1>6, <1>8 DEF vars
<1> QED
  BY <1>1, <1>2, <1>3, <1>4, <1>5, <1>7, <1>8, EmptyRead, EmptyRewrite, EmptyStore,
     EmptyCrash, EmptyRestart, ZenonT(30) DEF Next, Step

(* A list that empties between the test and the lock makes a worker run an *)
(* experiment without a fault at most once per file and start of a worker, *)
(* and for every file one worker, who took its last line, never does: for  *)
(* any number of workers, files and crashes, with or without a copying mv. *)
THEOREM FaultFreeRuns == Spec => []EmptyRunsBounded
<1>1. TakeInv /\ EmptyInv => EmptyRunsBounded
  <2>1. SUFFICES ASSUME TakeInv, EmptyInv PROVE EmptyRunsBounded
    OBVIOUS
  <2> DEFINE alive == Files \ Over
             who == [f \in alive |-> <<CHOOSE w \in Workers : Ahead(w, f), f>>]
  <2>2. who \in Injection(alive, Chances)
    <3>1. ASSUME NEW f \in alive PROVE who[f] \in Chances /\ who[f][2] = f
      <4>1. f \in Files /\ Live(f)
        BY DEF Over
      <4>2. \E w \in Workers : Ahead(w, f)
        BY <2>1, <4>1 DEF EmptyInv, Attended
      <4> QED
        BY <4>1, <4>2 DEF Chances
    <3> QED
      BY <3>1 DEF Injection, IsInjective
  <2> HIDE DEF who
  <2>3. Cardinality(alive) <= Cardinality(Chances) /\ IsFiniteSet(alive)
    BY <2>2, Sizes, FS_Injection
  <2>4. Cardinality(alive) = Len(Lists) - Cardinality(Over)
    <3>1. Cardinality(alive) = Cardinality(Files) - Cardinality(Files \cap Over)
      BY Sizes, FS_Difference, Zenon
    <3>2. Files \cap Over = Over
      BY DEF Over
    <3> QED
      BY <3>1, <3>2, Sizes, Zenon
  <2> DEFINE l == Len(Lists)
             n == Cardinality(Workers)
  <2>5. /\ stored[Empty] \in Nat /\ crashes \in Nat /\ n \in Nat /\ l \in Nat
        /\ Cardinality(alive) \in Nat /\ Cardinality(Chances) \in Nat
        /\ Cardinality(Over) \in Nat
    BY <2>1, <2>3, Sizes, FS_CardinalityType DEF TakeInv, Places, EmptyInv
  <2>6. stored[Empty] + Cardinality(Chances) + Cardinality(Over) <= (n + crashes) * l
    BY <2>1 DEF EmptyInv, Budget
  <2> HIDE DEF alive, l, n
  <2>7. Cardinality(alive) = l - Cardinality(Over)
    BY <2>4 DEF l
  <2>8. (n + crashes) * l = (n - 1 + crashes) * l + l /\ (n - 1 + crashes) * l \in Int
    BY <2>5
  <2>9. stored[Empty] <= (n - 1 + crashes) * l
    BY <2>3, <2>5, <2>6, <2>7, <2>8
  <2> QED
    BY <2>9 DEF EmptyRunsBounded, l, n
<1>2. TakeInv /\ EmptyInv /\ [Next]_vars => EmptyInv'
  BY EmptyStep
<1> QED
  BY <1>1, <1>2, EmptyInit, TakeInvariance, PTL DEF Spec

=============================================================================
