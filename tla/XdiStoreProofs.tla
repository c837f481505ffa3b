--------------------------- MODULE XdiStoreProofs ---------------------------
(***************************************************************************)
(* The safety of XdiStore, for any number of projects, folders, roots,     *)
(* events and operations.                                                  *)
(*                                                                         *)
(* The properties are about the fields of the store that name the project  *)
(* shown, the snapshots held and the operations to write (the core fields).*)
(* The inductive invariant is a predicate on a store, Good(s), so that each*)
(* handler has one lemma, whoever calls it.                                *)
(*                                                                         *)
(* What is shown once nothing is under way is proved from a second         *)
(* invariant, SInv, which says of every state what the store still owes and*)
(* which task, message or debounce will pay it.                            *)
(***************************************************************************)
EXTENDS XdiStore, SequenceTheorems, TLAPS

\* The stores s and t have the same core fields.
SameCore(s, t) ==
    /\ t.active = s.active /\ t.snapshot = s.snapshot /\ t.migration = s.migration
    /\ t.look = s.look /\ t.queue = s.queue /\ t.write = s.write

\* Two snapshots with one address are one snapshot.
OneAddress(s) == \A a, b \in Held(s) : a.id = b.id => a = b

\* What is shown, looked at and written is of the project shown, and a look is
\* never under way beside a write.
Proper(s) ==
    /\ s.snapshot # None => s.snapshot.project = s.active
    /\ s.migration # None => s.migration.snapshot.project = s.active
    /\ s.look # None => s.look.snapshot.project = s.look.project
    /\ s.write # None => s.look = None
    /\ s.write # None /\ s.write.found # None => s.write.result # None
    /\ s.write # None => s.write.op.of = s.write.snapshot.project
    /\ s.migration # None => \A i \in 1..Len(s.queue) : s.queue[i].of = s.active
    /\ OneAddress(s)

\* ... and nothing waits in the queue beside no write.
Good(s) == Proper(s) /\ (s.queue # <<>> => s.write # None)

\* The operations that wait are in the order asked, after the one being
\* written, which comes after the last one written.
Ordered(s, a, w) ==
    /\ w <= a
    /\ \A i \in 1..Len(s.queue) : w < s.queue[i].id /\ s.queue[i].id <= a
    /\ \A i, j \in 1..Len(s.queue) : i < j => s.queue[i].id < s.queue[j].id
    /\ s.write # None =>
          /\ s.write.op.id <= a
          /\ s.write.result = None => w < s.write.op.id
          /\ \A i \in 1..Len(s.queue) : s.write.op.id < s.queue[i].id

-----------------------------------------------------------------------------
(* The snapshots held *)

\* The members of Held, one holder at a time.
LEMMA HeldMembers ==
    ASSUME NEW s \in Store, NEW x
    PROVE  x \in Held(s) <=>
              \/ s.snapshot # None /\ x = s.snapshot
              \/ s.migration # None /\ x = s.migration.snapshot
              \/ s.look # None /\ x = s.look.snapshot
              \/ s.write # None /\ x = s.write.snapshot
BY Zenon DEF Held

\* Snapshots of the same holders are one address each, and holders let go of
\* keep it so.
LEMMA OneAddressShrinks ==
    ASSUME NEW s \in Store, NEW t \in Store, OneAddress(s), Held(t) \subseteq Held(s)
    PROVE  OneAddress(t)
BY DEF OneAddress

\* A store with the same core fields is as good.
LEMMA Frame ==
    ASSUME NEW s \in Store, NEW t \in Store, NEW a \in Nat, NEW w \in Nat,
           SameCore(s, t), Good(s), Ordered(s, a, w)
    PROVE  Good(t) /\ Ordered(t, a, w)
<1>1. Held(t) = Held(s)
  BY Zenon DEF Held, SameCore
<1>2. OneAddress(t)
  BY <1>1 DEF OneAddress, Proper, Good
<1>3. Ordered(t, a, w)
  BY Zenon DEF SameCore, Ordered
<1>4. QED
  BY <1>2, <1>3, Zenon DEF SameCore, Good, Proper

-----------------------------------------------------------------------------
(* The handlers keep the store's type, and touch only their own fields *)

\* Reload(s) is a store with the core fields of s.
LEMMA ReloadType ==
    ASSUME NEW s \in Store
    PROVE  Reload(s) \in Store /\ SameCore(s, Reload(s))
<1>1. s.active # None => RootsOf(s, s.active) \in Roots
  BY ConstantsAssumption DEF RootsOf, Store, Opt
<1>2. CASE s.active = None
  BY <1>2 DEF Reload, SameCore
<1>3. CASE s.active # None /\ s.load # None
  BY <1>3 DEF Reload, Store, SameCore
<1>4. CASE s.active # None /\ s.load = None
  <2>1. [project |-> s.active, roots |-> RootsOf(s, s.active), read |-> None] \in Load
    BY <1>1, <1>4 DEF Load, Opt, Store
  <2> QED BY <1>4, <2>1 DEF Reload, Store, Opt, SameCore
<1> QED BY <1>2, <1>3, <1>4

\* Reading again keeps the invariant.
LEMMA ReloadGood ==
    ASSUME NEW s \in Store, NEW a \in Nat, NEW w \in Nat, Good(s), Ordered(s, a, w)
    PROVE  Reload(s) \in Store /\ Good(Reload(s)) /\ Ordered(Reload(s), a, w)
BY ReloadType, Frame, Zenon

\* Working the migration out again keeps the invariant.
LEMMA RefreshGood ==
    ASSUME NEW s \in Store, NEW a \in Nat, NEW w \in Nat, Good(s), Ordered(s, a, w)
    PROVE  /\ RefreshMigration(s) \in Store
           /\ Good(RefreshMigration(s)) /\ Ordered(RefreshMigration(s), a, w)
<1> DEFINE t == RefreshMigration(s)
<1>1. CASE s.write # None
  BY <1>1 DEF RefreshMigration
<1>2. CASE s.write = None /\ (s.active = None \/ s.snapshot = None)
  <2>1. t = [s EXCEPT !.migration = None]
    BY <1>2 DEF RefreshMigration
  <2>2. /\ t \in Store /\ t.migration = None
        /\ t.active = s.active /\ t.snapshot = s.snapshot /\ t.look = s.look
        /\ t.queue = s.queue /\ t.write = s.write
    BY <2>1 DEF Store, Opt
  <2>3. Held(t) \subseteq Held(s)
    BY <2>2, HeldMembers
  <2>4. OneAddress(t)
    BY <2>2, <2>3, OneAddressShrinks DEF Good, Proper
  <2>5. Ordered(t, a, w)
    BY <2>2, Zenon DEF Ordered
  <2> QED BY <2>2, <2>4, <2>5 DEF Good, Proper
<1>3. CASE s.write = None /\ s.active # None /\ s.snapshot # None
  <2> DEFINE look == [project |-> s.active, snapshot |-> s.snapshot,
                      folder |-> MigrationFolder(s), found |-> None]
  <2>1. t = [s EXCEPT !.look = look]
    BY <1>3 DEF RefreshMigration
  <2>2. MigrationFolder(s) \in Folders
    BY <1>3, ConstantsAssumption DEF MigrationFolder, Store, Opt
  <2>3. look \in Look
    BY <1>3, <2>2 DEF Look, Opt, Store
  <2>n. look # None
    BY <2>3, ConstantsAssumption
  <2>4. /\ t \in Store /\ t.look = look /\ look # None
        /\ t.active = s.active /\ t.snapshot = s.snapshot /\ t.migration = s.migration
        /\ t.queue = s.queue /\ t.write = s.write
    <3> HIDE DEF look, t
    <3> QED BY <2>1, <2>3, <2>n DEF Store, Opt
  <2>5. look.snapshot = s.snapshot /\ look.project = s.active
    OBVIOUS
  <2>6. Held(t) \subseteq Held(s)
    BY <1>3, <2>4, <2>5, HeldMembers
  <2>7. OneAddress(t)
    BY <2>4, <2>6, OneAddressShrinks DEF Good, Proper
  <2>8. Ordered(t, a, w)
    BY <2>4, Zenon DEF Ordered
  <2> QED BY <1>3, <2>4, <2>5, <2>7, <2>8 DEF Good, Proper
<1> QED BY <1>1, <1>2, <1>3

\* Starting the next write keeps the invariant, and serves the queue.
LEMMA WriteNextGood ==
    ASSUME NEW s \in Store, NEW a \in Nat, NEW w \in Nat, Proper(s), Ordered(s, a, w)
    PROVE  WriteNext(s) \in Store /\ Good(WriteNext(s)) /\ Ordered(WriteNext(s), a, w)
<1> DEFINE t == WriteNext(s)
<1>q. s.queue \in Seq(Op)
  BY DEF Store
<1>1. CASE s.write # None \/ s.queue = <<>>
  BY <1>1 DEF WriteNext, Good
<1>2. CASE s.write = None /\ s.queue # <<>> /\ s.migration = None
  <2>1. t = [s EXCEPT !.queue = <<>>]
    BY <1>2 DEF WriteNext
  <2>2. <<>> \in Seq(Op) /\ Len(<<>>) = 0
    BY EmptySeq
  <2>3. /\ t \in Store /\ t.queue = <<>>
        /\ t.active = s.active /\ t.snapshot = s.snapshot /\ t.migration = s.migration
        /\ t.look = s.look /\ t.write = s.write
    BY <2>1, <2>2 DEF Store
  <2>4. Held(t) = Held(s)
    BY <2>3, Zenon DEF Held
  <2>5. OneAddress(t)
    BY <2>4 DEF OneAddress, Proper
  <2>6. Ordered(t, a, w)
    BY <1>2, <2>2, <2>3 DEF Ordered
  <2> QED BY <1>2, <2>3, <2>5, <2>6 DEF Good, Proper
<1>3. CASE s.write = None /\ s.queue # <<>> /\ s.migration # None
  <2> DEFINE write == [op |-> Head(s.queue), snapshot |-> s.migration.snapshot,
                       folder |-> s.migration.folder, result |-> None, found |-> None]
  <2>1. t = [s EXCEPT !.queue = Tail(s.queue), !.look = None, !.write = write]
    BY <1>3 DEF WriteNext, StartWrite, WriteOf
  <2>2. /\ Head(s.queue) \in Op /\ Tail(s.queue) \in Seq(Op)
        /\ Len(s.queue) \in Nat /\ Len(Tail(s.queue)) = Len(s.queue) - 1
        /\ \A i \in 1..Len(Tail(s.queue)) : Tail(s.queue)[i] = s.queue[i + 1]
    BY <1>q, <1>3, HeadTailProperties, LenProperties
  <2>3. Head(s.queue) = s.queue[1] /\ 1 \in 1..Len(s.queue)
    BY <1>q, <1>3, <2>2, EmptySeq
  <2>4. s.migration \in Migration
    BY <1>3 DEF Store, Opt
  <2>5. write \in Write
    BY <2>2, <2>4 DEF Write, Migration, Opt
  <2>6. /\ t \in Store /\ t.queue = Tail(s.queue) /\ t.look = None
        /\ t.write = write /\ write # None
        /\ t.active = s.active /\ t.snapshot = s.snapshot /\ t.migration = s.migration
    <3>1. write # None
      BY <2>5, ConstantsAssumption
    <3>2. t.queue = Tail(s.queue) /\ t.look = None /\ t.write = write
      BY <2>1 DEF Store
    <3>3. /\ t.active = s.active /\ t.snapshot = s.snapshot /\ t.migration = s.migration
      BY <2>1 DEF Store
    <3>4. write \in Opt(Write) /\ None \in Opt(Look)
      BY <2>5 DEF Opt
    <3>5. t \in Store
      BY <2>1, <2>2, <3>4 DEF Store
    <3> QED BY <3>1, <3>2, <3>3, <3>5
  <2>7. /\ write.op = s.queue[1] /\ write.snapshot = s.migration.snapshot
        /\ write.result = None /\ write.found = None
    BY <2>3
  <2>8. Held(t) \subseteq Held(s)
    BY <1>3, <2>6, <2>7, HeldMembers
  <2>9. OneAddress(t)
    BY <2>6, <2>8, OneAddressShrinks DEF Proper
  <2>10. \A i \in 1..Len(t.queue) : i + 1 \in 1..Len(s.queue) /\ t.queue[i] = s.queue[i + 1]
    BY <2>2, <2>6
  <2>11. \A i \in 1..Len(s.queue) : s.queue[i] \in Op
    BY <1>q
  <2>12. Ordered(t, a, w)
    <3>1. \A i \in 1..Len(t.queue) : w < t.queue[i].id /\ t.queue[i].id <= a
      BY <2>10 DEF Ordered
    <3>2. \A i, j \in 1..Len(t.queue) : i < j => t.queue[i].id < t.queue[j].id
      <4> TAKE i, j \in 1..Len(t.queue)
      <4> HAVE i < j
      <4>1. i + 1 \in 1..Len(s.queue) /\ j + 1 \in 1..Len(s.queue) /\ i + 1 < j + 1
        BY <2>10, <2>2, <2>6
      <4>2. s.queue[i + 1].id < s.queue[j + 1].id
        BY <4>1 DEF Ordered
      <4> QED BY <2>10, <4>2
    <3>3. \A i \in 1..Len(t.queue) : write.op.id < t.queue[i].id
      BY <2>3, <2>7, <2>10 DEF Ordered
    <3>4. write.op.id <= a /\ w < write.op.id
      BY <2>3, <2>7 DEF Ordered
    <3> QED BY <2>6, <3>1, <3>2, <3>3, <3>4 DEF Ordered
  <2>13. write.op.of = s.active
    BY <1>3, <2>3, <2>7 DEF Proper
  <2>14. \A i \in 1..Len(t.queue) : t.queue[i].of = s.active
    BY <1>3, <2>10 DEF Proper
  <2> QED BY <1>3, <2>6, <2>7, <2>9, <2>12, <2>13, <2>14 DEF Good, Proper
<1> QED BY <1>1, <1>2, <1>3

\* Showing another project, or none, keeps the invariant.
LEMMA ShowGood ==
    ASSUME NEW s \in Store, NEW p \in Opt(Projects), NEW a \in Nat, NEW w \in Nat,
           Good(s), Ordered(s, a, w)
    PROVE  Show(s, p) \in Store /\ Good(Show(s, p)) /\ Ordered(Show(s, p), a, w)
<1> DEFINE t == Show(s, p)
<1>1. /\ t \in Store /\ t.active = p /\ t.snapshot = None /\ t.migration = None
      /\ t.look = s.look /\ t.queue = s.queue /\ t.write = s.write
  BY DEF Show, Store, Opt
<1>2. Held(t) \subseteq Held(s)
  BY <1>1, HeldMembers
<1>3. OneAddress(t)
  BY <1>1, <1>2, OneAddressShrinks DEF Good, Proper
<1>4. Ordered(t, a, w)
  BY <1>1, Zenon DEF Ordered
<1> QED BY <1>1, <1>3, <1>4 DEF Good, Proper

\* What the last result says is not a core field.
LEMMA ResultFrame ==
    ASSUME NEW s \in Store, NEW r \in Opt(Result)
    PROVE  /\ [s EXCEPT !.last_result = r] \in Store
           /\ SameCore(s, [s EXCEPT !.last_result = r])
<1> DEFINE t == [s EXCEPT !.last_result = r]
<1>1. t \in Store
  BY DEF Store
<1>2. SameCore(s, t)
  BY DEF Store, SameCore
<1> QED BY <1>1, <1>2

\* set_active keeps the invariant.
LEMMA SetActiveGood ==
    ASSUME NEW s \in Store, NEW p \in Projects, NEW a \in Nat, NEW w \in Nat,
           Good(s), Ordered(s, a, w)
    PROVE  SetActive(s, p) \in Store /\ Good(SetActive(s, p)) /\ Ordered(SetActive(s, p), a, w)
<1> DEFINE t == [Show(s, p) EXCEPT !.last_result = None]
<1>1. Show(s, p) \in Store /\ Good(Show(s, p)) /\ Ordered(Show(s, p), a, w)
  BY ShowGood DEF Opt
<1>2. t \in Store /\ SameCore(Show(s, p), t)
  BY <1>1, ResultFrame DEF Opt
<1>3. Good(t) /\ Ordered(t, a, w)
  BY <1>1, <1>2, Frame
<1>4. Reload(t) \in Store /\ Good(Reload(t)) /\ Ordered(Reload(t), a, w)
  BY <1>2, <1>3, ReloadGood
<1> QED BY <1>4 DEF SetActive

-----------------------------------------------------------------------------
(* The continuations of the tasks *)

\* Of five addresses, four holders leave one free.
LEMMA FiveAddresses ==
    ASSUME NEW a, NEW b, NEW c, NEW d
    PROVE  \E n \in 0..4 : n # a /\ n # b /\ n # c /\ n # d
<1> SUFFICES ASSUME \A n \in 0..4 : n = a \/ n = b \/ n = c \/ n = d
             PROVE  FALSE
  OBVIOUS
<1>1. /\ 0 = a \/ 0 = b \/ 0 = c \/ 0 = d
      /\ 1 = a \/ 1 = b \/ 1 = c \/ 1 = d
      /\ 2 = a \/ 2 = b \/ 2 = c \/ 2 = d
      /\ 3 = a \/ 3 = b \/ 3 = c \/ 3 = d
      /\ 4 = a \/ 4 = b \/ 4 = c \/ 4 = d
  OBVIOUS
<1> QED BY <1>1

\* FreshId names an address that no snapshot held has.
LEMMA FreshAddress ==
    ASSUME NEW s \in Store
    PROVE  FreshId(s) \in 0..4 /\ \A held \in Held(s) : held.id # FreshId(s)
<1>1. \E n \in 0..4 : /\ n # s.snapshot.id /\ n # s.migration.snapshot.id
                      /\ n # s.look.snapshot.id /\ n # s.write.snapshot.id
  BY FiveAddresses
<1>2. \E n \in 0..4 : \A held \in Held(s) : held.id # n
  BY <1>1, HeldMembers
<1> QED BY <1>2 DEF FreshId

\* The end of a read keeps the invariant, whichever project is shown by then.
LEMMA TakeLoadGood ==
    ASSUME NEW s \in Store, NEW made \in Snapshot, NEW a \in Nat, NEW w \in Nat,
           Good(s), Ordered(s, a, w), s.load # None, made.project = s.load.project,
           \A held \in Held(s) : held.id # made.id
    PROVE  /\ TakeLoad(s, made) \in Store
           /\ Good(TakeLoad(s, made)) /\ Ordered(TakeLoad(s, made), a, w)
<1> DEFINE idle == [s EXCEPT !.load = None]
           read == [idle EXCEPT !.snapshot = made]
           taken == IF s.active = s.load.project THEN RefreshMigration(read) ELSE idle
           again == [taken EXCEPT !.reload_pending = FALSE]
<1>1. idle \in Store /\ SameCore(s, idle)
  <2>1. idle \in Store
    BY DEF Store, Opt
  <2> QED BY <2>1 DEF Store, SameCore
<1>2. Good(idle) /\ Ordered(idle, a, w)
  BY <1>1, Frame
<1>3. ASSUME s.active = s.load.project
      PROVE  LET t == RefreshMigration(read)
             IN  t \in Store /\ Good(t) /\ Ordered(t, a, w)
  <2>1. made # None
    BY ConstantsAssumption
  <2>2. read \in Store
    BY <1>1 DEF Store, Opt
  <2>3. /\ read.snapshot = made /\ read.active = s.active /\ read.migration = s.migration
        /\ read.look = s.look /\ read.queue = s.queue /\ read.write = s.write
    BY <1>1 DEF Store, SameCore
  <2> HIDE DEF read
  <2>4. \A x \in Held(read) : x = made \/ x \in Held(s)
    BY <2>1, <2>2, <2>3, HeldMembers
  <2>5. OneAddress(read)
    BY <2>4 DEF OneAddress, Good, Proper
  <2>6. Ordered(read, a, w)
    BY <2>3, Zenon DEF Ordered
  <2>7. Good(read)
    BY <1>3, <2>3, <2>5 DEF Good, Proper
  <2> QED BY <2>2, <2>6, <2>7, RefreshGood
<1>4. taken \in Store /\ Good(taken) /\ Ordered(taken, a, w)
  BY <1>1, <1>2, <1>3
<1> HIDE DEF taken
<1>5. again \in Store /\ SameCore(taken, again)
  <2>1. again \in Store
    BY <1>4 DEF Store
  <2> QED BY <1>4, <2>1 DEF Store, SameCore
<1>6. Good(again) /\ Ordered(again, a, w)
  BY <1>4, <1>5, Frame
<1>7. /\ Reload(again) \in Store
      /\ Good(Reload(again)) /\ Ordered(Reload(again), a, w)
  BY <1>5, <1>6, ReloadGood
<1> QED BY <1>4, <1>7 DEF TakeLoad, taken

\* The end of a look keeps the invariant: no operation waits then.
LEMMA TakeLookGood ==
    ASSUME NEW s \in Store, NEW a \in Nat, NEW w \in Nat,
           Good(s), Ordered(s, a, w), s.look # None, s.look.found # None
    PROVE  TakeLook(s) \in Store /\ Good(TakeLook(s)) /\ Ordered(TakeLook(s), a, w)
<1> DEFINE m == [snapshot |-> s.look.snapshot, folder |-> s.look.folder,
                 found |-> s.look.found]
           idle == [s EXCEPT !.look = None]
           pin == [idle EXCEPT !.pinned[s.look.project] = m.found.meta]
           base == IF MetadataDiffers(m) THEN Reload(pin) ELSE idle
           t == [base EXCEPT !.migration = m]
<1>1. s.look \in Look /\ s.look.found \in FolderState
  BY DEF Store, Opt, Look
<1>2. m \in Migration /\ m.found.meta \in Opt(Roots) /\ s.look.project \in Projects
  BY <1>1 DEF Look, Migration, FolderState
<1>3. /\ idle \in Store /\ idle.look = None
      /\ idle.active = s.active /\ idle.snapshot = s.snapshot /\ idle.migration = s.migration
      /\ idle.queue = s.queue /\ idle.write = s.write
  <2>1. idle \in Store
    BY DEF Store, Opt
  <2> QED BY <2>1 DEF Store
<1> HIDE DEF idle
<1>4. Good(idle) /\ Ordered(idle, a, w)
  <2>1. ASSUME NEW x \in Held(idle) PROVE x \in Held(s)
    <3>1. \/ idle.snapshot # None /\ x = idle.snapshot
          \/ idle.migration # None /\ x = idle.migration.snapshot
          \/ idle.write # None /\ x = idle.write.snapshot
      BY <1>3, <2>1, HeldMembers, Zenon
    <3> QED BY <1>3, <3>1, HeldMembers, Zenon
  <2>2. OneAddress(idle)
    BY <1>3, <2>1, OneAddressShrinks DEF Good, Proper
  <2>3. Ordered(idle, a, w)
    BY <1>3, Zenon DEF Ordered
  <2> QED BY <1>3, <2>2, <2>3 DEF Good, Proper
<1>5. pin \in Store /\ SameCore(idle, pin)
  <2>1. pin \in Store
    BY <1>2, <1>3 DEF Store
  <2> QED BY <1>3, <2>1 DEF Store, SameCore
<1>6. base \in Store /\ SameCore(idle, base)
  <2>1. Reload(pin) \in Store /\ SameCore(pin, Reload(pin))
    BY <1>5, ReloadType
  <2>2. SameCore(idle, Reload(pin)) /\ SameCore(idle, idle)
    BY <1>5, <2>1 DEF SameCore
  <2> QED BY <1>3, <2>1, <2>2
<1> HIDE DEF base, m
<1>7. CASE /\ s.active = s.look.project
           /\ MigrationFolder(s) = s.look.folder
           /\ s.snapshot # None /\ s.snapshot.id = s.look.snapshot.id
  <2>1. /\ t \in Store /\ t.migration = m /\ t.look = None
        /\ t.active = s.active /\ t.snapshot = s.snapshot
        /\ t.queue = s.queue /\ t.write = s.write
    <3>1. t \in Store
      <4>1. m \in Opt(Migration)
        BY <1>2 DEF Opt
      <4> QED BY <1>6, <4>1 DEF Store
    <3> QED BY <1>3, <1>6, <3>1 DEF Store, SameCore
  <2>2. m.snapshot = s.look.snapshot
    BY DEF m
  <2>3. m.snapshot.project = s.active
    BY <1>7, <2>2 DEF Good, Proper
  <2>4. s.write = None /\ s.queue = <<>>
    BY DEF Good, Proper
  <2>5. Held(t) \subseteq Held(s)
    BY <2>1, <2>2, HeldMembers
  <2>6. OneAddress(t)
    BY <2>1, <2>5, OneAddressShrinks DEF Good, Proper
  <2>7. Ordered(t, a, w)
    BY <2>1, Zenon DEF Ordered
  <2>8. Len(<<>>) = 0
    OBVIOUS
  <2>9. Good(t)
    BY <2>1, <2>3, <2>4, <2>6, <2>8 DEF Good, Proper
  <2>10. TakeLook(s) = t
    BY <1>7 DEF TakeLook, base, m, idle
  <2> QED BY <2>1, <2>7, <2>9, <2>10
<1>8. CASE ~(/\ s.active = s.look.project
             /\ MigrationFolder(s) = s.look.folder
             /\ s.snapshot # None /\ s.snapshot.id = s.look.snapshot.id)
  <2>1. TakeLook(s) = idle
    BY <1>8 DEF TakeLook, idle
  <2> QED BY <1>3, <1>4, <2>1
<1> QED BY <1>7, <1>8

\* The end of a write keeps the invariant: what it shows is of the migration
\* shown, for their snapshots have one address.
LEMMA TakeWriteGood ==
    ASSUME NEW s \in Store, NEW a \in Nat, NEW w \in Nat, Good(s), Ordered(s, a, w),
           s.write # None, s.write.result # None, s.write.found # None
    PROVE  TakeWrite(s) \in Store /\ Good(TakeWrite(s)) /\ Ordered(TakeWrite(s), a, w)
<1> DEFINE next == [snapshot |-> s.write.snapshot, folder |-> s.write.folder,
                    found |-> s.write.found]
           current == /\ s.migration # None
                      /\ s.migration.snapshot.id = next.snapshot.id
                      /\ s.migration.folder = next.folder
           told == s.write.op.kind = "migrate" \/ ~s.write.result.ok
           migration == IF current THEN next ELSE s.migration
           result == IF told THEN s.write.result ELSE s.last_result
           idle == [s EXCEPT !.write = None, !.migration = migration, !.last_result = result]
<1>1. s.write \in Write /\ s.write.result \in Result /\ s.write.found \in FolderState
  BY DEF Store, Opt, Write
<1>2. next \in Migration /\ next.snapshot = s.write.snapshot
  BY <1>1 DEF Write, Migration
<1>3. migration \in Opt(Migration) /\ result \in Opt(Result)
  BY <1>1, <1>2 DEF Store, Opt
<1>4. migration # None => s.migration # None /\ migration.snapshot = s.migration.snapshot
  <2>1. CASE current
    <3>1. s.migration.snapshot \in Held(s) /\ s.write.snapshot \in Held(s)
      BY <2>1, HeldMembers
    <3>2. s.migration.snapshot = s.write.snapshot
      BY <2>1, <3>1 DEF Good, Proper, OneAddress
    <3> QED BY <1>2, <2>1, <3>2
  <2>2. CASE ~current
    BY <2>2
  <2> QED BY <2>1, <2>2
<1> HIDE DEF migration, result, next
<1>5. /\ idle \in Store /\ idle.write = None /\ idle.migration = migration
      /\ idle.active = s.active /\ idle.snapshot = s.snapshot
      /\ idle.look = s.look /\ idle.queue = s.queue
  <2>1. None \in Opt(Write)
    BY DEF Opt
  <2>2. idle \in Store
    BY <1>3, <2>1 DEF Store
  <2> QED BY <2>2 DEF Store
<1> HIDE DEF idle
<1>6. Proper(idle)
  <2>1. Held(idle) \subseteq Held(s)
    BY <1>4, <1>5, HeldMembers
  <2>2. OneAddress(idle)
    BY <1>5, <2>1, OneAddressShrinks DEF Good, Proper
  <2> QED BY <1>4, <1>5, <2>2 DEF Good, Proper
<1>7. Ordered(idle, a, w)
  BY <1>5, Zenon DEF Ordered
<1>8. CASE s.queue # <<>>
  <2>1. TakeWrite(s) = WriteNext(idle)
    BY <1>8 DEF TakeWrite, idle, migration, result, next
  <2> QED BY <1>5, <1>6, <1>7, <2>1, WriteNextGood
<1>9. CASE s.queue = <<>>
  <2>1. Good(idle)
    BY <1>5, <1>6, <1>9 DEF Good
  <2>2. TakeWrite(s) = RefreshMigration(idle) \/ TakeWrite(s) = idle
    BY <1>9 DEF TakeWrite, idle, migration, result, next
  <2> QED BY <1>5, <1>7, <2>1, <2>2, RefreshGood
<1> QED BY <1>8, <1>9

\* Looking for the workspace's projects again touches no core field.
LEMMA StartDetectGood ==
    ASSUME NEW s \in Store, NEW roots \in SUBSET Projects, NEW a \in Nat, NEW w \in Nat,
           Good(s), Ordered(s, a, w)
    PROVE  /\ StartDetect(s, roots) \in Store
           /\ Good(StartDetect(s, roots)) /\ Ordered(StartDetect(s, roots), a, w)
<1> DEFINE t == StartDetect(s, roots)
<1>1. [roots |-> roots, found |-> None] \in Opt(Detect)
  BY DEF Detect, Opt
<1>2. t \in Store
  BY <1>1 DEF StartDetect, Store
<1>3. SameCore(s, t)
  BY DEF StartDetect, Store, SameCore
<1> QED BY <1>2, <1>3, Frame

\* What detect found, taken over, keeps the invariant.
LEMMA TakeDetectionGood ==
    ASSUME NEW s \in Store, NEW first \in Opt(Projects), NEW a \in Nat, NEW w \in Nat,
           Good(s), Ordered(s, a, w), s.detect # None, s.detect.found # None
    PROVE  /\ TakeDetection(s, first) \in Store
           /\ Good(TakeDetection(s, first)) /\ Ordered(TakeDetection(s, first), a, w)
<1> DEFINE found == s.detect.found
           imported == s.importing # None /\ s.importing \in found.projects
           keep == s.active # None /\ s.active \in found.projects
           folders == [p \in Projects |->
                          IF found.folders[p] # None THEN found.folders[p] ELSE s.folders[p]]
           importing == IF imported THEN None ELSE s.importing
           set == [s EXCEPT !.detect = None, !.projects = found.projects,
                            !.picked = found.picked, !.folders = folders,
                            !.importing = importing]
           shown == [Show(set, s.importing) EXCEPT !.last_result = None]
<1>1. found \in Detection
  BY DEF Store, Opt, Detect
<1>2. /\ found.projects \in SUBSET Projects /\ found.picked \in [Projects -> Opt(Roots)]
      /\ folders \in [Projects -> Opt(Folders)] /\ importing \in Opt(Projects)
      /\ None \in Opt(Detect) /\ s.importing \in Opt(Projects) /\ None \in Opt(Result)
  BY <1>1 DEF Detection, Store, Opt
<1>3. TakeDetection(s, first) = IF imported THEN Reload(shown)
                                ELSE IF keep THEN set ELSE Reload(Show(set, first))
  BY DEF TakeDetection
<1> HIDE DEF found, folders, importing, imported, keep
<1>4. set \in Store
  BY <1>2 DEF Store
<1>5. SameCore(s, set)
  BY DEF Store, SameCore
<1>6. Good(set) /\ Ordered(set, a, w)
  BY <1>4, <1>5, Frame
<1> HIDE DEF set
<1>7. /\ shown \in Store /\ Good(shown) /\ Ordered(shown, a, w)
  <2>1. LET t == Show(set, s.importing)
        IN  t \in Store /\ Good(t) /\ Ordered(t, a, w)
    BY <1>2, <1>4, <1>6, ShowGood
  <2> QED BY <1>2, <2>1, ResultFrame, Frame
<1> HIDE DEF shown
<1>8. LET t == Show(set, first)
      IN  t \in Store /\ Good(t) /\ Ordered(t, a, w)
  BY <1>4, <1>6, ShowGood
<1>9. Reload(shown) \in Store /\ Good(Reload(shown)) /\ Ordered(Reload(shown), a, w)
  BY <1>7, ReloadGood
<1>10. LET t == Reload(Show(set, first))
       IN  t \in Store /\ Good(t) /\ Ordered(t, a, w)
  BY <1>8, ReloadGood
<1> QED BY <1>3, <1>4, <1>6, <1>9, <1>10

\* import keeps the invariant.
LEMMA ImportGood ==
    ASSUME NEW s \in Store, NEW p \in Projects, NEW f \in Folders,
           NEW a \in Nat, NEW w \in Nat, Good(s), Ordered(s, a, w),
           workspace \in SUBSET Projects
    PROVE  Import(s, p, f) \in Store /\ Good(Import(s, p, f)) /\ Ordered(Import(s, p, f), a, w)
<1> DEFINE moved == s.folders[p] # f
           pin == IF moved THEN None ELSE s.pinned[p]
           set == [s EXCEPT !.folders[p] = f, !.pinned[p] = pin]
           asking == [set EXCEPT !.importing = p]
           clear == [set EXCEPT !.last_result = None]
<1>1. pin \in Opt(Roots) /\ f \in Opt(Folders) /\ p \in Opt(Projects) /\ None \in Opt(Result)
  BY DEF Store, Opt
<1>2. Import(s, p, f) = IF p \notin s.projects THEN StartDetect(asking, workspace)
                        ELSE IF s.active # p THEN SetActive(set, p)
                        ELSE IF moved THEN Reload(clear) ELSE set
  BY DEF Import, Store
<1> HIDE DEF pin, moved
<1>3. set \in Store
  BY <1>1 DEF Store
<1>4. SameCore(s, set)
  BY DEF Store, SameCore
<1>5. Good(set) /\ Ordered(set, a, w)
  BY <1>3, <1>4, Frame
<1> HIDE DEF set
<1>6. asking \in Store /\ SameCore(set, asking)
  <2>1. asking \in Store
    BY <1>1, <1>3 DEF Store
  <2> QED BY <1>3, <2>1 DEF Store, SameCore
<1>7. Good(asking) /\ Ordered(asking, a, w)
  BY <1>3, <1>5, <1>6, Frame
<1>8. clear \in Store /\ Good(clear) /\ Ordered(clear, a, w)
  BY <1>1, <1>3, <1>5, ResultFrame, Frame
<1> HIDE DEF asking, clear
<1>9. LET t == StartDetect(asking, workspace)
      IN  t \in Store /\ Good(t) /\ Ordered(t, a, w)
  BY <1>6, <1>7, StartDetectGood
<1>10. Reload(clear) \in Store /\ Good(Reload(clear)) /\ Ordered(Reload(clear), a, w)
  BY <1>8, ReloadGood
<1>11. SetActive(set, p) \in Store /\ Good(SetActive(set, p)) /\ Ordered(SetActive(set, p), a, w)
  BY <1>3, <1>5, SetActiveGood
<1> QED BY <1>2, <1>3, <1>5, <1>9, <1>10, <1>11

-----------------------------------------------------------------------------
(* The invariant of the specification *)

EnvTypeOK ==
    /\ workspace \in SUBSET Projects
    /\ files \in [Projects -> Nat]
    /\ metadata \in [Roots -> Nat]
    /\ disk \in [Folders -> FolderState]
    /\ kvp \in Kvp
    /\ kvpWrites \in SUBSET KvpWrite
    /\ notices \in SUBSET Notice
    /\ asked \in Nat /\ written \in Nat /\ events \in Plan

IInv == EnvTypeOK /\ store \in Store /\ Good(store) /\ Ordered(store, asked, written)

\* A change told is a notice.
LEMMA ToldType ==
    /\ \A p \in Projects : Told("files", p) \subseteq Notice
    /\ \A r \in Roots : Told("meta", r) \subseteq Notice
    /\ \A f \in Folders : Told("state", f) \subseteq Notice
BY DEF Told, Notice

\* The store the program starts with is good.
LEMMA InitGood == Init => IInv
<1> SUFFICES ASSUME Init PROVE IInv
  OBVIOUS
<1>1. EnvTypeOK
  BY ConstantsAssumption DEF Init, EnvTypeOK
<1>2. InitStore \in Store
  BY EmptySeq DEF InitStore, Store, Opt
<1>3. /\ InitStore.active = None /\ InitStore.snapshot = None /\ InitStore.migration = None
      /\ InitStore.look = None /\ InitStore.queue = <<>> /\ InitStore.write = None
  BY DEF InitStore
<1>4. \A x : x \notin Held(InitStore)
  BY <1>2, <1>3, HeldMembers
<1>5. Good(InitStore)
  BY <1>3, <1>4 DEF Good, Proper, OneAddress
<1>6. Len(<<>>) = 0
  OBVIOUS
<1>7. Ordered(InitStore, 0, 0)
  BY <1>3, <1>6 DEF Ordered
<1>8. LET t == StartDetect(InitStore, workspace)
      IN  t \in Store /\ Good(t) /\ Ordered(t, 0, 0)
  BY <1>1, <1>2, <1>5, <1>7, StartDetectGood DEF EnvTypeOK
<1> QED BY <1>1, <1>8 DEF Init, IInv

\* Every outside event keeps the invariant.
LEMMA OutsideGood == IInv /\ Outside => IInv'
<1> SUFFICES ASSUME IInv, Outside PROVE IInv'
  OBVIOUS
<1> USE DEF IInv
<1>e. ASSUME NEW k, Event(k) PROVE events' \in Plan
  BY <1>e DEF Event, EnvTypeOK, Plan
<1>1. CASE WorktreeAdded
  <2>1. workspace' \in SUBSET Projects /\ store' = StartDetect(store, workspace')
    BY <1>1 DEF WorktreeAdded, EnvTypeOK
  <2>2. EnvTypeOK' /\ asked' = asked /\ written' = written
    BY <1>1, <1>e, <2>1 DEF WorktreeAdded, EnvTypeOK
  <2> QED BY <2>1, <2>2, StartDetectGood DEF EnvTypeOK
<1>2. CASE WorktreeRemoved
  <2>1. workspace' \in SUBSET Projects /\ store' = StartDetect(store, workspace')
    BY <1>2 DEF WorktreeRemoved, EnvTypeOK
  <2>2. EnvTypeOK' /\ asked' = asked /\ written' = written
    BY <1>2, <1>e, <2>1 DEF WorktreeRemoved, EnvTypeOK
  <2> QED BY <2>1, <2>2, StartDetectGood DEF EnvTypeOK
<1>3. CASE EditFiles
  <2>1. notices' \in SUBSET Notice /\ files' \in [Projects -> Nat]
    BY <1>3, ToldType DEF EditFiles, EnvTypeOK
  <2> QED BY <1>3, <1>e, <2>1 DEF EditFiles, EnvTypeOK
<1>4. CASE EditMetadata
  <2>1. notices' \in SUBSET Notice /\ metadata' \in [Roots -> Nat]
    BY <1>4, ToldType DEF EditMetadata, EnvTypeOK
  <2> QED BY <1>4, <1>e, <2>1 DEF EditMetadata, EnvTypeOK
<1>5. CASE EditState
  <2>1. notices' \in SUBSET Notice
    BY <1>5, ToldType DEF EditState, EnvTypeOK
  <2>2. disk' \in [Folders -> FolderState]
    BY <1>5 DEF EditState, EnvTypeOK, FolderState
  <2> QED BY <1>5, <1>e, <2>1, <2>2 DEF EditState, EnvTypeOK
<1>6. CASE Activate
  <2>1. PICK p \in store.projects : store' = SetActive(store, p)
    BY <1>6 DEF Activate
  <2>2. p \in Projects
    BY DEF Store
  <2>3. EnvTypeOK' /\ asked' = asked /\ written' = written
    BY <1>6, <1>e DEF Activate, EnvTypeOK, env
  <2> QED BY <2>1, <2>2, <2>3, SetActiveGood DEF EnvTypeOK
<1>7. CASE AskReload
  <2>1. EnvTypeOK' /\ asked' = asked /\ written' = written /\ store' = Reload(store)
    BY <1>7, <1>e DEF AskReload, EnvTypeOK, env
  <2> QED BY <2>1, ReloadGood DEF EnvTypeOK
<1>8. CASE AskLook
  <2>1. EnvTypeOK' /\ asked' = asked /\ written' = written /\ store' = RefreshMigration(store)
    BY <1>8, <1>e DEF AskLook, EnvTypeOK, env
  <2> QED BY <2>1, RefreshGood DEF EnvTypeOK
<1>9. CASE SetMetadataFolders
  <2>1. PICK p \in store.projects, r \in Opt(Roots) :
          LET s == [store EXCEPT !.picked[p] = r]
          IN  /\ store' = IF s.active = p THEN Reload(s) ELSE s
              /\ kvpWrites' = kvpWrites \cup {[map |-> "picked", project |-> p, value |-> r]}
    BY <1>9 DEF SetMetadataFolders
  <2> DEFINE s == [store EXCEPT !.picked[p] = r]
  <2>2. p \in Projects
    BY DEF Store
  <2>3. kvpWrites' \in SUBSET KvpWrite
    BY <2>1, <2>2 DEF KvpWrite, EnvTypeOK
  <2>4. EnvTypeOK' /\ asked' = asked /\ written' = written
    BY <1>9, <1>e, <2>3 DEF SetMetadataFolders, EnvTypeOK
  <2>5. s \in Store
    BY <2>2 DEF Store
  <2>6. SameCore(store, s)
    BY <2>2 DEF Store, SameCore
  <2>7. Good(s) /\ Ordered(s, asked, written)
    BY <2>5, <2>6, Frame DEF EnvTypeOK
  <2>8. store' = Reload(s) \/ store' = s
    BY <2>1
  <2> HIDE DEF s
  <2> QED BY <2>4, <2>5, <2>7, <2>8, ReloadGood DEF EnvTypeOK
<1>10. CASE SetMigrationFolder
  <2>1. EnvTypeOK' /\ asked' = asked /\ written' = written
    <3>1. kvpWrites' \in SUBSET KvpWrite
      BY <1>10 DEF SetMigrationFolder, KvpWrite, EnvTypeOK, Store, Opt
    <3> QED BY <1>10, <1>e, <3>1 DEF SetMigrationFolder, EnvTypeOK
  <2> DEFINE p == store.active
             no == [of |-> p, ok |-> FALSE]
  <2>2. p \in Projects /\ no \in Opt(Result) /\ None \in Opt(Result)
    BY <1>10 DEF SetMigrationFolder, Store, Opt, Result
  <2>3. PICK f \in Folders :
          LET s == [store EXCEPT !.folders[p] = f, !.last_result = None, !.pinned[p] = None]
          IN  \/ store' = [store EXCEPT !.last_result = no]
              \/ store' = Reload(s) \/ store' = RefreshMigration(s)
    BY <1>10 DEF SetMigrationFolder
  <2> DEFINE s == [store EXCEPT !.folders[p] = f, !.last_result = None, !.pinned[p] = None]
             refused == [store EXCEPT !.last_result = no]
  <2>4. refused \in Store /\ Good(refused) /\ Ordered(refused, asked, written)
    BY <2>2, ResultFrame, Frame DEF EnvTypeOK
  <2>5. f \in Opt(Folders) /\ None \in Opt(Roots)
    BY DEF Opt
  <2>6. s \in Store
    BY <2>2, <2>5 DEF Store
  <2>7. SameCore(store, s)
    BY DEF Store, SameCore
  <2>8. Good(s) /\ Ordered(s, asked, written)
    BY <2>6, <2>7, Frame DEF EnvTypeOK
  <2>9. store' = refused \/ store' = Reload(s) \/ store' = RefreshMigration(s)
    BY <2>3
  <2> HIDE DEF s, refused
  <2> QED BY <2>1, <2>4, <2>6, <2>8, <2>9, ReloadGood, RefreshGood DEF EnvTypeOK
<1>11. CASE ImportProcess
  <2>1. PICK p \in workspace, f \in Folders :
          /\ store' = Import(store, p, f)
          /\ kvpWrites' = kvpWrites \cup {[map |-> "folders", project |-> p, value |-> f]}
    BY <1>11 DEF ImportProcess
  <2>2. p \in Projects
    BY DEF EnvTypeOK
  <2>3. kvpWrites' \in SUBSET KvpWrite
    BY <2>1, <2>2 DEF KvpWrite, EnvTypeOK
  <2>4. EnvTypeOK' /\ asked' = asked /\ written' = written
    BY <1>11, <1>e, <2>3 DEF ImportProcess, EnvTypeOK
  <2> QED BY <2>1, <2>2, <2>4, ImportGood DEF EnvTypeOK
<1>12. CASE QueueMigration
  <2>1. PICK kind \in {"migrate", "tick"} :
          store' = WriteNext([store EXCEPT !.queue =
                        Append(store.queue, [id |-> asked', of |-> store.active, kind |-> kind])])
    BY <1>12 DEF QueueMigration
  <2> DEFINE op == [id |-> asked + 1, of |-> store.active, kind |-> kind]
             queue == Append(store.queue, op)
             s == [store EXCEPT !.queue = queue]
  <2>2. asked' = asked + 1 /\ asked' \in Nat /\ written' = written /\ store.migration # None
    BY <1>12 DEF QueueMigration, EnvTypeOK
  <2>3. EnvTypeOK'
    BY <1>12, <1>e, <2>2 DEF QueueMigration, EnvTypeOK, env
  <2>4. store.active \in Projects
    <3>1. store.migration.snapshot.project \in Projects
      BY <2>2 DEF Store, Opt, Migration, Snapshot
    <3> QED BY <2>2, <3>1 DEF Good, Proper
  <2>5. op \in Op /\ store.queue \in Seq(Op) /\ op.of = store.active /\ op.id = asked + 1
    BY <2>2, <2>4 DEF Op, Store
  <2> HIDE DEF op
  <2>6. /\ queue \in Seq(Op) /\ Len(queue) = Len(store.queue) + 1
        /\ \A i \in 1..Len(store.queue) : queue[i] = store.queue[i]
        /\ queue[Len(store.queue) + 1] = op /\ Len(store.queue) \in Nat
    BY <2>5, AppendProperties, LenProperties
  <2> HIDE DEF queue
  <2>7. /\ s \in Store /\ s.queue = queue
        /\ s.active = store.active /\ s.snapshot = store.snapshot /\ s.look = store.look
        /\ s.migration = store.migration /\ s.write = store.write
    <3>1. s \in Store
      BY <2>6 DEF Store
    <3> QED BY <3>1 DEF Store
  <2>8. store' = WriteNext(s)
    BY <2>1, <2>2 DEF op, queue
  <2> HIDE DEF s
  <2>9. \A i \in 1..Len(queue) : i \in 1..Len(store.queue) \/ queue[i] = op
    BY <2>6
  <2>10. Proper(s)
    <3>1. Held(s) = Held(store)
      BY <2>7, Zenon DEF Held
    <3>2. OneAddress(s)
      BY <3>1 DEF OneAddress, Good, Proper
    <3>3. \A i \in 1..Len(queue) : queue[i].of = store.active
      BY <2>2, <2>5, <2>6, <2>9 DEF Good, Proper
    <3> QED BY <2>7, <3>2, <3>3 DEF Good, Proper
  <2>11. Ordered(s, asked', written')
    <3>n. asked \in Nat /\ written \in Nat
      BY DEF EnvTypeOK
    <3>o. \A i \in 1..Len(store.queue) : store.queue[i].id \in Nat
      <4>1. \A i \in 1..Len(store.queue) : store.queue[i] \in Op
        BY <2>5
      <4> QED BY <4>1 DEF Op
    <3>1. \A i \in 1..Len(queue) : written < queue[i].id /\ queue[i].id <= asked + 1
      <4> TAKE i \in 1..Len(queue)
      <4>1. CASE queue[i] = op
        BY <3>n, <4>1, <2>5 DEF Ordered
      <4>2. CASE i \in 1..Len(store.queue)
        BY <3>n, <3>o, <4>2, <2>6 DEF Ordered
      <4> QED BY <4>1, <4>2, <2>9
    <3>2. \A i, j \in 1..Len(queue) : i < j => queue[i].id < queue[j].id
      <4> TAKE i, j \in 1..Len(queue)
      <4> HAVE i < j
      <4>1. i \in 1..Len(store.queue) /\ queue[i] = store.queue[i]
        BY <2>6
      <4>2. queue[i].id <= asked
        BY <4>1 DEF Ordered
      <4>3. CASE j \in 1..Len(store.queue)
        BY <4>1, <4>3, <2>6 DEF Ordered
      <4>4. CASE queue[j] = op
        BY <3>n, <3>o, <4>1, <4>2, <4>4, <2>5
      <4> QED BY <4>3, <4>4, <2>9
    <3>3. ASSUME store.write # None
          PROVE  /\ store.write.op.id <= asked + 1
                 /\ \A i \in 1..Len(queue) : store.write.op.id < queue[i].id
      <4>1. store.write.op.id \in Nat
        BY <3>3 DEF Store, Opt, Write, Op
      <4>2. store.write.op.id <= asked
        BY <3>3 DEF Ordered
      <4>3. \A i \in 1..Len(store.queue) : store.write.op.id < store.queue[i].id
        BY <3>3 DEF Ordered
      <4>4. \A i \in 1..Len(queue) : store.write.op.id < queue[i].id
        BY <3>n, <4>1, <4>2, <4>3, <2>5, <2>6, <2>9
      <4> QED BY <3>n, <4>1, <4>2, <4>4
    <3>4. store.write # None => (store.write.result = None => written < store.write.op.id)
      BY DEF Ordered
    <3>5. written <= asked + 1
      BY <3>n DEF Ordered
    <3> QED BY <2>2, <2>7, <3>1, <3>2, <3>3, <3>4, <3>5 DEF Ordered
  <2>12. written' \in Nat
    BY <2>2 DEF EnvTypeOK
  <2> QED BY <2>2, <2>3, <2>7, <2>8, <2>10, <2>11, <2>12, WriteNextGood
<1>13. CASE ClearLastResult
  <2> DEFINE t == [store EXCEPT !.last_result = None]
  <2>1. EnvTypeOK' /\ asked' = asked /\ written' = written /\ store' = t
    BY <1>13, <1>e DEF ClearLastResult, EnvTypeOK, env
  <2>2. t \in Store /\ SameCore(store, t)
    BY ResultFrame DEF Opt
  <2>3. Good(t) /\ Ordered(t, asked, written)
    BY <2>2, Frame DEF EnvTypeOK
  <2> QED BY <2>1, <2>2, <2>3
<1> QED
  BY <1>1, <1>2, <1>3, <1>4, <1>5, <1>6, <1>7, <1>8, <1>9, <1>10, <1>11, <1>12, <1>13 DEF Outside

\* Every step of a task keeps the invariant.
LEMMA TasksGood == IInv /\ Tasks => IInv'
<1> SUFFICES ASSUME IInv, Tasks PROVE IInv'
  OBVIOUS
<1> USE DEF IInv
<1>1. CASE WorktreeUpdatedEntries
  <2> DEFINE armed == [store EXCEPT !.debounce = TRUE]
  <2>1. EnvTypeOK' /\ asked' = asked /\ written' = written
    BY <1>1 DEF WorktreeUpdatedEntries, EnvTypeOK
  <2>2. store' = armed \/ store' = RefreshMigration(store) \/ store' = store
    BY <1>1 DEF WorktreeUpdatedEntries
  <2>3. armed \in Store
    BY DEF Store
  <2>4. SameCore(store, armed)
    BY DEF Store, SameCore
  <2>5. Good(armed) /\ Ordered(armed, asked, written)
    BY <2>3, <2>4, Frame DEF EnvTypeOK
  <2> HIDE DEF armed
  <2> QED BY <2>1, <2>2, <2>3, <2>5, RefreshGood DEF EnvTypeOK
<1>2. CASE DebounceFires
  <2> DEFINE s == [store EXCEPT !.debounce = FALSE]
  <2>1. EnvTypeOK' /\ asked' = asked /\ written' = written /\ store' = Reload(s)
    BY <1>2 DEF DebounceFires, EnvTypeOK, env
  <2>2. s \in Store
    BY DEF Store
  <2>3. SameCore(store, s)
    BY DEF Store, SameCore
  <2>4. Good(s) /\ Ordered(s, asked, written)
    BY <2>2, <2>3, Frame DEF EnvTypeOK
  <2> HIDE DEF s
  <2> QED BY <2>1, <2>2, <2>4, ReloadGood DEF EnvTypeOK
<1>3. CASE KvpStored
  <2>1. PICK k \in kvpWrites :
          /\ kvp' = IF k.map = "picked" THEN [kvp EXCEPT !.picked[k.project] = k.value]
                    ELSE [kvp EXCEPT !.folders[k.project] = k.value]
          /\ kvpWrites' = kvpWrites \ {k}
    BY <1>3 DEF KvpStored
  <2>2. k \in KvpWrite
    BY DEF EnvTypeOK
  <2>3. CASE k.map = "picked"
    <3>1. k.project \in Projects /\ k.value \in Opt(Roots)
      BY <2>2, <2>3 DEF KvpWrite
    <3>2. kvp' \in Kvp
      BY <2>1, <2>3, <3>1 DEF Kvp, EnvTypeOK
    <3> QED BY <1>3, <2>1, <3>2 DEF KvpStored, EnvTypeOK
  <2>4. CASE k.map # "picked"
    <3>1. k.project \in Projects /\ k.value \in Opt(Folders)
      BY <2>2, <2>4 DEF KvpWrite, Opt
    <3>2. kvp' \in Kvp
      BY <2>1, <2>4, <3>1 DEF Kvp, EnvTypeOK
    <3> QED BY <1>3, <2>1, <3>2 DEF KvpStored, EnvTypeOK
  <2> QED BY <2>3, <2>4
<1>4. CASE DetectRead
  <2> DEFINE roots == store.detect.roots
             found == [projects |-> roots,
                       picked |-> [p \in Projects |-> IF p \in roots THEN kvp.picked[p] ELSE None],
                       folders |-> [p \in Projects |-> IF p \in roots THEN kvp.folders[p] ELSE None]]
             s == [store EXCEPT !.detect.found = found]
  <2>1. EnvTypeOK' /\ asked' = asked /\ written' = written /\ store' = s
    BY <1>4 DEF DetectRead, EnvTypeOK, env
  <2>2. store.detect \in Detect /\ roots \in SUBSET Projects
    BY <1>4 DEF DetectRead, Store, Opt, Detect
  <2>3. found \in Detection
    BY <2>2 DEF Detection, EnvTypeOK, Kvp, Opt
  <2> HIDE DEF found
  <2>4. [store.detect EXCEPT !.found = found] \in Opt(Detect)
    BY <2>2, <2>3 DEF Detect, Opt
  <2>5. s \in Store
    BY <2>4 DEF Store
  <2>6. SameCore(store, s)
    BY DEF Store, SameCore
  <2> QED BY <2>1, <2>5, <2>6, Frame DEF EnvTypeOK
<1>5. CASE DetectDone
  <2>1. PICK first \in Opt(Projects) : store' = TakeDetection(store, first)
    <3>1. store.detect.found.projects \in SUBSET Projects
      BY <1>5 DEF DetectDone, Store, Opt, Detect, Detection
    <3> QED BY <1>5, <3>1 DEF DetectDone, Opt
  <2>2. EnvTypeOK' /\ asked' = asked /\ written' = written
    BY <1>5 DEF DetectDone, EnvTypeOK, env
  <2>3. store.detect # None /\ store.detect.found # None
    BY <1>5 DEF DetectDone
  <2> QED BY <2>1, <2>2, <2>3, TakeDetectionGood DEF EnvTypeOK
<1>6. CASE LoadRead
  <2> DEFINE read == [files |-> files[store.load.project], meta |-> metadata[store.load.roots]]
             s == [store EXCEPT !.load.read = read]
  <2>1. EnvTypeOK' /\ asked' = asked /\ written' = written /\ store' = s
    BY <1>6 DEF LoadRead, EnvTypeOK, env
  <2>2. store.load \in Load
    BY <1>6 DEF LoadRead, Store, Opt
  <2>3. read \in [files : Nat, meta : Nat]
    BY <2>2 DEF Load, EnvTypeOK
  <2> HIDE DEF read
  <2>4. [store.load EXCEPT !.read = read] \in Opt(Load)
    BY <2>2, <2>3 DEF Load, Opt
  <2>5. s \in Store
    BY <2>4 DEF Store
  <2>6. SameCore(store, s)
    BY DEF Store, SameCore
  <2> QED BY <2>1, <2>5, <2>6, Frame DEF EnvTypeOK
<1>7. CASE LoadDone
  <2> DEFINE made == [id |-> FreshId(store), project |-> store.load.project,
                      roots |-> store.load.roots, files |-> store.load.read.files,
                      meta |-> store.load.read.meta]
  <2>1. /\ EnvTypeOK' /\ asked' = asked /\ written' = written
        /\ store' = TakeLoad(store, made) /\ store.load # None /\ store.load.read # None
    BY <1>7 DEF LoadDone, EnvTypeOK, env
  <2>2. store.load \in Load /\ store.load.read \in [files : Nat, meta : Nat]
    BY <2>1 DEF Store, Opt, Load
  <2>3. FreshId(store) \in Nat /\ \A held \in Held(store) : held.id # FreshId(store)
    BY FreshAddress
  <2>4. made \in Snapshot /\ made.project = store.load.project /\ made.id = FreshId(store)
    BY <2>2, <2>3 DEF Snapshot, Load
  <2> HIDE DEF made
  <2> QED BY <2>1, <2>3, <2>4, TakeLoadGood DEF EnvTypeOK
<1>8. CASE LookRead
  <2> DEFINE look == [store.look EXCEPT !.found = disk[store.look.folder]]
             s == [store EXCEPT !.look = look]
  <2>1. EnvTypeOK' /\ asked' = asked /\ written' = written /\ store.look # None
    BY <1>8 DEF LookRead, EnvTypeOK, env
  <2>2. store.look \in Look
    BY <2>1 DEF Store, Opt
  <2>3. look \in Look /\ look.snapshot = store.look.snapshot /\ look.project = store.look.project
    BY <2>2 DEF Look, EnvTypeOK, Opt
  <2>4. look # None
    BY <2>3, ConstantsAssumption
  <2>5. store' = s
    BY <1>8 DEF LookRead
  <2> HIDE DEF look
  <2>6. /\ s \in Store /\ s.look = look
        /\ s.active = store.active /\ s.snapshot = store.snapshot
        /\ s.migration = store.migration /\ s.queue = store.queue /\ s.write = store.write
    <3>1. look \in Opt(Look)
      BY <2>3 DEF Opt
    <3>2. s \in Store
      BY <3>1 DEF Store
    <3> QED BY <3>2 DEF Store
  <2> HIDE DEF s
  <2>7. Held(s) \subseteq Held(store)
    BY <2>1, <2>3, <2>6, HeldMembers
  <2>8. OneAddress(s)
    BY <2>6, <2>7, OneAddressShrinks DEF Good, Proper
  <2>9. Ordered(s, asked, written)
    BY <2>6, Zenon DEF Ordered
  <2>10. Good(s)
    BY <2>1, <2>3, <2>6, <2>8 DEF Good, Proper
  <2> QED BY <2>1, <2>5, <2>6, <2>9, <2>10
<1>9. CASE LookDone
  <2>1. /\ EnvTypeOK' /\ asked' = asked /\ written' = written
        /\ store' = TakeLook(store) /\ store.look # None /\ store.look.found # None
    BY <1>9 DEF LookDone, EnvTypeOK, env
  <2> QED BY <2>1, TakeLookGood DEF EnvTypeOK
<1>10. CASE WriteFolder
  <2>1. PICK ok \in BOOLEAN :
          LET f == store.write.folder
              kept == IF disk[f].meta = None THEN store.write.snapshot.roots ELSE disk[f].meta
          IN  /\ store' = [store EXCEPT !.write.result = [of |-> store.write.op.of, ok |-> ok]]
              /\ disk' = IF ok THEN [disk EXCEPT ![f] = [rev |-> @.rev + 1, meta |-> kept]]
                         ELSE disk
              /\ notices' = IF ok THEN notices \cup Told("state", f) ELSE notices
    BY <1>10 DEF WriteFolder
  <2> DEFINE write == [store.write EXCEPT !.result = [of |-> store.write.op.of, ok |-> ok]]
             s == [store EXCEPT !.write = write]
  <2>2. /\ store.write # None /\ store.write.result = None
        /\ written' = store.write.op.id /\ asked' = asked
    BY <1>10 DEF WriteFolder
  <2>3. store.write \in Write
    BY <2>2 DEF Store, Opt
  <2>4. /\ store.write.folder \in Folders /\ store.write.op.id \in Nat
        /\ store.write.op.of \in Projects /\ store.write.snapshot.roots \in Roots
    BY <2>3 DEF Write, Op, Snapshot
  <2>5. notices' \in SUBSET Notice
    BY <2>1, <2>4, ToldType DEF EnvTypeOK
  <2>6. disk' \in [Folders -> FolderState]
    BY <2>1, <2>4 DEF EnvTypeOK, FolderState, Opt
  <2>7. EnvTypeOK'
    BY <1>10, <2>2, <2>4, <2>5, <2>6 DEF WriteFolder, EnvTypeOK
  <2>8. [of |-> store.write.op.of, ok |-> ok] \in Result
    BY <2>4 DEF Result
  <2>9. /\ write \in Write /\ write.op = store.write.op /\ write.snapshot = store.write.snapshot
        /\ write.result = [of |-> store.write.op.of, ok |-> ok]
    BY <2>3, <2>8 DEF Write, Opt
  <2>10. write # None /\ write.result # None
    BY <2>8, <2>9, ConstantsAssumption
  <2>11. store' = s
    BY <2>1
  <2> HIDE DEF write
  <2>12. /\ s \in Store /\ s.write = write
         /\ s.active = store.active /\ s.snapshot = store.snapshot /\ s.look = store.look
         /\ s.migration = store.migration /\ s.queue = store.queue
    <3>1. write \in Opt(Write)
      BY <2>9 DEF Opt
    <3>2. s \in Store
      BY <3>1 DEF Store
    <3> QED BY <3>2 DEF Store
  <2> HIDE DEF s
  <2>13. Held(s) \subseteq Held(store)
    BY <2>2, <2>9, <2>12, HeldMembers
  <2>14. OneAddress(s)
    BY <2>12, <2>13, OneAddressShrinks DEF Good, Proper
  <2>15. Good(s)
    BY <2>2, <2>9, <2>10, <2>12, <2>14 DEF Good, Proper
  <2>16. Ordered(s, asked', written')
    BY <2>2, <2>9, <2>10, <2>12 DEF Ordered
  <2> QED BY <2>7, <2>11, <2>12, <2>15, <2>16
<1>11. CASE WriteRead
  <2> DEFINE write == [store.write EXCEPT !.found = disk[store.write.folder]]
             s == [store EXCEPT !.write = write]
  <2>1. /\ EnvTypeOK' /\ asked' = asked /\ written' = written
        /\ store.write # None /\ store.write.result # None
    BY <1>11 DEF WriteRead, EnvTypeOK, env
  <2>2. store.write \in Write
    BY <2>1 DEF Store, Opt
  <2>3. /\ write \in Write /\ write.op = store.write.op /\ write.snapshot = store.write.snapshot
        /\ write.result = store.write.result
    BY <2>2 DEF Write, EnvTypeOK, Opt
  <2>4. write # None
    BY <2>3, ConstantsAssumption
  <2>5. store' = s
    BY <1>11 DEF WriteRead
  <2> HIDE DEF write
  <2>6. /\ s \in Store /\ s.write = write
        /\ s.active = store.active /\ s.snapshot = store.snapshot /\ s.look = store.look
        /\ s.migration = store.migration /\ s.queue = store.queue
    <3>1. write \in Opt(Write)
      BY <2>3 DEF Opt
    <3>2. s \in Store
      BY <3>1 DEF Store
    <3> QED BY <3>2 DEF Store
  <2> HIDE DEF s
  <2>7. Held(s) \subseteq Held(store)
    BY <2>1, <2>3, <2>6, HeldMembers
  <2>8. OneAddress(s)
    BY <2>6, <2>7, OneAddressShrinks DEF Good, Proper
  <2>9. Good(s)
    BY <2>1, <2>3, <2>4, <2>6, <2>8 DEF Good, Proper
  <2>10. Ordered(s, asked, written)
    BY <2>1, <2>3, <2>6 DEF Ordered
  <2> QED BY <2>1, <2>5, <2>6, <2>9, <2>10
<1>12. CASE WriteDone
  <2>1. /\ EnvTypeOK' /\ asked' = asked /\ written' = written
        /\ store' = TakeWrite(store) /\ store.write # None /\ store.write.found # None
    BY <1>12 DEF WriteDone, EnvTypeOK, env
  <2>2. store.write.result # None
    BY <2>1 DEF Good, Proper
  <2> QED BY <2>1, <2>2, TakeWriteGood DEF EnvTypeOK
<1> QED
  BY <1>1, <1>2, <1>3, <1>4, <1>5, <1>6, <1>7, <1>8, <1>9, <1>10, <1>11, <1>12 DEF Tasks

\* The invariant holds in every reachable state.
THEOREM Invariance == Spec => []IInv
<1>1. IInv /\ [Next]_vars => IInv'
  <2> SUFFICES ASSUME IInv, [Next]_vars PROVE IInv'
    OBVIOUS
  <2>1. CASE Outside
    BY <2>1, OutsideGood
  <2>2. CASE Tasks
    BY <2>2, TasksGood
  <2>3. CASE UNCHANGED vars
    BY <2>3 DEF vars, env, IInv, EnvTypeOK, Good, Proper, OneAddress, Held, Ordered
  <2> QED BY <2>1, <2>2, <2>3 DEF Next
<1> QED BY <1>1, InitGood, PTL DEF Spec

\* Every variable keeps its type.
THEOREM TypeCorrect == Spec => []TypeOK
<1>1. IInv => TypeOK
  BY DEF IInv, EnvTypeOK, TypeOK
<1> QED BY <1>1, Invariance, PTL

\* No snapshot and no migration of another project than the one shown is ever
\* shown, for any interleaving of reads, looks, writes, detections and switches
\* of project.
THEOREM ShownOfTheActive == Spec => []ShownIsActive
<1>1. IInv => ShownIsActive
  BY DEF IInv, Good, Proper, ShownIsActive
<1> QED BY <1>1, Invariance, PTL

\* Nothing is written for another project than it was asked for.
THEOREM WrittenForItsProject == Spec => []WritesOwnProject
<1>1. IInv => WritesOwnProject
  BY DEF IInv, Good, Proper, WritesOwnProject
<1> QED BY <1>1, Invariance, PTL

\* Nothing waits in the queue beside no write (write_next).
THEOREM QueueIsServed == Spec => []QueueServed
<1>1. IInv => QueueServed
  BY DEF IInv, Good, Proper, QueueServed
<1> QED BY <1>1, Invariance, PTL

\* Operations are written in the order asked.
THEOREM InOrder == Spec => WritesInOrder
<1>1. IInv /\ [Next]_vars => [written' # written => written' > written]_written
  <2> SUFFICES ASSUME IInv, [Next]_vars, written' # written PROVE written' > written
    OBVIOUS
  <2>1. WriteFolder
    BY DEF Next, Outside, Tasks, vars, WorktreeAdded, WorktreeRemoved, EditFiles, EditMetadata,
           EditState, Activate, AskReload, AskLook, ClearLastResult, SetMetadataFolders, SetMigrationFolder,
           ImportProcess, QueueMigration, WorktreeUpdatedEntries, DebounceFires, KvpStored,
           DetectRead, DetectDone, LoadRead, LoadDone, LookRead, LookDone, WriteRead, WriteDone
  <2>2. store.write.op.id \in Nat /\ written \in Nat
    BY <2>1 DEF WriteFolder, IInv, EnvTypeOK, Store, Opt, Write, Op
  <2> QED BY <2>1, <2>2 DEF WriteFolder, IInv, Ordered
<1> QED BY <1>1, Invariance, PTL DEF Spec, WritesInOrder

-----------------------------------------------------------------------------
(***************************************************************************)
(* What the store owes: while something shown is not what it should be, a  *)
(* task under way, a change not told or a debounce will put it right.      *)
(*                                                                         *)
(* Some of it is owed only where no two of the outside events meet that the*)
(* code does not reconcile.  The conditions are on k, the kinds of events  *)
(* of a behaviour; where one fails, TLC shows that one of the properties   *)
(* they are for fails.                                                     *)
(***************************************************************************)

\* The workspace's folders stay: detect runs once, before a project is shown.
DetectsOnce(k) == k \cap {"add", "remove"} = {}

\* No detect takes over another pick, or another folder, than the store holds.
PicksKept(k) == DetectsOnce(k) \/ "pick" \notin k
FoldersKept(k) == DetectsOnce(k) \/ k \cap {"folder", "import"} = {}

\* Nothing is migrated; or, while something is, the project shown, its folder
\* and the state in it change by the writes of the store alone.
NoWrites(k) == "queue" \notin k /\ FoldersKept(k)
WritesAlone(k) == k \cap {"activate", "folder", "import", "remove", "state"} = {}
Apart(k) == NoWrites(k) \/ WritesAlone(k)

\* The read under way is of the project shown.
Reading(s) == s.load # None /\ s.load.project = s.active

\* The project shown will be read (again), and its migration looked at then.
ReadComing(s) == s.debounce \/ s.reload_pending \/ Reading(s)

\* m, a migration or a look, is of the snapshot shown and of the folder chosen.
Current(s, m) == m.snapshot.id = s.snapshot.id /\ m.folder = MigrationFolder(s)

\* What is looked at will be shown.
LookCurrent(s) == s.look # None /\ s.look.project = s.active /\ Current(s, s.look)

\* A read asked during another is after it.
PendingRead(s) == s.reload_pending => s.load # None

\* The project shown was read since its files f last changed, or will be.
UpToDate(s, f, n) ==
    s.active # None =>
       \/ s.debounce \/ s.reload_pending \/ [kind |-> "files", at |-> s.active] \in n
       \/ Reading(s) /\ (s.load.read = None \/ s.load.read.files = f[s.active])
       \/ ~Reading(s) /\ s.snapshot # None /\ s.snapshot.files = f[s.active]

\* ... with the metadata folders it is to be read with.
RootsRight(s) ==
    s.active # None =>
       \/ s.reload_pending
       \/ Reading(s) /\ s.load.roots = RootsOf(s, s.active)
       \/ ~Reading(s) /\ (s.snapshot # None => s.snapshot.roots = RootsOf(s, s.active))

\* The migration of the snapshot shown is shown, or will be: after a read, a
\* look, or the write that goes on in the migration of an earlier snapshot.
Settling(s) ==
    s.active # None /\ s.snapshot # None =>
       \/ ReadComing(s)
       \/ s.write = None /\ LookCurrent(s)
       \/ s.migration # None /\ Current(s, s.migration) /\ ~MetadataDiffers(s.migration)
       \/ s.write # None /\ s.migration # None /\ s.migration.snapshot.id # s.snapshot.id

\* Metadata folders that the migration shown keeps to are read, or will be.
RootsFollow(s) ==
    s.active # None /\ s.snapshot # None /\ s.migration # None =>
       \/ ReadComing(s)
       \/ s.migration.snapshot.id # s.snapshot.id
       \/ ~MetadataDiffers(s.migration)

\* The migration shown is what the state files d say, or will be looked at.
Fresh(s, d, n) ==
    s.active # None /\ s.snapshot # None /\ MigrationFolder(s) \in Watched =>
       \/ ReadComing(s)
       \/ [kind |-> "state", at |-> MigrationFolder(s)] \in n
       \/ LookCurrent(s) /\ (s.look.found = None \/ s.look.found = d[s.look.folder])
       \/ /\ ~LookCurrent(s) /\ s.migration # None /\ Current(s, s.migration)
          /\ s.migration.found = d[s.migration.folder]

\* Where only the store writes, the migration shown is what its state file says
\* but during a write, which is into the migration shown.
Writing(s, d) ==
    /\ s.migration # None => s.migration.folder = MigrationFolder(s)
    /\ s.migration # None /\ s.write = None => s.migration.found = d[s.migration.folder]
    /\ s.look # None /\ s.look.found # None => s.look.found = d[s.look.folder]
    /\ s.write # None =>
          /\ s.migration # None /\ s.write.snapshot = s.migration.snapshot
          /\ s.write.folder = s.migration.folder
          /\ s.write.result = None => d[s.write.folder] = s.migration.found
          /\ \/ d[s.write.folder].meta = s.migration.found.meta
             \/ /\ s.migration.found.meta = None
                /\ d[s.write.folder].meta = s.migration.snapshot.roots
          /\ s.write.found # None => s.write.found = d[s.write.folder]

\* What holds of the writes, whatever is read or looked at.
Writes(s, d, k) ==
    /\ "queue" \notin k => s.write = None /\ s.queue = <<>>
    /\ WritesAlone(k) => Writing(s, d)

\* Everything the store owes.
Owed(s, f, n, d, k) ==
    /\ UpToDate(s, f, n)
    /\ PicksKept(k) => RootsRight(s)
    /\ Apart(k) => Settling(s) /\ RootsFollow(s)
    /\ NoWrites(k) => Fresh(s, d, n)

Sound(s, f, n, d, k) == PendingRead(s) /\ Writes(s, d, k) /\ Owed(s, f, n, d, k)

\* What detect finds is the workspace ws, and the project shown is one found.
Detecting(s, ws, k) ==
    /\ s.active # None => s.active \in s.projects
    /\ s.detect # None => s.detect.roots = ws
    /\ s.detect # None /\ s.detect.found # None => s.detect.found.projects = ws
    /\ s.detect = None => s.projects = ws
    /\ DetectsOnce(k) /\ s.detect # None => s.projects = {}
    /\ "remove" \notin k => s.projects \subseteq ws
    /\ "import" \notin k => s.importing = None

\* What no event changes is what the database kv holds.
Stored(s, kv, kw, k) ==
    /\ "pick" \notin k =>
          /\ \A w \in kw : w.map # "picked"
          /\ \A p \in s.projects : s.picked[p] = kv.picked[p]
          /\ s.detect # None /\ s.detect.found # None =>
                \A p \in s.detect.found.projects : s.detect.found.picked[p] = kv.picked[p]
    /\ k \cap {"folder", "import"} = {} =>
          /\ \A w \in kw : w.map # "folders"
          /\ \A p \in Projects : s.folders[p] = None \/ s.folders[p] = kv.folders[p]
          /\ \A p \in s.projects : s.folders[p] = kv.folders[p]
          /\ s.detect # None /\ s.detect.found # None =>
                LET found == s.detect.found
                IN  /\ \A p \in found.projects : found.folders[p] = kv.folders[p]
                    /\ \A p \in Projects :
                          found.folders[p] = None \/ found.folders[p] = kv.folders[p]

Chosen(s, ws, kv, kw, k) == Detecting(s, ws, k) /\ Stored(s, kv, kw, k)

\* The stores s and t hold the same projects, picks and folders ...
SameChoices(s, t) ==
    /\ t.projects = s.projects /\ t.active = s.active /\ t.picked = s.picked
    /\ t.folders = s.folders /\ t.detect = s.detect /\ t.importing = s.importing

\* ... and the same reads.
SameReads(s, t) ==
    t.debounce = s.debounce /\ t.reload_pending = s.reload_pending /\ t.load = s.load

\* A read of the project shown, if there is one, is asked for.
ReadStarted(s) ==
    s.active # None =>
       \/ s.reload_pending
       \/ Reading(s) /\ s.load.read = None /\ s.load.roots = RootsOf(s, s.active)

-----------------------------------------------------------------------------
(* The handlers and what they owe *)

\* Choices are kept where their fields are.
LEMMA ChosenFrame ==
    ASSUME NEW s \in Store, NEW t \in Store, NEW ws, NEW kv, NEW kw, NEW k,
           SameChoices(s, t), Chosen(s, ws, kv, kw, k)
    PROVE  Chosen(t, ws, kv, kw, k)
BY DEF SameChoices, Chosen, Detecting, Stored

\* The writes' part is kept where the core fields and the folder are.
LEMMA WritesFrame ==
    ASSUME NEW s \in Store, NEW t \in Store, NEW d, NEW k, SameCore(s, t),
           WritesAlone(k) /\ s.migration # None => MigrationFolder(t) = MigrationFolder(s),
           Writes(s, d, k)
    PROVE  Writes(t, d, k)
<1>1. ASSUME WritesAlone(k) PROVE Writing(t, d)
  <2>1. /\ Writing(s, d)
        /\ s.migration # None => MigrationFolder(t) = MigrationFolder(s)
    BY <1>1 DEF Writes
  <2> QED BY <2>1 DEF Writing, SameCore
<1> QED BY <1>1 DEF Writes, SameCore

\* Everything is kept where the fields it is about are.
LEMMA SoundFrame ==
    ASSUME NEW s \in Store, NEW t \in Store, NEW f, NEW n, NEW d, NEW k,
           SameCore(s, t), SameReads(s, t), Sound(s, f, n, d, k),
           PicksKept(k) /\ s.active # None => RootsOf(t, s.active) = RootsOf(s, s.active),
           Apart(k) /\ (s.active # None \/ s.migration # None) =>
              MigrationFolder(t) = MigrationFolder(s)
    PROVE  Sound(t, f, n, d, k)
<1>1. PendingRead(t)
  BY DEF Sound, PendingRead, SameReads
<1>2. Writes(t, d, k)
  BY WritesFrame DEF Sound, Apart
<1>3. UpToDate(t, f, n)
  BY DEF Sound, Owed, UpToDate, Reading, SameReads, SameCore
<1>4. PicksKept(k) => RootsRight(t)
  BY DEF Sound, Owed, RootsRight, Reading, SameReads, SameCore
<1>5. Apart(k) => Settling(t) /\ RootsFollow(t)
  BY DEF Sound, Owed, Settling, RootsFollow, ReadComing, Reading, LookCurrent, Current,
         SameReads, SameCore
<1>6. NoWrites(k) => Fresh(t, d, n)
  BY DEF Sound, Owed, Fresh, ReadComing, Reading, LookCurrent, Current, Apart,
         SameReads, SameCore
<1> QED BY <1>1, <1>2, <1>3, <1>4, <1>5, <1>6 DEF Sound, Owed

\* A read asked for pays all that is owed.
LEMMA ReadPays ==
    ASSUME NEW s \in Store, NEW f, NEW n, NEW d, NEW k, ReadStarted(s)
    PROVE  Owed(s, f, n, d, k)
BY DEF ReadStarted, Owed, UpToDate, RootsRight, Settling, RootsFollow, Fresh, ReadComing

\* Reload(s) asks for a read, and touches nothing else.
LEMMA ReloadShape ==
    ASSUME NEW s \in Store
    PROVE  /\ SameChoices(s, Reload(s)) /\ Reload(s).pinned = s.pinned
           /\ Reload(s).debounce = s.debounce
           /\ ReadStarted(Reload(s)) /\ (PendingRead(s) => PendingRead(Reload(s)))
<1> DEFINE t == Reload(s)
           load == [project |-> s.active, roots |-> RootsOf(s, s.active), read |-> None]
<1>1. CASE s.active = None
  BY <1>1 DEF Reload, SameChoices, ReadStarted
<1>2. CASE s.active # None /\ s.load # None
  <2>1. t = [s EXCEPT !.reload_pending = TRUE]
    BY <1>2 DEF Reload
  <2>2. SameChoices(s, t) /\ t.pinned = s.pinned /\ t.debounce = s.debounce
    BY <2>1 DEF Store, SameChoices
  <2>3. t.reload_pending /\ t.load = s.load
    BY <2>1 DEF Store
  <2> QED BY <1>2, <2>2, <2>3 DEF ReadStarted, PendingRead
<1>3. CASE s.active # None /\ s.load = None
  <2>1. t = [s EXCEPT !.load = load]
    BY <1>3 DEF Reload
  <2>2. /\ load.project = s.active /\ load.roots = RootsOf(s, s.active) /\ load.read = None
    OBVIOUS
  <2>3. load \in Load
    <3>1. RootsOf(s, s.active) \in Roots
      BY <1>3, ConstantsAssumption DEF RootsOf, Store, Opt
    <3> QED BY <1>3, <3>1 DEF Load, Opt, Store
  <2>4. load # None
    BY <2>3, ConstantsAssumption
  <2> HIDE DEF load
  <2>5. SameChoices(s, t) /\ t.pinned = s.pinned /\ t.debounce = s.debounce /\ t.load = load
    BY <2>1 DEF Store, SameChoices
  <2>6. RootsOf(t, t.active) = RootsOf(s, s.active)
    BY <2>5 DEF RootsOf, SameChoices
  <2> QED BY <1>3, <2>2, <2>4, <2>5, <2>6 DEF ReadStarted, PendingRead, Reading, SameChoices
<1> QED BY <1>1, <1>2, <1>3

\* Reading again pays all that is owed.
LEMMA ReloadSound ==
    ASSUME NEW s \in Store, NEW f, NEW n, NEW d, NEW k, PendingRead(s), Writes(s, d, k)
    PROVE  Sound(Reload(s), f, n, d, k)
<1>1. Reload(s) \in Store /\ SameCore(s, Reload(s))
  BY ReloadType
<1>2. /\ SameChoices(s, Reload(s))
      /\ ReadStarted(Reload(s)) /\ PendingRead(Reload(s))
  BY ReloadShape
<1>3. MigrationFolder(Reload(s)) = MigrationFolder(s)
  BY <1>2 DEF MigrationFolder, SameChoices
<1>4. Writes(Reload(s), d, k)
  BY <1>1, <1>3, WritesFrame
<1>5. Owed(Reload(s), f, n, d, k)
  BY <1>1, <1>2, ReadPays
<1> QED BY <1>2, <1>4, <1>5 DEF Sound

\* RefreshMigration(s) starts a look, or shows no migration.
LEMMA RefreshShape ==
    ASSUME NEW s \in Store
    PROVE  LET t == RefreshMigration(s)
           IN  /\ t \in Store /\ SameChoices(s, t) /\ SameReads(s, t) /\ t.pinned = s.pinned
               /\ t.snapshot = s.snapshot /\ t.queue = s.queue /\ t.write = s.write
               /\ s.write # None => t = s
               /\ s.write = None /\ (s.active = None \/ s.snapshot = None) =>
                     t.migration = None /\ t.look = s.look
               /\ s.write = None /\ s.active # None /\ s.snapshot # None =>
                     /\ t.migration = s.migration /\ t.look # None
                     /\ t.look = [project |-> s.active, snapshot |-> s.snapshot,
                                  folder |-> MigrationFolder(s), found |-> None]
<1> DEFINE t == RefreshMigration(s)
<1>1. CASE s.write # None
  BY <1>1 DEF RefreshMigration, SameChoices, SameReads
<1>2. CASE s.write = None /\ (s.active = None \/ s.snapshot = None)
  <2>1. t = [s EXCEPT !.migration = None]
    BY <1>2 DEF RefreshMigration
  <2>2. t \in Store
    BY <2>1 DEF Store, Opt
  <2>3. SameChoices(s, t) /\ SameReads(s, t) /\ t.pinned = s.pinned
    BY <2>1 DEF Store, SameChoices, SameReads
  <2>4. /\ t.snapshot = s.snapshot /\ t.queue = s.queue /\ t.write = s.write
        /\ t.migration = None /\ t.look = s.look
    BY <2>1 DEF Store
  <2> QED BY <1>2, <2>2, <2>3, <2>4
<1>3. CASE s.write = None /\ s.active # None /\ s.snapshot # None
  <2> DEFINE look == [project |-> s.active, snapshot |-> s.snapshot,
                      folder |-> MigrationFolder(s), found |-> None]
  <2>1. t = [s EXCEPT !.look = look]
    BY <1>3 DEF RefreshMigration
  <2>2. MigrationFolder(s) \in Folders
    BY <1>3, ConstantsAssumption DEF MigrationFolder, Store, Opt
  <2>3. look \in Look
    BY <1>3, <2>2 DEF Look, Opt, Store
  <2>4. look # None /\ look \in Opt(Look)
    BY <2>3, ConstantsAssumption DEF Opt
  <2> HIDE DEF look
  <2>5. t \in Store
    BY <2>1, <2>4 DEF Store
  <2>6. SameChoices(s, t) /\ SameReads(s, t) /\ t.pinned = s.pinned
    BY <2>1 DEF Store, SameChoices, SameReads
  <2>7. /\ t.snapshot = s.snapshot /\ t.queue = s.queue /\ t.write = s.write
        /\ t.migration = s.migration /\ t.look = look
    BY <2>1 DEF Store
  <2> QED BY <1>3, <2>4, <2>5, <2>6, <2>7 DEF look
<1> QED BY <1>1, <1>2, <1>3

\* Looking again keeps the writes' part.
LEMMA RefreshWrites ==
    ASSUME NEW s \in Store, NEW d, NEW k, Writes(s, d, k)
    PROVE  Writes(RefreshMigration(s), d, k)
<1> DEFINE t == RefreshMigration(s)
<1>1. CASE s.write # None
  BY <1>1, RefreshShape
<1>2. CASE s.write = None
  <2>1. /\ t.queue = s.queue /\ t.write = None
        /\ t.migration = None \/ t.migration = s.migration
        /\ \/ t.look = s.look
           \/ t.look = [project |-> s.active, snapshot |-> s.snapshot,
                        folder |-> MigrationFolder(s), found |-> None]
    BY <1>2, RefreshShape, Zenon
  <2>2. MigrationFolder(t) = MigrationFolder(s)
    BY RefreshShape DEF MigrationFolder, SameChoices
  <2> HIDE DEF t
  <2>3. ASSUME WritesAlone(k) PROVE Writing(t, d)
    <3>1. Writing(s, d)
      BY <2>3 DEF Writes
    <3> QED BY <1>2, <2>1, <2>2, <3>1 DEF Writing
  <2> QED BY <1>2, <2>1, <2>3 DEF Writes, t
<1> QED BY <1>1, <1>2

\* Looking again pays what is owed of the migration, but during a write.
LEMMA RefreshSound ==
    ASSUME NEW s \in Store, NEW f, NEW n, NEW d, NEW k, PendingRead(s), Writes(s, d, k),
           UpToDate(s, f, n), PicksKept(k) => RootsRight(s), Apart(k) => RootsFollow(s),
           Apart(k) /\ s.write # None => Settling(s)
    PROVE  Sound(RefreshMigration(s), f, n, d, k)
<1> DEFINE t == RefreshMigration(s)
<1>1. Writes(t, d, k)
  BY RefreshWrites
<1>2. SameReads(s, t) /\ SameChoices(s, t) /\ t.snapshot = s.snapshot /\ t.pinned = s.pinned
  BY RefreshShape
<1>3. PendingRead(t)
  BY <1>2 DEF PendingRead, SameReads
<1>4. UpToDate(t, f, n)
  BY <1>2 DEF UpToDate, Reading, SameReads, SameChoices
<1>5. RootsRight(s) => RootsRight(t)
  BY <1>2 DEF RootsRight, RootsOf, Reading, SameReads, SameChoices
<1>6. MigrationFolder(t) = MigrationFolder(s)
  BY <1>2 DEF MigrationFolder, SameChoices
<1>7. NoWrites(k) => s.write = None
  BY DEF NoWrites, Writes
<1>8. CASE s.write # None
  <2>1. t = s
    BY <1>8, RefreshShape
  <2> HIDE DEF t
  <2> QED BY <1>3, <1>7, <1>8, <2>1 DEF Sound, Owed, t
<1>9. CASE s.write = None
  <2>1. CASE s.active = None \/ s.snapshot = None
    <3>1. Settling(t) /\ RootsFollow(t) /\ Fresh(t, d, n)
      BY <1>2, <2>1 DEF Settling, RootsFollow, Fresh, SameChoices
    <3> QED BY <1>1, <1>3, <1>4, <1>5, <3>1 DEF Sound, Owed
  <2>2. CASE s.active # None /\ s.snapshot # None
    <3>a. /\ t.write = None /\ t.look # None /\ t.migration = s.migration
          /\ t.look = [project |-> s.active, snapshot |-> s.snapshot,
                       folder |-> MigrationFolder(s), found |-> None]
      BY <1>9, <2>2, RefreshShape, Zenon
    <3> HIDE DEF t
    <3>1. /\ t.write = None /\ t.look # None /\ t.migration = s.migration
          /\ t.look.project = s.active /\ t.look.snapshot = s.snapshot
          /\ t.look.folder = MigrationFolder(s) /\ t.look.found = None
      BY <3>a
    <3>2. LookCurrent(t)
      BY <1>2, <1>6, <3>1 DEF LookCurrent, Current, SameChoices
    <3>3. RootsFollow(s) => RootsFollow(t)
      BY <1>2, <3>1 DEF RootsFollow, ReadComing, Reading, SameReads, SameChoices
    <3>4. Settling(t) /\ Fresh(t, d, n)
      BY <3>1, <3>2 DEF Settling, Fresh
    <3> QED BY <1>1, <1>3, <1>4, <1>5, <3>3, <3>4 DEF Sound, Owed, t
  <2> QED BY <2>1, <2>2
<1> QED BY <1>8, <1>9
\* Show(s, p) touches the project shown, its snapshot and its migration.
LEMMA ShowShape ==
    ASSUME NEW s \in Store, NEW p \in Opt(Projects)
    PROVE  LET t == Show(s, p)
           IN  /\ t \in Store /\ SameReads(s, t) /\ t.pinned = s.pinned
               /\ t.projects = s.projects /\ t.picked = s.picked /\ t.folders = s.folders
               /\ t.detect = s.detect /\ t.importing = s.importing
               /\ t.active = p /\ t.snapshot = None /\ t.migration = None
               /\ t.look = s.look /\ t.queue = s.queue /\ t.write = s.write
<1> DEFINE t == Show(s, p)
<1>1. t \in Store
  BY DEF Show, Store, Opt
<1>2. /\ SameReads(s, t) /\ t.pinned = s.pinned
      /\ t.projects = s.projects /\ t.picked = s.picked /\ t.folders = s.folders
      /\ t.detect = s.detect /\ t.importing = s.importing
  BY DEF Show, Store, SameReads
<1>3. /\ t.active = p /\ t.snapshot = None /\ t.migration = None
      /\ t.look = s.look /\ t.queue = s.queue /\ t.write = s.write
  BY DEF Show, Store
<1> QED BY <1>1, <1>2, <1>3

\* Another project can be shown where no write of the store alone goes on.
LEMMA ShowWrites ==
    ASSUME NEW s \in Store, NEW p \in Opt(Projects), NEW d, NEW k,
           PendingRead(s), Writes(s, d, k), WritesAlone(k) => s.write = None
    PROVE  PendingRead(Show(s, p)) /\ Writes(Show(s, p), d, k)
<1> DEFINE t == Show(s, p)
<1>1. /\ SameReads(s, t) /\ t.migration = None
      /\ t.look = s.look /\ t.queue = s.queue /\ t.write = s.write
  BY ShowShape
<1> HIDE DEF t
<1>2. WritesAlone(k) => Writing(t, d)
  BY <1>1 DEF Writes, Writing
<1> QED BY <1>1, <1>2 DEF PendingRead, SameReads, Writes, t

\* What the last result says is owed by nothing.
LEMMA ResultShape ==
    ASSUME NEW s \in Store, NEW r
    PROVE  LET t == [s EXCEPT !.last_result = r]
           IN  /\ SameCore(s, t) /\ SameChoices(s, t) /\ SameReads(s, t)
               /\ t.pinned = s.pinned
BY DEF Store, SameCore, SameChoices, SameReads

\* Fields that name the roots and the folder of a project.
LEMMA SameViews ==
    ASSUME NEW s \in Store, NEW t \in Store, SameChoices(s, t), t.pinned = s.pinned
    PROVE  /\ RootsOf(t, s.active) = RootsOf(s, s.active)
           /\ MigrationFolder(t) = MigrationFolder(s)
BY DEF SameChoices, RootsOf, MigrationFolder

\* A store without what the last result said is as sound.
LEMMA ResultSound ==
    ASSUME NEW s \in Store, NEW r \in Opt(Result), NEW f, NEW n, NEW d, NEW k
    PROVE  LET t == [s EXCEPT !.last_result = r]
           IN  /\ Sound(s, f, n, d, k) => Sound(t, f, n, d, k)
               /\ PendingRead(s) => PendingRead(t)
               /\ Writes(s, d, k) => Writes(t, d, k)
<1> DEFINE t == [s EXCEPT !.last_result = r]
<1>1. t \in Store
  BY ResultFrame
<1>2. SameCore(s, t) /\ SameChoices(s, t) /\ SameReads(s, t) /\ t.pinned = s.pinned
  BY ResultShape
<1> HIDE DEF t
<1>3. RootsOf(t, s.active) = RootsOf(s, s.active) /\ MigrationFolder(t) = MigrationFolder(s)
  BY <1>1, <1>2, SameViews
<1>4. Sound(s, f, n, d, k) => Sound(t, f, n, d, k)
  BY <1>1, <1>2, <1>3, SoundFrame
<1>5. Writes(s, d, k) => Writes(t, d, k)
  BY <1>1, <1>2, <1>3, WritesFrame
<1>6. PendingRead(s) => PendingRead(t)
  BY <1>2 DEF PendingRead, SameReads
<1> QED BY <1>4, <1>5, <1>6 DEF t

\* Another project is shown and read: all is paid.
LEMMA ShowReload ==
    ASSUME NEW s \in Store, NEW p \in Opt(Projects), NEW f, NEW n, NEW d, NEW k,
           PendingRead(s), Writes(s, d, k), WritesAlone(k) => s.write = None
    PROVE  /\ Sound(Reload(Show(s, p)), f, n, d, k)
           /\ Sound(Reload([Show(s, p) EXCEPT !.last_result = None]), f, n, d, k)
           /\ LET t == Reload(Show(s, p))
              IN  /\ t.projects = s.projects /\ t.picked = s.picked /\ t.folders = s.folders
                  /\ t.detect = s.detect /\ t.importing = s.importing /\ t.active = p
           /\ LET t == Reload([Show(s, p) EXCEPT !.last_result = None])
              IN  /\ t.projects = s.projects /\ t.picked = s.picked /\ t.folders = s.folders
                  /\ t.detect = s.detect /\ t.importing = s.importing /\ t.active = p
<1> DEFINE t == Show(s, p)
           u == [t EXCEPT !.last_result = None]
<1>1. /\ t \in Store /\ t.projects = s.projects /\ t.picked = s.picked
      /\ t.folders = s.folders /\ t.detect = s.detect /\ t.importing = s.importing
      /\ t.active = p
  BY ShowShape
<1>2. PendingRead(t) /\ Writes(t, d, k)
  BY ShowWrites
<1> HIDE DEF t
<1>3. u \in Store /\ PendingRead(u) /\ Writes(u, d, k)
  BY <1>1, <1>2, ResultFrame, ResultSound DEF Opt
<1>4. SameChoices(t, u)
  BY <1>1, ResultShape
<1> HIDE DEF u
<1>5. Sound(Reload(t), f, n, d, k) /\ Sound(Reload(u), f, n, d, k)
  BY <1>1, <1>2, <1>3, ReloadSound
<1>6. SameChoices(t, Reload(t)) /\ SameChoices(u, Reload(u))
  BY <1>1, <1>3, ReloadShape
<1> QED BY <1>1, <1>4, <1>5, <1>6 DEF SameChoices, t, u

\* set_active pays all that is owed.
LEMMA SetActiveSound ==
    ASSUME NEW s \in Store, NEW p \in Projects, NEW f, NEW n, NEW d, NEW k,
           PendingRead(s), Writes(s, d, k), ~WritesAlone(k), s.active # p
    PROVE  Sound(SetActive(s, p), f, n, d, k)
BY ShowReload DEF SetActive, Opt

\* set_active shows a project that was found.
LEMMA SetActiveChosen ==
    ASSUME NEW s \in Store, NEW p \in s.projects, NEW ws, NEW kv, NEW kw, NEW k, NEW d,
           PendingRead(s), Writes(s, d, k), ~WritesAlone(k), s.active # p,
           Chosen(s, ws, kv, kw, k)
    PROVE  Chosen(SetActive(s, p), ws, kv, kw, k)
<1> DEFINE t == SetActive(s, p)
<1>1. p \in Opt(Projects)
  BY DEF Store, Opt
<1>2. /\ t.projects = s.projects /\ t.picked = s.picked /\ t.folders = s.folders
      /\ t.detect = s.detect /\ t.importing = s.importing /\ t.active = p
  BY <1>1, ShowReload DEF SetActive
<1> HIDE DEF t
<1>3. Chosen(t, ws, kv, kw, k)
  BY <1>2 DEF Chosen, Detecting, Stored
<1> QED BY <1>3 DEF t

\* WriteNext(s) with an operation that waits and no write under way.
LEMMA WriteNextShape ==
    ASSUME NEW s \in Store
    PROVE  LET t == WriteNext(s)
           IN  /\ SameChoices(s, t) /\ SameReads(s, t) /\ t.pinned = s.pinned
               /\ t.snapshot = s.snapshot /\ t.migration = s.migration
               /\ s.write # None => t = s
               /\ s.write = None /\ s.queue # <<>> /\ s.migration # None =>
                     /\ t.look = None /\ t.write # None
                     /\ t.write = WriteOf(s, Head(s.queue))
<1> DEFINE t == WriteNext(s)
<1>q. s.queue \in Seq(Op)
  BY DEF Store
<1>1. CASE s.write # None \/ s.queue = <<>>
  BY <1>1 DEF WriteNext, SameChoices, SameReads
<1>2. CASE s.write = None /\ s.queue # <<>> /\ s.migration = None
  <2>1. t = [s EXCEPT !.queue = <<>>]
    BY <1>2 DEF WriteNext
  <2>2. SameChoices(s, t) /\ SameReads(s, t) /\ t.pinned = s.pinned
    BY <2>1 DEF Store, SameChoices, SameReads
  <2>3. t.snapshot = s.snapshot /\ t.migration = s.migration
    BY <2>1 DEF Store
  <2> QED BY <1>2, <2>2, <2>3
<1>3. CASE s.write = None /\ s.queue # <<>> /\ s.migration # None
  <2> DEFINE write == WriteOf(s, Head(s.queue))
  <2>1. t = [s EXCEPT !.queue = Tail(s.queue), !.look = None, !.write = write]
    BY <1>3 DEF WriteNext, StartWrite
  <2>2. Head(s.queue) \in Op
    BY <1>q, <1>3, HeadTailProperties
  <2>3. s.migration \in Migration
    BY <1>3 DEF Store, Opt
  <2>4. write \in Write
    BY <2>2, <2>3 DEF WriteOf, Write, Migration, Opt
  <2>5. write # None
    BY <2>4, ConstantsAssumption
  <2> HIDE DEF write
  <2>6. SameChoices(s, t) /\ SameReads(s, t) /\ t.pinned = s.pinned
    BY <2>1 DEF Store, SameChoices, SameReads
  <2>7. /\ t.snapshot = s.snapshot /\ t.migration = s.migration
        /\ t.look = None /\ t.write = write
    BY <2>1 DEF Store
  <2> QED BY <1>3, <2>5, <2>6, <2>7 DEF write
<1> QED BY <1>1, <1>2, <1>3

\* The next write starts: it is into the migration shown, and what is owed is
\* owed by its end.
LEMMA WriteNextSound ==
    ASSUME NEW s \in Store, NEW f, NEW n, NEW d, NEW k,
           "queue" \in k, s.queue # <<>>, PendingRead(s),
           UpToDate(s, f, n), PicksKept(k) => RootsRight(s),
           WritesAlone(k) => /\ s.migration # None /\ Writing(s, d) /\ RootsFollow(s)
                             /\ s.write # None => Settling(s)
    PROVE  Sound(WriteNext(s), f, n, d, k)
<1> DEFINE t == WriteNext(s)
<1>1. /\ SameChoices(s, t) /\ SameReads(s, t) /\ t.pinned = s.pinned
      /\ t.snapshot = s.snapshot /\ t.migration = s.migration
  BY WriteNextShape
<1>2. t.active = s.active
  BY <1>1 DEF SameChoices
<1>3. PendingRead(t)
  BY <1>1 DEF PendingRead, SameReads
<1>4. UpToDate(t, f, n)
  BY <1>1, <1>2 DEF UpToDate, Reading, SameReads
<1>5. RootsRight(s) => RootsRight(t)
  BY <1>1, <1>2 DEF RootsRight, RootsOf, Reading, SameReads, SameChoices
<1>6. MigrationFolder(t) = MigrationFolder(s)
  BY <1>1 DEF MigrationFolder, SameChoices
<1>7. ~NoWrites(k)
  BY DEF NoWrites
<1>8. ASSUME WritesAlone(k) PROVE Writing(t, d) /\ Settling(t) /\ RootsFollow(t)
  <2>1. CASE s.write # None
    <3>1. t = s
      BY <2>1, WriteNextShape
    <3> HIDE DEF t
    <3> QED BY <1>8, <2>1, <3>1
  <2>2. CASE s.write = None
    <3>1. /\ t.look = None /\ t.write # None /\ t.write = WriteOf(s, Head(s.queue))
      BY <1>8, <2>2, WriteNextShape
    <3> HIDE DEF t
    <3>2. /\ t.write.snapshot = s.migration.snapshot /\ t.write.folder = s.migration.folder
          /\ t.write.result = None /\ t.write.found = None
      BY <3>1 DEF WriteOf
    <3>3. /\ s.migration.folder = MigrationFolder(s)
          /\ s.migration.found = d[s.migration.folder]
      BY <1>8, <2>2 DEF Writing
    <3>4. Writing(t, d)
      BY <1>1, <1>6, <1>8, <3>1, <3>2, <3>3 DEF Writing
    <3>5. RootsFollow(t)
      BY <1>1, <1>2, <1>8 DEF RootsFollow, ReadComing, Reading, SameReads
    <3>6. Settling(t)
      BY <1>1, <1>6, <1>8, <3>1, <3>3, <3>5 DEF RootsFollow, Settling, Current
    <3> QED BY <3>4, <3>5, <3>6
  <2> QED BY <2>1, <2>2
<1> HIDE DEF t
<1>9. Writes(t, d, k)
  BY <1>8 DEF Writes
<1>10. Owed(t, f, n, d, k)
  BY <1>4, <1>5, <1>7, <1>8 DEF Owed, Apart
<1> QED BY <1>3, <1>9, <1>10 DEF Sound, t
\* A read ends: it pays what it was to pay, or the read asked meanwhile will.
LEMMA TakeLoadSound ==
    ASSUME NEW s \in Store, NEW made \in Snapshot, NEW f, NEW n, NEW d, NEW k,
           Sound(s, f, n, d, k), Good(s), s.load # None, s.load.read # None,
           made.roots = s.load.roots, made.files = s.load.read.files,
           \A held \in Held(s) : held.id # made.id
    PROVE  /\ Sound(TakeLoad(s, made), f, n, d, k)
           /\ SameChoices(s, TakeLoad(s, made))
<1> DEFINE idle == [s EXCEPT !.load = None]
           read == [idle EXCEPT !.snapshot = made]
           taken == IF s.active = s.load.project THEN RefreshMigration(read) ELSE idle
           again == [taken EXCEPT !.reload_pending = FALSE]
<1>n. made # None
  BY ConstantsAssumption
<1>1. idle \in Store
  BY DEF Store, Opt
<1>2. /\ SameCore(s, idle) /\ SameChoices(s, idle) /\ idle.pinned = s.pinned
      /\ idle.load = None /\ idle.debounce = s.debounce
      /\ idle.reload_pending = s.reload_pending
  BY DEF Store, SameCore, SameChoices
<1>3. read \in Store
  BY <1>1 DEF Store, Opt
<1>4. /\ SameChoices(idle, read) /\ SameReads(idle, read) /\ read.pinned = idle.pinned
      /\ read.snapshot = made /\ read.migration = idle.migration /\ read.look = idle.look
      /\ read.queue = idle.queue /\ read.write = idle.write
  BY <1>1 DEF Store, SameChoices, SameReads
<1> HIDE DEF idle
<1> HIDE DEF read
<1>5. Writes(idle, d, k)
  <2>1. MigrationFolder(idle) = MigrationFolder(s)
    BY <1>2 DEF MigrationFolder, SameChoices
  <2> QED BY <1>1, <1>2, <2>1, WritesFrame DEF Sound
<1>6. Writes(read, d, k)
  <2>1. MigrationFolder(read) = MigrationFolder(idle)
    BY <1>4 DEF MigrationFolder, SameChoices
  <2>2. WritesAlone(k) => Writing(read, d)
    BY <1>4, <1>5, <2>1 DEF Writes, Writing
  <2> QED BY <1>4, <1>5, <2>2 DEF Writes
<1>7. /\ taken \in Store /\ Writes(taken, d, k) /\ SameChoices(s, taken)
      /\ taken.load = None /\ taken.reload_pending = s.reload_pending
  <2>1. LET t == RefreshMigration(read)
        IN t \in Store /\ SameChoices(read, t) /\ SameReads(read, t)
    BY <1>3, RefreshShape
  <2>2. Writes(RefreshMigration(read), d, k)
    BY <1>3, <1>6, RefreshWrites
  <2> QED BY <1>1, <1>2, <1>4, <1>5, <2>1, <2>2 DEF SameChoices, SameReads
<1>8. ~s.reload_pending => Sound(taken, f, n, d, k)
  <2> SUFFICES ASSUME ~s.reload_pending PROVE Sound(taken, f, n, d, k)
    OBVIOUS
  <2>1. CASE s.active = s.load.project
    <3>1. read.active = s.active /\ ~Reading(read) /\ read.reload_pending = s.reload_pending
          /\ read.debounce = s.debounce
      BY <1>2, <1>4 DEF Reading, SameReads, SameChoices
    <3>2. Reading(s)
      BY <2>1 DEF Reading
    <3>3. UpToDate(read, f, n)
      BY <1>4, <1>n, <3>1, <3>2 DEF UpToDate, Sound, Owed
    <3>4. PicksKept(k) => RootsRight(read)
      <4>1. RootsOf(read, s.active) = RootsOf(s, s.active)
        BY <1>2, <1>4 DEF RootsOf, SameChoices
      <4> QED BY <1>4, <3>1, <3>2, <4>1 DEF RootsRight, Sound, Owed
    <3>5. read.migration # None => read.migration.snapshot.id # made.id
      BY <1>2, <1>4, HeldMembers DEF SameCore
    <3>6. RootsFollow(read)
      BY <1>4, <3>5 DEF RootsFollow
    <3>7. Apart(k) /\ read.write # None => Settling(read)
      <4> SUFFICES ASSUME Apart(k), read.write # None PROVE Settling(read)
        OBVIOUS
      <4>1. WritesAlone(k)
        BY <1>6 DEF Apart, NoWrites, Writes
      <4>2. read.migration # None
        BY <1>6, <4>1 DEF Writes, Writing
      <4> QED BY <1>4, <3>5, <4>2 DEF Settling
    <3>8. PendingRead(read)
      BY <3>1 DEF PendingRead
    <3>9. Sound(RefreshMigration(read), f, n, d, k)
      BY <1>3, <1>6, <3>3, <3>4, <3>6, <3>7, <3>8, RefreshSound
    <3> QED BY <2>1, <3>9
  <2>2. CASE s.active # s.load.project
    <3>1. ~Reading(s) /\ ~Reading(idle)
      BY <1>2, <2>2 DEF Reading
    <3>2. RootsOf(idle, s.active) = RootsOf(s, s.active) /\ MigrationFolder(idle) = MigrationFolder(s)
      BY <1>1, <1>2, SameViews
    <3>3. UpToDate(idle, f, n)
      BY <1>2, <3>1 DEF UpToDate, Sound, Owed, SameCore
    <3>4. PicksKept(k) => RootsRight(idle)
      BY <1>2, <3>1, <3>2 DEF RootsRight, Sound, Owed, SameCore
    <3>5. ReadComing(idle) = ReadComing(s)
      BY <1>2, <3>1 DEF ReadComing
    <3>6. LookCurrent(idle) = LookCurrent(s)
      BY <1>2, <3>2 DEF LookCurrent, Current, SameCore
    <3>7. Apart(k) => Settling(idle) /\ RootsFollow(idle)
      BY <1>2, <3>2, <3>5, <3>6 DEF Settling, RootsFollow, Current, Sound, Owed, SameCore
    <3>8. NoWrites(k) => Fresh(idle, d, n)
      BY <1>2, <3>2, <3>5, <3>6 DEF Fresh, Current, Sound, Owed, SameCore
    <3>9. PendingRead(idle)
      BY <1>2 DEF PendingRead
    <3> QED BY <1>5, <2>2, <3>3, <3>4, <3>7, <3>8, <3>9 DEF Sound, Owed
  <2> QED BY <2>1, <2>2
<1>t. TakeLoad(s, made) = IF taken.reload_pending THEN Reload(again) ELSE taken
  BY DEF TakeLoad, idle, read
<1> HIDE DEF taken
<1>9. /\ again \in Store /\ SameCore(taken, again) /\ SameChoices(taken, again)
      /\ ~again.reload_pending
  <2>1. again \in Store
    BY <1>7 DEF Store
  <2> QED BY <1>7, <2>1 DEF Store, SameCore, SameChoices
<1> HIDE DEF again
<1>10. Sound(Reload(again), f, n, d, k) /\ SameChoices(again, Reload(again))
  <2>1. MigrationFolder(again) = MigrationFolder(taken)
    BY <1>9 DEF MigrationFolder, SameChoices
  <2>2. Writes(again, d, k)
    BY <1>7, <1>9, <2>1, WritesFrame
  <2>3. PendingRead(again)
    BY <1>9 DEF PendingRead
  <2> QED BY <1>9, <2>2, <2>3, ReloadSound, ReloadShape
<1>11. SameChoices(s, Reload(again))
  BY <1>7, <1>9, <1>10 DEF SameChoices
<1> QED BY <1>7, <1>8, <1>10, <1>11, <1>t

\* A look ends: the migration it found is shown, or read for.
LEMMA TakeLookSound ==
    ASSUME NEW s \in Store, NEW f, NEW n, NEW d, NEW k, Sound(s, f, n, d, k), Good(s),
           s.look # None, s.look.found # None
    PROVE  Sound(TakeLook(s), f, n, d, k) /\ SameChoices(s, TakeLook(s))
<1> DEFINE m == [snapshot |-> s.look.snapshot, folder |-> s.look.folder,
                 found |-> s.look.found]
           idle == [s EXCEPT !.look = None]
           pin == [idle EXCEPT !.pinned[s.look.project] = m.found.meta]
           base == IF MetadataDiffers(m) THEN Reload(pin) ELSE idle
           t == [base EXCEPT !.migration = m]
           current == /\ s.active = s.look.project
                      /\ MigrationFolder(s) = s.look.folder
                      /\ s.snapshot # None /\ s.snapshot.id = s.look.snapshot.id
<1>1. s.look \in Look /\ s.look.found \in FolderState
  BY DEF Store, Opt, Look
<1>2. m \in Migration /\ m.found.meta \in Opt(Roots) /\ s.look.project \in Projects
  BY <1>1 DEF Look, Migration, FolderState
<1>3. /\ m # None /\ m.snapshot = s.look.snapshot /\ m.folder = s.look.folder
      /\ m.found = s.look.found
  BY <1>2, ConstantsAssumption
<1>w. s.write = None
  BY DEF Good, Proper
<1>t. TakeLook(s) = IF ~current THEN idle ELSE t
  BY DEF TakeLook
<1> HIDE DEF m, current
<1>4. idle \in Store
  BY DEF Store, Opt
<1>5. /\ SameChoices(s, idle) /\ SameReads(s, idle) /\ idle.pinned = s.pinned
      /\ idle.look = None /\ idle.snapshot = s.snapshot /\ idle.migration = s.migration
      /\ idle.queue = s.queue /\ idle.write = s.write
  BY DEF Store, SameChoices, SameReads
<1>6. pin \in Store
  BY <1>2, <1>4 DEF Store
<1>7. /\ SameChoices(idle, pin) /\ SameReads(idle, pin) /\ SameCore(idle, pin)
  BY <1>4 DEF Store, SameChoices, SameReads, SameCore
<1> HIDE DEF idle
<1> HIDE DEF pin
<1>8. /\ base \in Store /\ SameChoices(idle, base) /\ SameCore(idle, base)
      /\ PendingRead(base)
      /\ MetadataDiffers(m) => ReadStarted(base)
      /\ ~MetadataDiffers(m) => base = idle
  <2>1. PendingRead(idle) /\ PendingRead(pin)
    BY <1>5, <1>7 DEF PendingRead, SameReads, Sound
  <2>2. /\ Reload(pin) \in Store /\ SameCore(pin, Reload(pin))
        /\ SameChoices(pin, Reload(pin)) /\ PendingRead(Reload(pin)) /\ ReadStarted(Reload(pin))
    BY <1>6, <2>1, ReloadType, ReloadShape
  <2> QED BY <1>4, <1>7, <2>1, <2>2 DEF SameChoices, SameCore
<1> HIDE DEF base
<1>9. /\ SameChoices(base, t) /\ SameReads(base, t) /\ t.pinned = base.pinned
      /\ t.look = base.look /\ t.snapshot = base.snapshot /\ t.migration = m
      /\ t.queue = base.queue /\ t.write = base.write
  BY <1>8 DEF Store, SameChoices, SameReads
<1>10. t \in Store
  <2>1. m \in Opt(Migration)
    BY <1>2 DEF Opt
  <2> QED BY <1>8, <2>1 DEF Store
<1> HIDE DEF t
<1>11. /\ SameChoices(s, t) /\ t.look = None /\ t.snapshot = s.snapshot
       /\ t.queue = s.queue /\ t.write = None
  BY <1>5, <1>8, <1>9, <1>w DEF SameChoices, SameCore
<1>12. MigrationFolder(t) = MigrationFolder(s) /\ t.active = s.active
  BY <1>11 DEF MigrationFolder, SameChoices
<1>13. CASE current
  <2>1. PendingRead(t)
    BY <1>8, <1>9 DEF PendingRead, SameReads
  <2>2. WritesAlone(k) => Writing(t, d)
    BY <1>3, <1>9, <1>11, <1>12, <1>13 DEF Writing, Sound, Writes, current
  <2>3. Writes(t, d, k)
    BY <1>11, <2>2, <1>w DEF Sound, Writes
  <2>4. ASSUME MetadataDiffers(m) PROVE Sound(t, f, n, d, k)
    <3>1. ReadStarted(t)
      <4>1. RootsOf(t, t.active) = RootsOf(base, base.active)
        BY <1>9 DEF RootsOf, SameChoices
      <4> QED BY <1>8, <1>9, <2>4, <4>1 DEF ReadStarted, Reading, SameReads, SameChoices
    <3>2. Owed(t, f, n, d, k)
      BY <1>10, <3>1, ReadPays
    <3> QED BY <2>1, <2>3, <3>2, Zenon DEF Sound
  <2>5. ASSUME ~MetadataDiffers(m) PROVE Sound(t, f, n, d, k)
    <3>1. SameReads(s, t) /\ t.pinned = s.pinned
      BY <1>5, <1>8, <1>9, <2>5 DEF SameReads
    <3>2. RootsOf(t, s.active) = RootsOf(s, s.active)
      BY <1>11, <3>1 DEF RootsOf, SameChoices
    <3>3. UpToDate(t, f, n)
      BY <1>11, <1>12, <3>1 DEF Sound, Owed, UpToDate, Reading, SameReads
    <3>4. PicksKept(k) => RootsRight(t)
      BY <1>11, <1>12, <3>1, <3>2 DEF Sound, Owed, RootsRight, Reading, SameReads
    <3>5. Current(t, t.migration)
      BY <1>3, <1>9, <1>11, <1>12, <1>13 DEF Current, current
    <3>6. Settling(t) /\ RootsFollow(t)
      BY <1>3, <1>9, <2>5, <3>5 DEF Settling, RootsFollow
    <3>7. NoWrites(k) => Fresh(t, d, n)
      <4>1. LookCurrent(s)
        BY <1>13 DEF LookCurrent, Current, current
      <4>2. ~LookCurrent(t)
        BY <1>11 DEF LookCurrent
      <4>3. ReadComing(s) => ReadComing(t)
        BY <1>12, <3>1 DEF ReadComing, Reading, SameReads
      <4> QED BY <1>3, <1>9, <1>11, <1>12, <3>5, <4>1, <4>2, <4>3 DEF Fresh, Sound, Owed
    <3>8. Owed(t, f, n, d, k)
      BY <3>3, <3>4, <3>6, <3>7, Zenon DEF Owed
    <3> QED BY <2>1, <2>3, <3>8, Zenon DEF Sound
  <2> QED BY <1>11, <1>13, <1>t, <2>4, <2>5
<1>14. CASE ~current
  <2>1. RootsOf(idle, s.active) = RootsOf(s, s.active) /\ MigrationFolder(idle) = MigrationFolder(s)
    BY <1>4, <1>5, SameViews
  <2>2. idle.active = s.active
    BY <1>5 DEF SameChoices
  <2>3. UpToDate(idle, f, n) /\ PendingRead(idle)
    BY <1>5, <2>2 DEF Sound, Owed, UpToDate, PendingRead, Reading, SameReads
  <2>4. PicksKept(k) => RootsRight(idle)
    BY <1>5, <2>1, <2>2 DEF Sound, Owed, RootsRight, Reading, SameReads
  <2>5. WritesAlone(k) => Writing(idle, d)
    BY <1>5, <2>1 DEF Writing, Sound, Writes
  <2>6. Writes(idle, d, k)
    BY <1>5, <2>5 DEF Sound, Writes
  <2>7. ReadComing(s) => ReadComing(idle)
    BY <1>5, <2>2 DEF ReadComing, Reading, SameReads
  <2>8. s.snapshot # None => ~LookCurrent(s)
    BY <1>14 DEF LookCurrent, Current, current
  <2>9. ~LookCurrent(idle)
    BY <1>5 DEF LookCurrent
  <2>10. Apart(k) => Settling(idle) /\ RootsFollow(idle)
    BY <1>5, <2>1, <2>2, <2>7, <2>8 DEF Settling, RootsFollow, Current, Sound, Owed
  <2>11. NoWrites(k) => Fresh(idle, d, n)
    BY <1>5, <2>1, <2>2, <2>7, <2>8, <2>9 DEF Fresh, Current, Sound, Owed
  <2> QED BY <1>5, <1>14, <1>t, <2>3, <2>4, <2>6, <2>10, <2>11 DEF Sound, Owed
<1> QED BY <1>13, <1>14
\* A write ends: the next starts, or what is owed of a newer read is looked at.
LEMMA TakeWriteSound ==
    ASSUME NEW s \in Store, NEW f, NEW n, NEW d, NEW k, Sound(s, f, n, d, k), Good(s),
           s.write # None, s.write.result # None, s.write.found # None
    PROVE  Sound(TakeWrite(s), f, n, d, k) /\ SameChoices(s, TakeWrite(s))
<1> DEFINE next == [snapshot |-> s.write.snapshot, folder |-> s.write.folder,
                    found |-> s.write.found]
           current == /\ s.migration # None
                      /\ s.migration.snapshot.id = next.snapshot.id
                      /\ s.migration.folder = next.folder
           told == s.write.op.kind = "migrate" \/ ~s.write.result.ok
           migration == IF current THEN next ELSE s.migration
           result == IF told THEN s.write.result ELSE s.last_result
           idle == [s EXCEPT !.write = None, !.migration = migration, !.last_result = result]
           stale == /\ idle.snapshot # None
                    /\ \/ idle.migration = None
                       \/ idle.migration.snapshot.id # idle.snapshot.id
<1>1. s.write \in Write /\ s.write.result \in Result /\ s.write.found \in FolderState
  BY DEF Store, Opt, Write
<1>2. next \in Migration
  BY <1>1 DEF Write, Migration
<1>3. /\ next # None /\ next.snapshot = s.write.snapshot /\ next.folder = s.write.folder
      /\ next.found = s.write.found
  BY <1>2, ConstantsAssumption
<1>4. migration \in Opt(Migration) /\ result \in Opt(Result) /\ None \in Opt(Write)
  BY <1>1, <1>2 DEF Store, Opt
<1>5. "queue" \in k
  BY DEF Sound, Writes
<1>t. TakeWrite(s) = IF s.queue # <<>> THEN WriteNext(idle)
                     ELSE IF stale THEN RefreshMigration(idle) ELSE idle
  BY DEF TakeWrite
<1> HIDE DEF next
<1>6. ASSUME WritesAlone(k) PROVE current
  BY <1>3, <1>6 DEF Sound, Writes, Writing
<1>c. current => migration = next
  OBVIOUS
<1> HIDE DEF current, result, migration
<1>7. idle \in Store
  BY <1>4 DEF Store
<1>8. /\ SameChoices(s, idle) /\ SameReads(s, idle) /\ idle.pinned = s.pinned
      /\ idle.write = None /\ idle.migration = migration /\ idle.snapshot = s.snapshot
      /\ idle.look = s.look /\ idle.queue = s.queue
  BY DEF Store, SameChoices, SameReads
<1> HIDE DEF idle
<1>9. RootsOf(idle, s.active) = RootsOf(s, s.active) /\ MigrationFolder(idle) = MigrationFolder(s)
  BY <1>7, <1>8, SameViews
<1>10. idle.active = s.active
  BY <1>8 DEF SameChoices
<1>11. UpToDate(idle, f, n) /\ PendingRead(idle)
  BY <1>8, <1>10 DEF Sound, Owed, UpToDate, PendingRead, Reading, SameReads
<1>12. PicksKept(k) => RootsRight(idle)
  BY <1>8, <1>9, <1>10 DEF Sound, Owed, RootsRight, Reading, SameReads
<1>13. ReadComing(s) => ReadComing(idle)
  BY <1>8, <1>10 DEF ReadComing, Reading, SameReads
<1>14. ASSUME WritesAlone(k)
       PROVE  /\ idle.migration = next /\ idle.migration # None
              /\ Writing(idle, d) /\ RootsFollow(idle)
  <2>1. idle.migration = next /\ next # None
    BY <1>3, <1>6, <1>8, <1>14, <1>c
  <2>2. /\ s.migration # None /\ s.write.snapshot = s.migration.snapshot
        /\ s.write.folder = s.migration.folder /\ s.migration.folder = MigrationFolder(s)
        /\ s.write.found = d[s.write.folder]
        /\ \/ s.write.found.meta = s.migration.found.meta
           \/ s.write.found.meta = s.migration.snapshot.roots
    BY <1>14 DEF Sound, Writes, Writing
  <2>3. s.look = None
    BY DEF Good, Proper
  <2>4. Writing(idle, d)
    BY <1>3, <1>8, <1>9, <2>1, <2>2, <2>3 DEF Writing
  <2>5. ~MetadataDiffers(s.migration) => ~MetadataDiffers(next)
    BY <1>3, <2>2 DEF MetadataDiffers
  <2>6. RootsFollow(s)
    BY <1>14 DEF Sound, Owed, Apart
  <2>7. RootsFollow(idle)
    BY <1>3, <1>8, <1>10, <1>13, <2>1, <2>2, <2>5, <2>6 DEF RootsFollow
  <2> QED BY <2>1, <2>4, <2>7
<1>15. CASE s.queue # <<>>
  <2>1. Sound(WriteNext(idle), f, n, d, k)
    BY <1>5, <1>7, <1>8, <1>11, <1>12, <1>14, <1>15, WriteNextSound
  <2>2. SameChoices(idle, WriteNext(idle))
    BY <1>7, WriteNextShape
  <2>3. SameChoices(s, WriteNext(idle))
    BY <1>8, <2>2 DEF SameChoices
  <2> QED BY <1>15, <1>t, <2>1, <2>3
<1>16. CASE s.queue = <<>>
  <2>1. Writes(idle, d, k)
    BY <1>5, <1>14 DEF Writes
  <2>2. Apart(k) => WritesAlone(k)
    BY <1>5 DEF Apart, NoWrites
  <2>3. Sound(RefreshMigration(idle), f, n, d, k)
    BY <1>7, <1>8, <1>11, <1>12, <1>14, <2>1, <2>2, RefreshSound
  <2>4. SameChoices(idle, RefreshMigration(idle))
    BY <1>7, RefreshShape
  <2>5. SameChoices(s, RefreshMigration(idle))
    BY <1>8, <2>4 DEF SameChoices
  <2>6. ASSUME ~stale PROVE Sound(idle, f, n, d, k)
    <3>1. ASSUME WritesAlone(k) PROVE Settling(idle)
      <4>1. idle.migration.folder = MigrationFolder(idle)
        BY <1>14, <3>1 DEF Writing
      <4> QED BY <1>14, <2>6, <3>1, <4>1 DEF Settling, RootsFollow, Current
    <3>2. ~NoWrites(k)
      BY <1>5 DEF NoWrites
    <3>3. Owed(idle, f, n, d, k)
      BY <1>11, <1>12, <1>14, <2>2, <3>1, <3>2, Zenon DEF Owed
    <3> QED BY <1>11, <2>1, <3>3, Zenon DEF Sound
  <2> QED BY <1>8, <1>16, <1>t, <2>3, <2>5, <2>6
<1> QED BY <1>15, <1>16

\* What detect found is taken over: the project shown is another, and read, or
\* keeps what it is read with and migrated into.
LEMMA TakeDetectionSound ==
    ASSUME NEW s \in Store, NEW first \in Opt(Projects),
           NEW f, NEW n, NEW d, NEW k, NEW ws, NEW kv, NEW kw,
           Sound(s, f, n, d, k), Good(s), Chosen(s, ws, kv, kw, k),
           s.detect # None, s.detect.found # None,
           first # None => first \in s.detect.found.projects
    PROVE  /\ Sound(TakeDetection(s, first), f, n, d, k)
           /\ Chosen(TakeDetection(s, first), ws, kv, kw, k)
<1> DEFINE found == s.detect.found
           imported == s.importing # None /\ s.importing \in found.projects
           keep == s.active # None /\ s.active \in found.projects
           folders == [p \in Projects |->
                          IF found.folders[p] # None THEN found.folders[p] ELSE s.folders[p]]
           importing == IF imported THEN None ELSE s.importing
           set == [s EXCEPT !.detect = None, !.projects = found.projects,
                            !.picked = found.picked, !.folders = folders,
                            !.importing = importing]
           t == TakeDetection(s, first)
<1>1. found \in Detection
  BY DEF Store, Opt, Detect
<1>2. /\ found.projects \in SUBSET Projects /\ found.picked \in [Projects -> Opt(Roots)]
      /\ folders \in [Projects -> Opt(Folders)] /\ importing \in Opt(Projects)
      /\ None \in Opt(Detect) /\ s.importing \in Opt(Projects)
  BY <1>1 DEF Detection, Store, Opt
<1>3. t = IF imported THEN Reload([Show(set, s.importing) EXCEPT !.last_result = None])
          ELSE IF keep THEN set ELSE Reload(Show(set, first))
  BY DEF TakeDetection
<1>4. found.projects = ws /\ found = s.detect.found
  BY DEF Chosen, Detecting
<1>f. \A p \in Projects :
         folders[p] = IF found.folders[p] # None THEN found.folders[p] ELSE s.folders[p]
  OBVIOUS
<1>i. /\ imported => importing = None
      /\ ~imported => importing = s.importing
  OBVIOUS
<1> HIDE DEF found, folders, importing, t
<1>5. set \in Store
  BY <1>2 DEF Store
<1>6. /\ SameCore(s, set) /\ SameReads(s, set) /\ set.pinned = s.pinned
      /\ set.detect = None /\ set.projects = ws /\ set.picked = found.picked
      /\ set.folders = folders /\ set.importing = importing
  BY <1>4 DEF Store, SameCore, SameReads
<1> HIDE DEF set
<1>s. set.active = s.active
  BY <1>6 DEF SameCore
<1>7. PendingRead(set)
  BY <1>6 DEF PendingRead, SameReads, Sound
<1>8. k \cap {"folder", "import"} = {} =>
         /\ \A w \in kw : w.map # "folders"
         /\ \A p \in Projects : folders[p] = None \/ folders[p] = kv.folders[p]
         /\ \A p \in found.projects : folders[p] = kv.folders[p]
  <2> SUFFICES ASSUME k \cap {"folder", "import"} = {}
               PROVE  /\ \A w \in kw : w.map # "folders"
                      /\ \A p \in Projects : folders[p] = None \/ folders[p] = kv.folders[p]
                      /\ \A p \in found.projects : folders[p] = kv.folders[p]
    OBVIOUS
  <2>1. /\ \A w \in kw : w.map # "folders"
        /\ \A p \in Projects : s.folders[p] = None \/ s.folders[p] = kv.folders[p]
        /\ \A p \in found.projects : found.folders[p] = kv.folders[p]
    BY <1>4 DEF Chosen, Stored
  <2>2. \A p \in found.projects : folders[p] = kv.folders[p]
    BY <1>2, <1>f, <2>1
  <2>3. \A p \in Projects \ found.projects : folders[p] = None \/ folders[p] = kv.folders[p]
    <3> TAKE p \in Projects \ found.projects
    <3>1. found.folders[p] = None \/ found.folders[p] = kv.folders[p]
      BY <1>4 DEF Chosen, Stored
    <3> QED BY <1>f, <2>1, <3>1
  <2> QED BY <2>1, <2>2, <2>3
<1>9. ASSUME keep, k \cap {"folder", "import"} = {}
      PROVE  MigrationFolder(set) = MigrationFolder(s)
  <2>1. s.active \in s.projects
    BY <1>9 DEF Chosen, Detecting
  <2>2. s.folders[s.active] = kv.folders[s.active]
    BY <1>9, <2>1 DEF Chosen, Stored
  <2>3. set.folders[s.active] = kv.folders[s.active]
    BY <1>6, <1>8, <1>9
  <2> QED BY <1>s, <2>2, <2>3 DEF MigrationFolder
<1>10. ASSUME WritesAlone(k) PROVE s.importing = None /\ k \cap {"folder", "import"} = {}
  BY <1>10 DEF WritesAlone, Chosen, Detecting
<1>11. ASSUME WritesAlone(k), s.migration # None PROVE keep
  <2>1. s.migration.snapshot.project \in Projects
    BY <1>11 DEF Store, Opt, Migration, Snapshot
  <2>2. s.active # None
    BY <1>11, <2>1, ConstantsAssumption DEF Good, Proper
  <2>3. "remove" \notin k
    BY <1>11 DEF WritesAlone
  <2> QED BY <1>4, <2>2, <2>3 DEF Chosen, Detecting
<1>12. Writes(set, d, k)
  BY <1>5, <1>6, <1>9, <1>10, <1>11, WritesFrame DEF Sound
<1>13. ASSUME NEW u, u.projects = ws, u.picked = found.picked, u.folders = folders,
              u.detect = None, u.importing = importing, u.active # None => u.active \in ws
       PROVE  Chosen(u, ws, kv, kw, k)
  <2>1. "import" \notin k => u.importing = None
    BY <1>13, <1>i DEF Chosen, Detecting
  <2>2. Detecting(u, ws, k)
    BY <1>13, <2>1 DEF Detecting
  <2>3. Stored(u, kv, kw, k)
    <3>1. "pick" \notin k => /\ \A w \in kw : w.map # "picked"
                             /\ \A p \in u.projects : u.picked[p] = kv.picked[p]
      BY <1>4, <1>13 DEF Chosen, Stored
    <3> QED BY <1>4, <1>8, <1>13, <3>1 DEF Stored
  <2> QED BY <2>2, <2>3 DEF Chosen
<1>14. CASE imported
  <2>1. WritesAlone(k) => set.write = None
    BY <1>10, <1>14
  <2> DEFINE u == Reload([Show(set, s.importing) EXCEPT !.last_result = None])
  <2>2. /\ Sound(u, f, n, d, k)
        /\ u.projects = set.projects /\ u.picked = set.picked /\ u.folders = set.folders
        /\ u.detect = set.detect /\ u.importing = set.importing /\ u.active = s.importing
    BY <1>2, <1>5, <1>7, <1>12, <2>1, ShowReload
  <2> HIDE DEF u
  <2>3. Chosen(u, ws, kv, kw, k)
    BY <1>4, <1>6, <1>13, <1>14, <2>2
  <2>4. t = u
    BY <1>3, <1>14 DEF u
  <2> QED BY <2>2, <2>3, <2>4 DEF t
<1>15. CASE ~imported /\ ~keep
  <2>1. WritesAlone(k) => set.write = None
    BY <1>6, <1>11, <1>15 DEF Sound, Writes, Writing, SameCore
  <2> DEFINE u == Reload(Show(set, first))
  <2>2. /\ Sound(u, f, n, d, k)
        /\ u.projects = set.projects /\ u.picked = set.picked /\ u.folders = set.folders
        /\ u.detect = set.detect /\ u.importing = set.importing /\ u.active = first
    BY <1>5, <1>7, <1>12, <2>1, ShowReload
  <2> HIDE DEF u
  <2>3. Chosen(u, ws, kv, kw, k)
    BY <1>4, <1>6, <1>13, <2>2
  <2>4. t = u
    BY <1>3, <1>15 DEF u
  <2> QED BY <2>2, <2>3, <2>4 DEF t
<1>16. CASE ~imported /\ keep
  <2>1. ~DetectsOnce(k) /\ s.active \in s.projects
    BY <1>16 DEF Chosen, Detecting
  <2>2. PicksKept(k) => RootsOf(set, s.active) = RootsOf(s, s.active)
    <3> SUFFICES ASSUME PicksKept(k) PROVE RootsOf(set, s.active) = RootsOf(s, s.active)
      OBVIOUS
    <3>1. "pick" \notin k
      BY <2>1 DEF PicksKept
    <3>2. s.picked[s.active] = kv.picked[s.active] /\ found.picked[s.active] = kv.picked[s.active]
      BY <1>4, <1>16, <2>1, <3>1 DEF Chosen, Stored
    <3> QED BY <1>6, <3>2 DEF RootsOf
  <2>3. Apart(k) => MigrationFolder(set) = MigrationFolder(s)
    BY <1>9, <1>10, <1>16, <2>1 DEF Apart, NoWrites, FoldersKept
  <2>4. Sound(set, f, n, d, k)
    BY <1>5, <1>6, <2>2, <2>3, SoundFrame
  <2>5. Chosen(set, ws, kv, kw, k)
    BY <1>4, <1>6, <1>13, <1>16, <1>s
  <2>6. t = set
    BY <1>3, <1>16
  <2> QED BY <2>4, <2>5, <2>6 DEF t
<1> QED BY <1>14, <1>15, <1>16

\* import keeps what is owed: another folder is read for, another project shown.
LEMMA ImportSound ==
    ASSUME NEW s \in Store, NEW p \in workspace, NEW g \in Folders,
           NEW f, NEW n, NEW d, NEW k, NEW kv, NEW kw, NEW new,
           workspace \in SUBSET Projects, "import" \in k,
           Sound(s, f, n, d, k), Chosen(s, workspace, kv, kw, k),
           \A w \in new : w.map = "folders"
    PROVE  /\ Sound(Import(s, p, g), f, n, d, k)
           /\ Chosen(Import(s, p, g), workspace, kv, kw \cup new, k)
<1> DEFINE moved == s.folders[p] # g
           pin == IF moved THEN None ELSE s.pinned[p]
           set == [s EXCEPT !.folders[p] = g, !.pinned[p] = pin]
           asking == [set EXCEPT !.importing = p]
           clear == [set EXCEPT !.last_result = None]
           detect == StartDetect(asking, workspace)
<1>p. p \in Projects
  OBVIOUS
<1>1. /\ pin \in Opt(Roots) /\ g \in Opt(Folders) /\ p \in Opt(Projects) /\ None \in Opt(Result)
      /\ [roots |-> workspace, found |-> None] \in Opt(Detect)
  BY <1>p DEF Store, Opt, Detect
<1>n. [roots |-> workspace, found |-> None] # None
  <2>1. [roots |-> workspace, found |-> None] \in Detect
    BY DEF Detect, Opt
  <2> QED BY <2>1, ConstantsAssumption
<1>2. Import(s, p, g) = IF p \notin s.projects THEN detect
                        ELSE IF s.active # p THEN SetActive(set, p)
                        ELSE IF moved THEN Reload(clear) ELSE set
  BY <1>p DEF Import, Store
<1>m. ~moved => pin = s.pinned[p]
  OBVIOUS
<1> HIDE DEF pin
<1>3. set \in Store
  BY <1>1, <1>p DEF Store
<1>4. /\ SameCore(s, set) /\ SameReads(s, set)
      /\ set.projects = s.projects /\ set.picked = s.picked /\ set.detect = s.detect
      /\ set.importing = s.importing
      /\ set.folders = [s.folders EXCEPT ![p] = g] /\ set.pinned = [s.pinned EXCEPT ![p] = pin]
  BY <1>p DEF Store, SameCore, SameReads
<1> HIDE DEF set
<1>5. set.active = s.active
  BY <1>4 DEF SameCore
<1>6. ~WritesAlone(k)
  BY DEF WritesAlone
<1>7. PendingRead(set) /\ Writes(set, d, k)
  BY <1>4, <1>6 DEF PendingRead, SameReads, Sound, Writes, SameCore
<1>8. Chosen(set, workspace, kv, kw \cup new, k)
  <2>1. Detecting(set, workspace, k)
    BY <1>4, <1>5 DEF Chosen, Detecting
  <2>2. Stored(set, kv, kw \cup new, k)
    BY <1>4 DEF Chosen, Stored
  <2> QED BY <2>1, <2>2 DEF Chosen
<1>9. ASSUME s.active # p, s.active # None
      PROVE  RootsOf(set, s.active) = RootsOf(s, s.active) /\ MigrationFolder(set) = MigrationFolder(s)
  <2>1. s.active \in Projects
    BY <1>9 DEF Store, Opt
  <2>2. set.folders[s.active] = s.folders[s.active] /\ set.pinned[s.active] = s.pinned[s.active]
    BY <1>4, <1>9, <2>1, <1>p DEF Store
  <2> QED BY <1>4, <1>5, <2>2 DEF RootsOf, MigrationFolder
<1>10. CASE p \notin s.projects
  <2>1. asking \in Store
    BY <1>1, <1>3 DEF Store
  <2>2. /\ SameCore(set, asking) /\ SameReads(set, asking) /\ asking.pinned = set.pinned
        /\ asking.projects = set.projects /\ asking.picked = set.picked
        /\ asking.folders = set.folders
    BY <1>3 DEF Store, SameCore, SameReads
  <2> HIDE DEF asking
  <2>3. detect \in Store
    BY <1>1, <2>1 DEF StartDetect, Store
  <2>4. /\ SameCore(asking, detect) /\ SameReads(asking, detect)
        /\ detect.pinned = asking.pinned
        /\ detect.projects = asking.projects /\ detect.picked = asking.picked
        /\ detect.folders = asking.folders
        /\ detect.detect = [roots |-> workspace, found |-> None]
    BY <2>1 DEF StartDetect, Store, SameCore, SameReads
  <2> HIDE DEF detect
  <2>5. SameCore(s, detect) /\ SameReads(s, detect)
    BY <1>4, <2>2, <2>4 DEF SameCore, SameReads
  <2>6. s.active # p
    <3>1. s.active # None => s.active \in s.projects
      BY DEF Chosen, Detecting
    <3> QED BY <1>10, <1>p, <3>1, ConstantsAssumption
  <2>7. s.active # None => /\ RootsOf(detect, s.active) = RootsOf(s, s.active)
                           /\ MigrationFolder(detect) = MigrationFolder(s)
    <3>1. RootsOf(detect, s.active) = RootsOf(set, s.active)
      BY <2>2, <2>4 DEF RootsOf
    <3>2. MigrationFolder(detect) = MigrationFolder(set)
      BY <2>2, <2>4 DEF MigrationFolder, SameCore
    <3> QED BY <1>9, <2>6, <3>1, <3>2
  <2>8. PendingRead(detect) /\ Writes(detect, d, k)
    BY <2>5, <1>6 DEF PendingRead, SameReads, SameCore, Sound, Writes
  <2>9. Sound(detect, f, n, d, k)
    <3>1. CASE s.active # None
      BY <2>3, <2>5, <2>7, <3>1, SoundFrame
    <3>2. CASE s.active = None
      <4>1. detect.active = None
        BY <2>5, <3>2 DEF SameCore
      <4>2. Owed(detect, f, n, d, k)
        BY <2>3, <4>1, ReadPays DEF ReadStarted
      <4> QED BY <2>8, <4>2 DEF Sound
    <3> QED BY <3>1, <3>2
  <2>10. Chosen(detect, workspace, kv, kw \cup new, k)
    <3>1. DetectsOnce(k) => s.projects = {}
      BY <1>10 DEF Chosen, Detecting
    <3>2. /\ detect.detect # None /\ detect.detect.roots = workspace
          /\ detect.detect.found = None
      BY <2>4, <1>n
    <3>3. detect.active = s.active /\ detect.projects = s.projects
      BY <1>4, <2>2, <2>4, <2>5 DEF SameCore
    <3>4. Detecting(detect, workspace, k)
      BY <3>1, <3>2, <3>3 DEF Chosen, Detecting
    <3>5. Stored(detect, kv, kw \cup new, k)
      BY <1>4, <2>2, <2>4, <3>2 DEF Chosen, Stored
    <3> QED BY <3>4, <3>5 DEF Chosen
  <2>11. Import(s, p, g) = detect
    BY <1>2, <1>10
  <2> QED BY <2>9, <2>10, <2>11
<1>11. CASE p \in s.projects /\ s.active # p
  <2>1. Sound(SetActive(set, p), f, n, d, k)
    BY <1>3, <1>5, <1>6, <1>7, <1>11, <1>p, SetActiveSound
  <2>2. Chosen(SetActive(set, p), workspace, kv, kw \cup new, k)
    BY <1>3, <1>4, <1>5, <1>6, <1>7, <1>8, <1>11, SetActiveChosen
  <2> QED BY <1>2, <1>11, <2>1, <2>2
<1>12. CASE p \in s.projects /\ s.active = p /\ moved
  <2>1. clear \in Store /\ PendingRead(clear) /\ Writes(clear, d, k)
    BY <1>1, <1>3, <1>7, ResultFrame, ResultSound
  <2>2. SameChoices(set, clear)
    BY <1>3, ResultShape
  <2> HIDE DEF clear
  <2>3. Chosen(clear, workspace, kv, kw \cup new, k)
    BY <1>3, <1>8, <2>1, <2>2, ChosenFrame
  <2>4. Sound(Reload(clear), f, n, d, k)
    BY <2>1, ReloadSound
  <2>5. Reload(clear) \in Store /\ SameChoices(clear, Reload(clear))
    BY <2>1, ReloadType, ReloadShape
  <2>6. Chosen(Reload(clear), workspace, kv, kw \cup new, k)
    BY <2>1, <2>3, <2>5, ChosenFrame
  <2> QED BY <1>2, <1>12, <2>4, <2>6
<1>13. CASE p \in s.projects /\ s.active = p /\ ~moved
  <2>1. set.folders = s.folders /\ set.pinned = s.pinned
    BY <1>4, <1>13, <1>m, <1>p DEF Store
  <2>2. RootsOf(set, s.active) = RootsOf(s, s.active) /\ MigrationFolder(set) = MigrationFolder(s)
    BY <1>4, <1>5, <2>1 DEF RootsOf, MigrationFolder
  <2>3. Sound(set, f, n, d, k)
    BY <1>3, <1>4, <2>2, SoundFrame
  <2> QED BY <1>2, <1>8, <1>13, <2>3
<1> QED BY <1>10, <1>11, <1>12, <1>13
-----------------------------------------------------------------------------
(* The invariant of what is owed *)

\* What is owed, and what the projects, picks and folders held come from.
SInv ==
    /\ Sound(store, files, notices, disk, events.kinds)
    /\ Chosen(store, workspace, kvp, kvpWrites, events.kinds)

\* Nothing is owed at the start.
LEMMA InitSound == Init => SInv
<1> SUFFICES ASSUME Init PROVE SInv
  OBVIOUS
<1> DEFINE k == events.kinds
           detect == [roots |-> workspace, found |-> None]
<1>1. workspace \in SUBSET Projects /\ kvpWrites = {}
  BY ConstantsAssumption DEF Init
<1>2. detect \in Detect /\ detect.roots = workspace /\ detect.found = None
  BY <1>1 DEF Detect, Opt
<1>3. detect # None
  BY <1>2, ConstantsAssumption
<1> HIDE DEF detect
<1>4. store = [InitStore EXCEPT !.detect = detect]
  BY DEF Init, StartDetect, detect
<1>5. /\ store.projects = {} /\ store.active = None /\ store.detect = detect
      /\ store.importing = None
      /\ store.folders = [p \in Projects |-> None]
  BY <1>4 DEF InitStore
<1>6. /\ store.migration = None /\ store.look = None /\ store.write = None
      /\ store.queue = <<>> /\ store.reload_pending = FALSE
  BY <1>4 DEF InitStore
<1>7. Detecting(store, workspace, k)
  BY <1>2, <1>3, <1>5 DEF Detecting
<1>8. Stored(store, kvp, kvpWrites, k)
  BY <1>1, <1>2, <1>5 DEF Stored
<1>9. Writes(store, disk, k) /\ PendingRead(store)
  BY <1>6 DEF Writes, Writing, PendingRead
<1>10. Owed(store, files, notices, disk, k)
  BY <1>5 DEF Owed, UpToDate, RootsRight, Settling, RootsFollow, Fresh
<1> QED BY <1>7, <1>8, <1>9, <1>10 DEF SInv, Sound, Chosen

\* An event keeps the kinds of events.
LEMMA KindsKept ==
    ASSUME NEW e, Event(e), events \in Plan
    PROVE  events'.kinds = events.kinds /\ e \in events.kinds
BY DEF Event, Plan

\* A detect that starts keeps what is owed; what it finds is the workspace.
LEMMA StartDetectSound ==
    ASSUME NEW s \in Store, NEW f, NEW n, NEW d, NEW k, NEW ws, NEW new, NEW kv, NEW kw,
           new \in SUBSET Projects, Sound(s, f, n, d, k), Chosen(s, ws, kv, kw, k),
           ~DetectsOnce(k), "remove" \notin k => ws \subseteq new
    PROVE  /\ Sound(StartDetect(s, new), f, n, d, k)
           /\ Chosen(StartDetect(s, new), new, kv, kw, k)
<1> DEFINE detect == [roots |-> new, found |-> None]
           t == StartDetect(s, new)
<1>1. detect \in Detect /\ detect.roots = new /\ detect.found = None
  BY DEF Detect, Opt
<1>2. detect # None /\ detect \in Opt(Detect)
  BY <1>1, ConstantsAssumption DEF Opt
<1>t. t = [s EXCEPT !.detect = detect]
  BY DEF StartDetect
<1> HIDE DEF detect, t
<1>3. t \in Store
  BY <1>2, <1>t DEF Store
<1>4. /\ SameCore(s, t) /\ SameReads(s, t) /\ t.pinned = s.pinned
      /\ t.projects = s.projects /\ t.picked = s.picked /\ t.folders = s.folders
      /\ t.importing = s.importing /\ t.detect = detect
  BY <1>t DEF Store, SameCore, SameReads
<1>5. t.active = s.active
  BY <1>4 DEF SameCore
<1>6. RootsOf(t, s.active) = RootsOf(s, s.active) /\ MigrationFolder(t) = MigrationFolder(s)
  BY <1>4, <1>5 DEF RootsOf, MigrationFolder
<1>7. Sound(t, f, n, d, k)
  BY <1>3, <1>4, <1>6, SoundFrame
<1>8. Detecting(t, new, k)
  BY <1>1, <1>2, <1>4, <1>5 DEF Chosen, Detecting
<1>9. Stored(t, kv, kw, k)
  BY <1>1, <1>4 DEF Chosen, Stored
<1> QED BY <1>7, <1>8, <1>9 DEF Chosen, t

\* Every outside event keeps what is owed.
LEMMA OutsideSound == IInv /\ SInv /\ Outside => SInv'
<1> SUFFICES ASSUME IInv, SInv, Outside PROVE SInv'
  OBVIOUS
<1> DEFINE k == events.kinds
<1>a. /\ store \in Store /\ Good(store) /\ workspace \in SUBSET Projects /\ events \in Plan
      /\ disk \in [Folders -> FolderState] /\ files \in [Projects -> Nat]
  BY DEF IInv, EnvTypeOK
<1>b. Sound(store, files, notices, disk, k) /\ Chosen(store, workspace, kvp, kvpWrites, k)
  BY DEF SInv
<1>c. ASSUME NEW e, Event(e) PROVE events'.kinds = k /\ e \in k
  BY <1>a, <1>c, KindsKept
<1> HIDE DEF k
<1>1. CASE WorktreeAdded
  <2>1. /\ workspace' \in SUBSET Projects /\ workspace \subseteq workspace'
        /\ store' = StartDetect(store, workspace')
    BY <1>1, <1>a DEF WorktreeAdded
  <2>2. events'.kinds = k /\ ~DetectsOnce(k)
    BY <1>1, <1>c DEF WorktreeAdded, DetectsOnce
  <2>3. /\ files' = files /\ notices' = notices /\ disk' = disk
        /\ kvp' = kvp /\ kvpWrites' = kvpWrites
    BY <1>1 DEF WorktreeAdded
  <2>4. /\ Sound(store', files, notices, disk, k)
        /\ Chosen(store', workspace', kvp, kvpWrites, k)
    BY <1>a, <1>b, <2>1, <2>2, StartDetectSound
  <2> QED BY <2>2, <2>3, <2>4 DEF SInv
<1>2. CASE WorktreeRemoved
  <2>1. workspace' \in SUBSET Projects /\ store' = StartDetect(store, workspace')
    BY <1>2, <1>a DEF WorktreeRemoved
  <2>2. events'.kinds = k /\ ~DetectsOnce(k) /\ "remove" \in k
    BY <1>2, <1>c DEF WorktreeRemoved, DetectsOnce
  <2>3. /\ files' = files /\ notices' = notices /\ disk' = disk
        /\ kvp' = kvp /\ kvpWrites' = kvpWrites
    BY <1>2 DEF WorktreeRemoved
  <2>4. /\ Sound(store', files, notices, disk, k)
        /\ Chosen(store', workspace', kvp, kvpWrites, k)
    BY <1>a, <1>b, <2>1, <2>2, StartDetectSound
  <2> QED BY <2>2, <2>3, <2>4 DEF SInv
<1>3. CASE EditFiles
  <2>1. PICK p \in workspace : /\ files' = [files EXCEPT ![p] = @ + 1]
                               /\ notices' = notices \cup Told("files", p)
    BY <1>3 DEF EditFiles
  <2>2. [kind |-> "files", at |-> p] \in notices' /\ notices \subseteq notices'
    BY <2>1 DEF Told
  <2>3. \A q \in Projects : q # p => files'[q] = files[q]
    BY <1>a, <2>1
  <2>4. /\ events'.kinds = k /\ store' = store /\ workspace' = workspace /\ disk' = disk
        /\ kvp' = kvp /\ kvpWrites' = kvpWrites
    BY <1>3, <1>c DEF EditFiles
  <2>5. store.active # None => store.active \in Projects
    BY <1>a DEF Store, Opt
  <2>6. UpToDate(store, files', notices')
    BY <1>b, <2>2, <2>3, <2>5 DEF UpToDate, Sound, Owed
  <2>7. Fresh(store, disk, notices) => Fresh(store, disk, notices')
    BY <2>2 DEF Fresh
  <2>8. Sound(store, files', notices', disk, k)
    BY <1>b, <2>6, <2>7 DEF Sound, Owed
  <2> QED BY <1>b, <2>4, <2>8 DEF SInv
<1>4. CASE EditMetadata
  <2>1. notices \subseteq notices'
    BY <1>4 DEF EditMetadata
  <2>2. /\ events'.kinds = k /\ store' = store /\ workspace' = workspace /\ disk' = disk
        /\ files' = files /\ kvp' = kvp /\ kvpWrites' = kvpWrites
    BY <1>4, <1>c DEF EditMetadata
  <2>3. UpToDate(store, files, notices')
    BY <1>b, <2>1 DEF UpToDate, Sound, Owed
  <2>4. Fresh(store, disk, notices) => Fresh(store, disk, notices')
    BY <2>1 DEF Fresh
  <2>5. Sound(store, files, notices', disk, k)
    BY <1>b, <2>3, <2>4 DEF Sound, Owed
  <2> QED BY <1>b, <2>2, <2>5 DEF SInv
<1>5. CASE EditState
  <2>1. PICK g \in Folders, r \in Opt(Roots) :
           /\ disk' = [disk EXCEPT ![g] = [rev |-> @.rev + 1, meta |-> r]]
           /\ notices' = notices \cup Told("state", g)
    BY <1>5 DEF EditState
  <2>2. /\ g \in Watched => [kind |-> "state", at |-> g] \in notices'
        /\ notices \subseteq notices'
    BY <2>1 DEF Told
  <2>3. \A h \in Folders : h # g => disk'[h] = disk[h]
    BY <1>a, <2>1
  <2>4. /\ events'.kinds = k /\ "state" \in k /\ store' = store /\ workspace' = workspace
        /\ files' = files /\ kvp' = kvp /\ kvpWrites' = kvpWrites
    BY <1>5, <1>c DEF EditState
  <2>5. UpToDate(store, files, notices')
    BY <1>b, <2>2 DEF UpToDate, Sound, Owed
  <2>6. ~WritesAlone(k)
    BY <2>4 DEF WritesAlone
  <2>7. ASSUME Fresh(store, disk, notices) PROVE Fresh(store, disk', notices')
    <3> SUFFICES ASSUME store.active # None, store.snapshot # None,
                        MigrationFolder(store) \in Watched, MigrationFolder(store) # g
                 PROVE  Fresh(store, disk', notices')
      BY <2>2 DEF Fresh
    <3>1. MigrationFolder(store) \in Folders
      BY <1>a, ConstantsAssumption DEF MigrationFolder, Store, Opt
    <3>2. disk'[MigrationFolder(store)] = disk[MigrationFolder(store)]
      BY <2>3, <3>1
    <3> QED BY <2>2, <2>7, <3>2 DEF Fresh, LookCurrent, Current
  <2>8. Writes(store, disk', k)
    BY <1>b, <2>6 DEF Sound, Writes
  <2>9. Sound(store, files, notices', disk', k)
    BY <1>b, <2>5, <2>7, <2>8 DEF Sound, Owed
  <2> QED BY <1>b, <2>4, <2>9 DEF SInv
<1>6. CASE Activate
  <2>1. PICK p \in store.projects \ {store.active} : store' = SetActive(store, p)
    BY <1>6 DEF Activate
  <2>2. p \in Projects /\ store.active # p
    BY <1>a DEF Store
  <2>3. /\ events'.kinds = k /\ "activate" \in k /\ workspace' = workspace /\ disk' = disk
        /\ files' = files /\ kvp' = kvp /\ kvpWrites' = kvpWrites /\ notices' = notices
    BY <1>6, <1>c DEF Activate, env
  <2>4. ~WritesAlone(k)
    BY <2>3 DEF WritesAlone
  <2>5. Sound(store', files, notices, disk, k)
    BY <1>a, <1>b, <2>1, <2>2, <2>4, SetActiveSound DEF Sound
  <2>6. Chosen(store', workspace, kvp, kvpWrites, k)
    BY <1>a, <1>b, <2>1, <2>2, <2>4, SetActiveChosen DEF Sound
  <2> QED BY <2>3, <2>5, <2>6 DEF SInv
<1>7. CASE AskReload
  <2>1. /\ events'.kinds = k /\ workspace' = workspace /\ disk' = disk
        /\ files' = files /\ kvp' = kvp /\ kvpWrites' = kvpWrites /\ notices' = notices
        /\ store' = Reload(store)
    BY <1>7, <1>c DEF AskReload, env
  <2>2. Sound(store', files, notices, disk, k)
    BY <1>a, <1>b, <2>1, ReloadSound DEF Sound
  <2>3. Chosen(store', workspace, kvp, kvpWrites, k)
    BY <1>a, <1>b, <2>1, ReloadType, ReloadShape, ChosenFrame
  <2> QED BY <2>1, <2>2, <2>3 DEF SInv
<1>8. CASE AskLook
  <2>1. /\ events'.kinds = k /\ workspace' = workspace /\ disk' = disk
        /\ files' = files /\ kvp' = kvp /\ kvpWrites' = kvpWrites /\ notices' = notices
        /\ store' = RefreshMigration(store)
    BY <1>8, <1>c DEF AskLook, env
  <2>2. Sound(store', files, notices, disk, k)
    BY <1>a, <1>b, <2>1, RefreshSound DEF Sound, Owed
  <2>3. Chosen(store', workspace, kvp, kvpWrites, k)
    BY <1>a, <1>b, <2>1, RefreshShape, ChosenFrame
  <2> QED BY <2>1, <2>2, <2>3 DEF SInv
<1>9. CASE SetMetadataFolders
  <2>1. PICK p \in store.projects, r \in Opt(Roots) :
          LET s == [store EXCEPT !.picked[p] = r]
          IN  /\ store' = IF s.active = p THEN Reload(s) ELSE s
              /\ kvpWrites' = kvpWrites \cup {[map |-> "picked", project |-> p, value |-> r]}
    BY <1>9 DEF SetMetadataFolders
  <2> DEFINE s == [store EXCEPT !.picked[p] = r]
  <2>2. p \in Projects
    BY <1>a DEF Store
  <2>3. /\ events'.kinds = k /\ "pick" \in k /\ workspace' = workspace /\ disk' = disk
        /\ files' = files /\ kvp' = kvp /\ notices' = notices
    BY <1>9, <1>c DEF SetMetadataFolders
  <2>4. s \in Store
    BY <1>a, <2>2 DEF Store
  <2>5. /\ SameCore(store, s) /\ SameReads(store, s) /\ s.pinned = store.pinned
        /\ s.projects = store.projects /\ s.folders = store.folders
        /\ s.detect = store.detect /\ s.importing = store.importing
        /\ s.picked = [store.picked EXCEPT ![p] = r]
    BY <1>a, <2>2 DEF Store, SameCore, SameReads
  <2>6. store' = IF s.active = p THEN Reload(s) ELSE s
    BY <2>1
  <2> HIDE DEF s
  <2>7. s.active = store.active
    BY <2>5 DEF SameCore
  <2>8. Chosen(s, workspace, kvp, kvpWrites', k)
    <3>1. Detecting(s, workspace, k)
      BY <1>b, <2>5, <2>7 DEF Chosen, Detecting
    <3>2. \A w \in kvpWrites' : w.map # "folders" \/ w \in kvpWrites
      BY <2>1
    <3>3. Stored(s, kvp, kvpWrites', k)
      BY <1>b, <2>3, <2>5, <3>2 DEF Chosen, Stored
    <3> QED BY <3>1, <3>3 DEF Chosen
  <2>9. MigrationFolder(s) = MigrationFolder(store)
    BY <2>5, <2>7 DEF MigrationFolder
  <2>10. PendingRead(s) /\ Writes(s, disk, k)
    BY <1>a, <1>b, <2>4, <2>5, <2>9, WritesFrame DEF Sound, PendingRead, SameReads
  <2>11. CASE s.active = p
    <3>1. Sound(Reload(s), files, notices, disk, k)
      BY <2>4, <2>10, ReloadSound
    <3>2. Chosen(Reload(s), workspace, kvp, kvpWrites', k)
      BY <2>4, <2>8, ReloadType, ReloadShape, ChosenFrame
    <3> QED BY <2>3, <2>6, <2>11, <3>1, <3>2 DEF SInv
  <2>12. CASE s.active # p
    <3>1. store.active # None => RootsOf(s, store.active) = RootsOf(store, store.active)
      <4> SUFFICES ASSUME store.active # None
                   PROVE  RootsOf(s, store.active) = RootsOf(store, store.active)
        OBVIOUS
      <4>1. store.active \in Projects
        BY <1>a DEF Store, Opt
      <4>2. s.picked[store.active] = store.picked[store.active]
        BY <1>a, <2>2, <2>5, <2>7, <2>12, <4>1 DEF Store
      <4> QED BY <2>5, <4>2 DEF RootsOf
    <3>2. Sound(s, files, notices, disk, k)
      BY <1>a, <1>b, <2>4, <2>5, <2>9, <3>1, SoundFrame
    <3> QED BY <2>3, <2>6, <2>8, <2>12, <3>2 DEF SInv
  <2> QED BY <2>11, <2>12
<1>10. CASE SetMigrationFolder
  <2> DEFINE p == store.active
             no == [of |-> p, ok |-> FALSE]
  <2>1. p \in Projects /\ p # None /\ no \in Opt(Result) /\ None \in Opt(Result) /\ None \in Opt(Roots)
    BY <1>10, <1>a DEF SetMigrationFolder, Store, Opt, Result
  <2>2. /\ events'.kinds = k /\ "folder" \in k /\ workspace' = workspace /\ disk' = disk
        /\ files' = files /\ kvp' = kvp /\ notices' = notices
    BY <1>10, <1>c DEF SetMigrationFolder
  <2>3. ~WritesAlone(k)
    BY <2>2 DEF WritesAlone
  <2>4. PICK g \in Folders :
          LET s == [store EXCEPT !.folders[p] = g, !.last_result = None, !.pinned[p] = None]
          IN  \/ /\ store' = [store EXCEPT !.last_result = no]
                 /\ kvpWrites' = kvpWrites
              \/ /\ store' = IF store.pinned[p] # None THEN Reload(s) ELSE RefreshMigration(s)
                 /\ kvpWrites' = kvpWrites \cup {[map |-> "folders", project |-> p, value |-> g]}
    BY <1>10 DEF SetMigrationFolder
  <2> DEFINE s == [store EXCEPT !.folders[p] = g, !.last_result = None, !.pinned[p] = None]
             refused == [store EXCEPT !.last_result = no]
  <2>5. CASE store' = refused /\ kvpWrites' = kvpWrites
    <3>1. refused \in Store /\ Sound(refused, files, notices, disk, k)
      BY <1>a, <1>b, <2>1, ResultFrame, ResultSound
    <3>2. SameChoices(store, refused)
      BY <1>a, ResultShape
    <3> HIDE DEF refused
    <3>3. Chosen(refused, workspace, kvp, kvpWrites, k)
      BY <1>a, <1>b, <3>1, <3>2, ChosenFrame
    <3> QED BY <2>2, <2>5, <3>1, <3>3 DEF SInv
  <2>6. CASE /\ store' = IF store.pinned[p] # None THEN Reload(s) ELSE RefreshMigration(s)
             /\ kvpWrites' = kvpWrites \cup {[map |-> "folders", project |-> p, value |-> g]}
    <3>1. g \in Opt(Folders)
      BY DEF Opt
    <3>2. s \in Store
      BY <1>a, <2>1, <3>1 DEF Store
    <3>3. /\ SameCore(store, s) /\ SameReads(store, s)
          /\ s.projects = store.projects /\ s.picked = store.picked
          /\ s.detect = store.detect /\ s.importing = store.importing
          /\ s.pinned = [store.pinned EXCEPT ![p] = None]
      BY <1>a DEF Store, SameCore, SameReads
    <3> HIDE DEF s
    <3>4. s.active = store.active
      BY <3>3 DEF SameCore
    <3>5. Chosen(s, workspace, kvp, kvpWrites', k)
      <4>1. Detecting(s, workspace, k)
        BY <1>b, <3>3, <3>4 DEF Chosen, Detecting
      <4>2. \A w \in kvpWrites' : w.map # "picked" \/ w \in kvpWrites
        BY <2>6
      <4>3. k \cap {"folder", "import"} # {}
        BY <2>2
      <4>4. Stored(s, kvp, kvpWrites', k)
        BY <1>b, <3>3, <4>2, <4>3 DEF Chosen, Stored
      <4> QED BY <4>1, <4>4 DEF Chosen
    <3>6. PendingRead(s) /\ Writes(s, disk, k)
      BY <1>a, <1>b, <2>3, <3>2, <3>3, WritesFrame DEF Sound, PendingRead, SameReads
    <3>7. CASE store.pinned[p] # None
      <4>1. Sound(Reload(s), files, notices, disk, k)
        BY <3>2, <3>6, ReloadSound
      <4>2. Chosen(Reload(s), workspace, kvp, kvpWrites', k)
        BY <3>2, <3>5, ReloadType, ReloadShape, ChosenFrame
      <4> QED BY <2>2, <2>6, <3>7, <4>1, <4>2 DEF SInv
    <3>8. CASE store.pinned[p] = None
      <4>1. s.pinned = store.pinned
        BY <1>a, <2>1, <3>3, <3>8 DEF Store
      <4>2. RootsOf(s, p) = RootsOf(store, p)
        BY <3>3, <4>1 DEF RootsOf
      <4>3. UpToDate(s, files, notices)
        BY <1>b, <3>3, <3>4 DEF Sound, Owed, UpToDate, Reading, SameReads, SameCore
      <4>4. PicksKept(k) => RootsRight(s)
        BY <1>b, <3>3, <3>4, <4>2 DEF Sound, Owed, RootsRight, Reading, SameReads, SameCore
      <4>5. Apart(k) => RootsFollow(s)
        BY <1>b, <3>3, <3>4 DEF Sound, Owed, RootsFollow, ReadComing, Reading, SameReads, SameCore
      <4>6. Apart(k) => s.write = None
        BY <2>3, <3>6 DEF Apart, NoWrites, Writes
      <4>7. Sound(RefreshMigration(s), files, notices, disk, k)
        BY <3>2, <3>6, <4>3, <4>4, <4>5, <4>6, RefreshSound
      <4>8. Chosen(RefreshMigration(s), workspace, kvp, kvpWrites', k)
        BY <3>2, <3>5, RefreshShape, ChosenFrame
      <4> QED BY <2>2, <2>6, <3>8, <4>7, <4>8 DEF SInv
    <3> QED BY <3>7, <3>8
  <2> QED BY <2>4, <2>5, <2>6
<1>11. CASE ImportProcess
  <2>1. PICK p \in workspace, g \in Folders :
          /\ store' = Import(store, p, g)
          /\ kvpWrites' = kvpWrites \cup {[map |-> "folders", project |-> p, value |-> g]}
    BY <1>11 DEF ImportProcess
  <2>2. /\ events'.kinds = k /\ "import" \in k /\ workspace' = workspace /\ disk' = disk
        /\ files' = files /\ kvp' = kvp /\ notices' = notices
    BY <1>11, <1>c DEF ImportProcess
  <2> DEFINE new == {[map |-> "folders", project |-> p, value |-> g]}
  <2>3. \A w \in new : w.map = "folders"
    OBVIOUS
  <2>4. kvpWrites' = kvpWrites \cup new
    BY <2>1
  <2> HIDE DEF new
  <2>5. /\ Sound(Import(store, p, g), files, notices, disk, k)
        /\ Chosen(Import(store, p, g), workspace, kvp, kvpWrites \cup new, k)
    BY <1>a, <1>b, <2>2, <2>3, ImportSound
  <2> QED BY <2>1, <2>2, <2>4, <2>5 DEF SInv
<1>12. CASE QueueMigration
  <2>1. PICK kind \in {"migrate", "tick"} :
          store' = WriteNext([store EXCEPT !.queue =
                        Append(@, [id |-> asked', of |-> store.active, kind |-> kind])])
    BY <1>12 DEF QueueMigration
  <2> DEFINE op == [id |-> asked', of |-> store.active, kind |-> kind]
             s == [store EXCEPT !.queue = Append(store.queue, op)]
  <2>2. /\ events'.kinds = k /\ "queue" \in k /\ workspace' = workspace /\ disk' = disk
        /\ files' = files /\ kvp' = kvp /\ kvpWrites' = kvpWrites /\ notices' = notices
        /\ store.migration # None /\ asked' = asked + 1
    BY <1>12, <1>c DEF QueueMigration, env
  <2>3. store' = WriteNext(s)
    BY <2>1
  <2>4. op \in Op
    <3>1. store.active \in Projects
      <4>1. store.migration.snapshot.project \in Projects
        BY <1>a, <2>2 DEF Store, Opt, Migration, Snapshot
      <4> QED BY <1>a, <2>2, <4>1 DEF Good, Proper
    <3>2. asked' \in Nat
      BY <2>2 DEF IInv, EnvTypeOK
    <3> QED BY <3>1, <3>2 DEF Op
  <2> HIDE DEF op
  <2>5. /\ Append(store.queue, op) \in Seq(Op) /\ Append(store.queue, op) # <<>>
    <3>1. store.queue \in Seq(Op)
      BY <1>a DEF Store
    <3> QED BY <2>4, <3>1, AppendProperties
  <2>6. s \in Store
    BY <1>a, <2>5 DEF Store
  <2>7. /\ SameChoices(store, s) /\ SameReads(store, s) /\ s.pinned = store.pinned
        /\ s.snapshot = store.snapshot /\ s.migration = store.migration
        /\ s.look = store.look /\ s.write = store.write /\ s.queue = Append(store.queue, op)
    BY <1>a DEF Store, SameChoices, SameReads
  <2> HIDE DEF s
  <2>8. /\ RootsOf(s, store.active) = RootsOf(store, store.active)
        /\ MigrationFolder(s) = MigrationFolder(store) /\ s.active = store.active
    BY <1>a, <2>6, <2>7, SameViews DEF SameChoices
  <2>9. UpToDate(s, files, notices) /\ PendingRead(s)
    BY <1>b, <2>7, <2>8 DEF Sound, Owed, UpToDate, PendingRead, Reading, SameReads
  <2>10. PicksKept(k) => RootsRight(s)
    BY <1>b, <2>7, <2>8 DEF Sound, Owed, RootsRight, Reading, SameReads
  <2>11. ASSUME WritesAlone(k)
         PROVE  /\ s.migration # None /\ Writing(s, disk) /\ RootsFollow(s)
                /\ s.write # None => Settling(s)
    <3>1. Writing(store, disk) /\ Settling(store) /\ RootsFollow(store)
      BY <1>b, <2>11 DEF Sound, Owed, Writes, Apart
    <3>2. Writing(s, disk)
      BY <2>7, <2>8, <3>1 DEF Writing
    <3>3. RootsFollow(s)
      BY <2>7, <2>8, <3>1 DEF RootsFollow, ReadComing, Reading, SameReads
    <3>4. Settling(s)
      BY <2>7, <2>8, <3>1 DEF Settling, ReadComing, Reading, LookCurrent, Current, SameReads
    <3> QED BY <2>2, <2>7, <3>2, <3>3, <3>4
  <2>12. Sound(WriteNext(s), files, notices, disk, k)
    BY <2>2, <2>5, <2>6, <2>7, <2>9, <2>10, <2>11, WriteNextSound
  <2>13. Chosen(WriteNext(s), workspace, kvp, kvpWrites, k)
    <3>1. SameChoices(s, WriteNext(s))
      BY <2>6, WriteNextShape
    <3>2. SameChoices(store, WriteNext(s))
      BY <2>7, <3>1 DEF SameChoices
    <3> QED BY <1>b, <3>2 DEF SameChoices, Chosen, Detecting, Stored
  <2> QED BY <2>2, <2>3, <2>12, <2>13 DEF SInv
<1>13. CASE ClearLastResult
  <2> DEFINE t == [store EXCEPT !.last_result = None]
  <2>1. /\ events'.kinds = k /\ workspace' = workspace /\ disk' = disk
        /\ files' = files /\ kvp' = kvp /\ kvpWrites' = kvpWrites /\ notices' = notices
        /\ store' = t
    BY <1>13, <1>c DEF ClearLastResult, env
  <2>2. t \in Store /\ Sound(t, files, notices, disk, k)
    BY <1>a, <1>b, ResultFrame, ResultSound DEF Opt
  <2>3. SameChoices(store, t)
    BY <1>a, ResultShape
  <2> HIDE DEF t
  <2>4. Chosen(t, workspace, kvp, kvpWrites, k)
    BY <1>a, <1>b, <2>2, <2>3, ChosenFrame
  <2> QED BY <2>1, <2>2, <2>4 DEF SInv
<1> QED
  BY <1>1, <1>2, <1>3, <1>4, <1>5, <1>6, <1>7, <1>8, <1>9, <1>10, <1>11, <1>12, <1>13 DEF Outside
\* Every step of a task keeps what is owed.
LEMMA TasksSound == IInv /\ SInv /\ Tasks => SInv'
<1> SUFFICES ASSUME IInv, SInv, Tasks PROVE SInv'
  OBVIOUS
<1> DEFINE k == events.kinds
<1>a. /\ store \in Store /\ Good(store) /\ workspace \in SUBSET Projects
      /\ disk \in [Folders -> FolderState] /\ files \in [Projects -> Nat]
      /\ kvp \in Kvp /\ kvpWrites \in SUBSET KvpWrite
  BY DEF IInv, EnvTypeOK
<1>b. Sound(store, files, notices, disk, k) /\ Chosen(store, workspace, kvp, kvpWrites, k)
  BY DEF SInv
<1> HIDE DEF k
<1>1. CASE WorktreeUpdatedEntries
  <2>1. PICK batch \in SUBSET notices \ {{}} :
          LET xdi == \E x \in batch : x.kind \in {"files", "meta"} /\ Reads(store, x.at)
              state == /\ store.active # None
                       /\ [kind |-> "state", at |-> MigrationFolder(store)] \in batch
          IN  /\ notices' = notices \ batch
              /\ store' = IF xdi THEN [store EXCEPT !.debounce = TRUE]
                           ELSE IF state THEN RefreshMigration(store)
                           ELSE store
    BY <1>1 DEF WorktreeUpdatedEntries
  <2> DEFINE xdi == \E x \in batch : x.kind \in {"files", "meta"} /\ Reads(store, x.at)
             state == /\ store.active # None
                      /\ [kind |-> "state", at |-> MigrationFolder(store)] \in batch
             armed == [store EXCEPT !.debounce = TRUE]
  <2>2. /\ events' = events /\ workspace' = workspace /\ disk' = disk
        /\ files' = files /\ kvp' = kvp /\ kvpWrites' = kvpWrites
    BY <1>1 DEF WorktreeUpdatedEntries
  <2>k. events'.kinds = k
    BY <2>2 DEF k
  <2>3. /\ notices' = notices \ batch
        /\ store' = IF xdi THEN armed ELSE IF state THEN RefreshMigration(store) ELSE store
    BY <2>1
  <2>4. CASE xdi
    <3>1. armed \in Store
      BY <1>a DEF Store
    <3>2. /\ SameCore(store, armed) /\ SameChoices(store, armed) /\ armed.pinned = store.pinned
          /\ armed.debounce /\ armed.load = store.load
          /\ armed.reload_pending = store.reload_pending
      BY <1>a DEF Store, SameCore, SameChoices
    <3> HIDE DEF armed
    <3>3. /\ RootsOf(armed, store.active) = RootsOf(store, store.active)
          /\ MigrationFolder(armed) = MigrationFolder(store) /\ armed.active = store.active
      BY <1>a, <3>1, <3>2, SameViews DEF SameChoices
    <3>4. Writes(armed, disk, k)
      BY <1>a, <1>b, <3>1, <3>2, <3>3, WritesFrame DEF Sound
    <3>5. PicksKept(k) => RootsRight(armed)
      BY <1>b, <3>2, <3>3 DEF Sound, Owed, RootsRight, Reading, SameCore
    <3>6. /\ UpToDate(armed, files, notices') /\ Settling(armed) /\ RootsFollow(armed)
          /\ Fresh(armed, disk, notices')
      BY <3>2 DEF UpToDate, Settling, RootsFollow, Fresh, ReadComing
    <3>7. PendingRead(armed)
      BY <1>b, <3>2 DEF PendingRead, Sound
    <3>8. Sound(armed, files, notices', disk, k)
      BY <3>4, <3>5, <3>6, <3>7 DEF Sound, Owed
    <3>9. Chosen(armed, workspace, kvp, kvpWrites, k)
      BY <1>a, <1>b, <3>1, <3>2, ChosenFrame
    <3>10. store' = armed
      BY <2>3, <2>4
    <3> QED BY <2>2, <2>k, <3>8, <3>9, <3>10 DEF SInv
  <2>5. ASSUME ~xdi PROVE UpToDate(store, files, notices')
    <3>1. ASSUME store.active # None
          PROVE  [kind |-> "files", at |-> store.active] \notin batch
      <4>1. Reads(store, store.active)
        BY <3>1 DEF Reads
      <4> QED BY <2>5, <4>1
    <3> QED BY <1>b, <2>3, <3>1 DEF Sound, Owed, UpToDate
  <2>6. CASE ~xdi /\ state
    <3>1. store' = RefreshMigration(store)
      BY <2>3, <2>6
    <3>2. Sound(RefreshMigration(store), files, notices', disk, k)
      BY <1>a, <1>b, <2>5, <2>6, RefreshSound DEF Sound, Owed
    <3>3. Chosen(RefreshMigration(store), workspace, kvp, kvpWrites, k)
      BY <1>a, <1>b, RefreshShape, ChosenFrame
    <3> QED BY <2>2, <2>k, <3>1, <3>2, <3>3 DEF SInv
  <2>7. CASE ~xdi /\ ~state
    <3>1. store' = store
      BY <2>3, <2>7
    <3>2. NoWrites(k) => Fresh(store, disk, notices')
      BY <1>b, <2>3, <2>7 DEF Sound, Owed, Fresh
    <3>3. Sound(store, files, notices', disk, k)
      BY <1>b, <2>5, <2>7, <3>2 DEF Sound, Owed
    <3> QED BY <1>b, <2>2, <2>k, <3>1, <3>3 DEF SInv
  <2> QED BY <2>4, <2>6, <2>7
<1>2. CASE DebounceFires
  <2> DEFINE s == [store EXCEPT !.debounce = FALSE]
  <2>1. /\ events' = events /\ workspace' = workspace /\ disk' = disk /\ files' = files
        /\ kvp' = kvp /\ kvpWrites' = kvpWrites /\ notices' = notices /\ store' = Reload(s)
    BY <1>2 DEF DebounceFires, env
  <2>2. s \in Store
    BY <1>a DEF Store
  <2>3. /\ SameCore(store, s) /\ SameChoices(store, s) /\ s.load = store.load
        /\ s.reload_pending = store.reload_pending
    BY <1>a DEF Store, SameCore, SameChoices
  <2> HIDE DEF s
  <2>4. MigrationFolder(s) = MigrationFolder(store)
    BY <2>3 DEF MigrationFolder, SameChoices
  <2>5. PendingRead(s) /\ Writes(s, disk, k)
    BY <1>a, <1>b, <2>2, <2>3, <2>4, WritesFrame DEF Sound, PendingRead
  <2>6. Sound(Reload(s), files, notices, disk, k)
    BY <2>2, <2>5, ReloadSound
  <2>7. Chosen(s, workspace, kvp, kvpWrites, k)
    BY <1>a, <1>b, <2>2, <2>3, ChosenFrame
  <2>8. Chosen(Reload(s), workspace, kvp, kvpWrites, k)
    BY <2>2, <2>7, ReloadType, ReloadShape, ChosenFrame
  <2> QED BY <2>1, <2>6, <2>8 DEF SInv, k
<1>3. CASE KvpStored
  <2>1. PICK x \in kvpWrites :
          /\ kvp' = IF x.map = "picked" THEN [kvp EXCEPT !.picked[x.project] = x.value]
                    ELSE [kvp EXCEPT !.folders[x.project] = x.value]
          /\ kvpWrites' = kvpWrites \ {x}
    BY <1>3 DEF KvpStored
  <2>2. /\ events' = events /\ workspace' = workspace /\ disk' = disk /\ files' = files
        /\ notices' = notices /\ store' = store
    BY <1>3 DEF KvpStored
  <2>3. x.map = "picked" \/ x.map = "folders"
    BY <1>a DEF KvpWrite
  <2>4. /\ x.map = "picked" => kvp'.folders = kvp.folders
        /\ x.map # "picked" => kvp'.picked = kvp.picked
    BY <1>a, <2>1 DEF Kvp
  <2>5. ASSUME "pick" \notin k PROVE x.map # "picked" /\ \A w \in kvpWrites' : w.map # "picked"
    BY <1>b, <2>1, <2>5 DEF Chosen, Stored
  <2>6. ASSUME k \cap {"folder", "import"} = {}
        PROVE  x.map = "picked" /\ \A w \in kvpWrites' : w.map # "folders"
    BY <1>b, <2>1, <2>3, <2>6 DEF Chosen, Stored
  <2>7. Stored(store, kvp', kvpWrites', k)
    BY <1>b, <2>4, <2>5, <2>6 DEF Chosen, Stored
  <2> QED BY <1>b, <2>2, <2>7 DEF SInv, Chosen, k
<1>4. CASE DetectRead
  <2> DEFINE roots == store.detect.roots
             found == [projects |-> roots,
                       picked |-> [p \in Projects |-> IF p \in roots THEN kvp.picked[p] ELSE None],
                       folders |-> [p \in Projects |-> IF p \in roots THEN kvp.folders[p] ELSE None]]
             s == [store EXCEPT !.detect.found = found]
  <2>1. /\ events' = events /\ workspace' = workspace /\ disk' = disk /\ files' = files
        /\ kvp' = kvp /\ kvpWrites' = kvpWrites /\ notices' = notices /\ store' = s
        /\ store.detect # None
    BY <1>4 DEF DetectRead, env
  <2>2. store.detect \in Detect /\ roots = workspace
    BY <1>a, <1>b, <2>1 DEF Store, Opt, Detect, Chosen, Detecting
  <2>3. found \in Detection
    BY <1>a, <2>2 DEF Detection, Kvp, Opt
  <2>4. /\ found.projects = workspace
        /\ \A p \in workspace : found.picked[p] = kvp.picked[p] /\ found.folders[p] = kvp.folders[p]
        /\ \A p \in Projects : found.folders[p] = None \/ found.folders[p] = kvp.folders[p]
    BY <1>a, <2>2
  <2> HIDE DEF found
  <2> DEFINE detect == [store.detect EXCEPT !.found = found]
  <2>5. detect \in Detect /\ detect.roots = workspace /\ detect.found = found
    BY <2>2, <2>3 DEF Detect, Opt
  <2>6. detect # None /\ detect \in Opt(Detect) /\ s = [store EXCEPT !.detect = detect]
    BY <2>5, ConstantsAssumption DEF Opt
  <2> HIDE DEF detect, s
  <2>7. s \in Store
    BY <1>a, <2>6 DEF Store
  <2>8. /\ SameCore(store, s) /\ SameReads(store, s) /\ s.pinned = store.pinned
        /\ s.projects = store.projects /\ s.picked = store.picked
        /\ s.folders = store.folders /\ s.importing = store.importing /\ s.detect = detect
    BY <1>a, <2>6 DEF Store, SameCore, SameReads
  <2>9. s.active = store.active
    BY <2>8 DEF SameCore
  <2>10. /\ RootsOf(s, store.active) = RootsOf(store, store.active)
         /\ MigrationFolder(s) = MigrationFolder(store)
    BY <2>8, <2>9 DEF RootsOf, MigrationFolder
  <2>11. Sound(s, files, notices, disk, k)
    BY <1>a, <1>b, <2>7, <2>8, <2>10, SoundFrame
  <2>12. Detecting(s, workspace, k)
    BY <1>b, <2>1, <2>4, <2>5, <2>6, <2>8, <2>9 DEF Chosen, Detecting
  <2>13. Stored(s, kvp, kvpWrites, k)
    BY <1>b, <2>4, <2>5, <2>8 DEF Chosen, Stored
  <2> QED BY <2>1, <2>11, <2>12, <2>13 DEF SInv, Chosen, k
<1>5. CASE DetectDone
  <2>1. /\ events' = events /\ workspace' = workspace /\ disk' = disk /\ files' = files
        /\ kvp' = kvp /\ kvpWrites' = kvpWrites /\ notices' = notices
        /\ store.detect # None /\ store.detect.found # None
    BY <1>5 DEF DetectDone, env
  <2>2. PICK first \in Opt(Projects) :
           /\ store' = TakeDetection(store, first)
           /\ first # None => first \in store.detect.found.projects
    <3>1. store.detect.found.projects \in SUBSET Projects
      BY <1>a, <2>1 DEF Store, Opt, Detect, Detection
    <3> QED BY <1>5, <3>1 DEF DetectDone, Opt
  <2>3. /\ Sound(store', files, notices, disk, k)
        /\ Chosen(store', workspace, kvp, kvpWrites, k)
    BY <1>a, <1>b, <2>1, <2>2, TakeDetectionSound
  <2> QED BY <2>1, <2>3 DEF SInv, k
<1>6. CASE LoadRead
  <2> DEFINE read == [files |-> files[store.load.project], meta |-> metadata[store.load.roots]]
             load == [store.load EXCEPT !.read = read]
             s == [store EXCEPT !.load = load]
  <2>1. /\ events' = events /\ workspace' = workspace /\ disk' = disk /\ files' = files
        /\ kvp' = kvp /\ kvpWrites' = kvpWrites /\ notices' = notices /\ store' = s
        /\ store.load # None
    BY <1>6 DEF LoadRead, env
  <2>2. store.load \in Load
    BY <1>a, <2>1 DEF Store, Opt
  <2>3. read \in [files : Nat, meta : Nat] /\ read.files = files[store.load.project]
    BY <2>2 DEF Load, IInv, EnvTypeOK
  <2> HIDE DEF read
  <2>4. /\ load \in Load /\ load.project = store.load.project
        /\ load.roots = store.load.roots /\ load.read = read
    BY <2>2, <2>3 DEF Load, Opt
  <2>5. load # None /\ load \in Opt(Load)
    BY <2>4, ConstantsAssumption DEF Opt
  <2> HIDE DEF load
  <2>6. s \in Store
    BY <1>a, <2>5 DEF Store
  <2>7. /\ SameCore(store, s) /\ SameChoices(store, s) /\ s.pinned = store.pinned
        /\ s.debounce = store.debounce /\ s.reload_pending = store.reload_pending
        /\ s.load = load
    BY <1>a DEF Store, SameCore, SameChoices
  <2> HIDE DEF s
  <2>8. /\ RootsOf(s, store.active) = RootsOf(store, store.active)
        /\ MigrationFolder(s) = MigrationFolder(store) /\ s.active = store.active
    BY <1>a, <2>6, <2>7, SameViews DEF SameChoices
  <2>9. Reading(s) = Reading(store)
    BY <2>1, <2>4, <2>5, <2>7, <2>8 DEF Reading
  <2>10. PendingRead(s)
    BY <2>5, <2>7 DEF PendingRead
  <2>11. Writes(s, disk, k)
    BY <1>a, <1>b, <2>6, <2>7, <2>8, WritesFrame DEF Sound
  <2>12. UpToDate(s, files, notices)
    <3>1. Reading(store) => load.read.files = files[store.active]
      BY <2>3, <2>4 DEF Reading
    <3> QED BY <1>b, <2>7, <2>8, <2>9, <3>1 DEF Sound, Owed, UpToDate, SameCore
  <2>13. PicksKept(k) => RootsRight(s)
    BY <1>b, <2>4, <2>7, <2>8, <2>9 DEF Sound, Owed, RootsRight, SameCore
  <2>14. Apart(k) => Settling(s) /\ RootsFollow(s)
    BY <1>b, <2>7, <2>8, <2>9 DEF Sound, Owed, Settling, RootsFollow, ReadComing, LookCurrent,
                                  Current, SameCore
  <2>15. NoWrites(k) => Fresh(s, disk, notices)
    BY <1>b, <2>7, <2>8, <2>9 DEF Sound, Owed, Fresh, ReadComing, LookCurrent, Current, SameCore
  <2>16. Chosen(s, workspace, kvp, kvpWrites, k)
    BY <1>a, <1>b, <2>6, <2>7, ChosenFrame
  <2> QED BY <2>1, <2>10, <2>11, <2>12, <2>13, <2>14, <2>15, <2>16 DEF SInv, Sound, Owed, k
<1>7. CASE LoadDone
  <2> DEFINE made == [id |-> FreshId(store), project |-> store.load.project,
                      roots |-> store.load.roots, files |-> store.load.read.files,
                      meta |-> store.load.read.meta]
  <2>1. /\ events' = events /\ workspace' = workspace /\ disk' = disk /\ files' = files
        /\ kvp' = kvp /\ kvpWrites' = kvpWrites /\ notices' = notices
        /\ store' = TakeLoad(store, made) /\ store.load # None /\ store.load.read # None
    BY <1>7 DEF LoadDone, env
  <2>2. store.load \in Load /\ store.load.read \in [files : Nat, meta : Nat]
    BY <1>a, <2>1 DEF Store, Opt, Load
  <2>3. FreshId(store) \in Nat /\ \A held \in Held(store) : held.id # FreshId(store)
    BY <1>a, FreshAddress
  <2>4. /\ made \in Snapshot /\ made.id = FreshId(store)
        /\ made.roots = store.load.roots /\ made.files = store.load.read.files
    BY <2>2, <2>3 DEF Snapshot, Load
  <2> HIDE DEF made
  <2>5. Sound(store', files, notices, disk, k) /\ SameChoices(store, store')
    BY <1>a, <1>b, <2>1, <2>3, <2>4, TakeLoadSound
  <2>6. Chosen(store', workspace, kvp, kvpWrites, k)
    BY <1>b, <2>5 DEF SameChoices, Chosen, Detecting, Stored
  <2> QED BY <2>1, <2>5, <2>6 DEF SInv, k
<1>8. CASE LookRead
  <2> DEFINE look == [store.look EXCEPT !.found = disk[store.look.folder]]
             s == [store EXCEPT !.look = look]
  <2>1. /\ events' = events /\ workspace' = workspace /\ disk' = disk /\ files' = files
        /\ kvp' = kvp /\ kvpWrites' = kvpWrites /\ notices' = notices /\ store' = s
        /\ store.look # None
    BY <1>8 DEF LookRead, env
  <2>2. store.look \in Look
    BY <1>a, <2>1 DEF Store, Opt
  <2>3. /\ look \in Look /\ look.snapshot = store.look.snapshot
        /\ look.project = store.look.project /\ look.folder = store.look.folder
        /\ look.found = disk[look.folder]
    BY <1>a, <2>2 DEF Look, Opt
  <2>4. look # None /\ look \in Opt(Look)
    BY <2>3, ConstantsAssumption DEF Opt
  <2> HIDE DEF look
  <2>5. /\ SameChoices(store, s) /\ SameReads(store, s) /\ s.pinned = store.pinned
        /\ s.snapshot = store.snapshot /\ s.migration = store.migration
        /\ s.look = look /\ s.queue = store.queue /\ s.write = store.write
    BY <1>a DEF Store, SameChoices, SameReads
  <2>6. s \in Store
    BY <1>a, <2>4 DEF Store
  <2> HIDE DEF s
  <2>7. /\ RootsOf(s, store.active) = RootsOf(store, store.active)
        /\ MigrationFolder(s) = MigrationFolder(store) /\ s.active = store.active
    BY <1>a, <2>5, <2>6, SameViews DEF SameChoices
  <2>8. LookCurrent(s) = LookCurrent(store)
    BY <2>1, <2>3, <2>4, <2>5, <2>7 DEF LookCurrent, Current
  <2>9. ReadComing(s) = ReadComing(store)
    BY <2>5, <2>7 DEF ReadComing, Reading, SameReads
  <2>10. UpToDate(s, files, notices) /\ PendingRead(s)
    BY <1>b, <2>5, <2>7 DEF Sound, Owed, UpToDate, PendingRead, Reading, SameReads
  <2>11. PicksKept(k) => RootsRight(s)
    BY <1>b, <2>5, <2>7 DEF Sound, Owed, RootsRight, Reading, SameReads
  <2>12. Apart(k) => Settling(s) /\ RootsFollow(s)
    BY <1>b, <2>5, <2>7, <2>8, <2>9 DEF Sound, Owed, Settling, RootsFollow, Current
  <2>13. NoWrites(k) => Fresh(s, disk, notices)
    BY <1>b, <2>3, <2>5, <2>7, <2>8, <2>9 DEF Sound, Owed, Fresh, Current
  <2>14. WritesAlone(k) => Writing(s, disk)
    BY <1>b, <2>3, <2>5, <2>7 DEF Sound, Writes, Writing
  <2>15. Writes(s, disk, k)
    BY <1>b, <2>5, <2>14 DEF Sound, Writes
  <2>16. Chosen(s, workspace, kvp, kvpWrites, k)
    BY <1>a, <1>b, <2>5, <2>6, ChosenFrame
  <2> QED BY <2>1, <2>10, <2>11, <2>12, <2>13, <2>15, <2>16 DEF SInv, Sound, Owed, k
<1>9. CASE LookDone
  <2>1. /\ events' = events /\ workspace' = workspace /\ disk' = disk /\ files' = files
        /\ kvp' = kvp /\ kvpWrites' = kvpWrites /\ notices' = notices
        /\ store' = TakeLook(store) /\ store.look # None /\ store.look.found # None
    BY <1>9 DEF LookDone, env
  <2>2. Sound(store', files, notices, disk, k) /\ SameChoices(store, store')
    BY <1>a, <1>b, <2>1, TakeLookSound
  <2>3. Chosen(store', workspace, kvp, kvpWrites, k)
    BY <1>b, <2>2 DEF SameChoices, Chosen, Detecting, Stored
  <2> QED BY <2>1, <2>2, <2>3 DEF SInv, k
<1>10. CASE WriteFolder
  <2>1. PICK ok \in BOOLEAN :
          LET g == store.write.folder
              kept == IF disk[g].meta = None THEN store.write.snapshot.roots ELSE disk[g].meta
          IN  /\ store' = [store EXCEPT !.write.result = [of |-> store.write.op.of, ok |-> ok]]
              /\ disk' = IF ok THEN [disk EXCEPT ![g] = [rev |-> @.rev + 1, meta |-> kept]]
                         ELSE disk
              /\ notices' = IF ok THEN notices \cup Told("state", g) ELSE notices
    BY <1>10 DEF WriteFolder
  <2> DEFINE g == store.write.folder
             result == [of |-> store.write.op.of, ok |-> ok]
             write == [store.write EXCEPT !.result = result]
             s == [store EXCEPT !.write = write]
  <2>2. /\ events' = events /\ workspace' = workspace /\ files' = files
        /\ kvp' = kvp /\ kvpWrites' = kvpWrites
        /\ store.write # None /\ store.write.result = None
    BY <1>10 DEF WriteFolder
  <2>3. store' = s /\ notices \subseteq notices'
    BY <2>1
  <2>4. store.write \in Write
    BY <1>a, <2>2 DEF Store, Opt
  <2>5. g \in Folders /\ result \in Result
    BY <2>4 DEF Write, Op, Result
  <2>6. \/ disk'[g].meta = disk[g].meta
        \/ disk[g].meta = None /\ disk'[g].meta = store.write.snapshot.roots
    <3> DEFINE kept == IF disk[g].meta = None THEN store.write.snapshot.roots ELSE disk[g].meta
               after == [rev |-> disk[g].rev + 1, meta |-> kept]
    <3>1. disk' = IF ok THEN [disk EXCEPT ![g] = after] ELSE disk
      BY <2>1
    <3>2. after.meta = kept
      OBVIOUS
    <3>3. g \in DOMAIN disk
      BY <1>a, <2>5
    <3> HIDE DEF after
    <3>4. ok => disk'[g] = after
      BY <3>1, <3>3
    <3> QED BY <3>1, <3>2, <3>4
  <2>7. store.write.found = None
    BY <1>a, <2>2 DEF Good, Proper
  <2>8. /\ write \in Write /\ write.op = store.write.op /\ write.snapshot = store.write.snapshot
        /\ write.folder = g /\ write.result = result /\ write.found = None
    BY <2>4, <2>5, <2>7 DEF Write, Opt
  <2>9. write # None /\ write.result # None /\ write \in Opt(Write)
    BY <2>5, <2>8, ConstantsAssumption DEF Opt
  <2> HIDE DEF write
  <2>10. /\ SameChoices(store, s) /\ SameReads(store, s) /\ s.pinned = store.pinned
         /\ s.snapshot = store.snapshot /\ s.migration = store.migration
         /\ s.look = store.look /\ s.queue = store.queue /\ s.write = write
    BY <1>a DEF Store, SameChoices, SameReads
  <2>11. s \in Store
    BY <1>a, <2>9 DEF Store
  <2> HIDE DEF s
  <2>12. /\ RootsOf(s, store.active) = RootsOf(store, store.active)
         /\ MigrationFolder(s) = MigrationFolder(store) /\ s.active = store.active
    BY <1>a, <2>10, <2>11, SameViews DEF SameChoices
  <2>13. "queue" \in k /\ ~NoWrites(k)
    BY <1>b, <2>2 DEF Sound, Writes, NoWrites
  <2>14. UpToDate(s, files, notices') /\ PendingRead(s)
    BY <1>b, <2>3, <2>10, <2>12 DEF Sound, Owed, UpToDate, PendingRead, Reading, SameReads
  <2>15. PicksKept(k) => RootsRight(s)
    BY <1>b, <2>10, <2>12 DEF Sound, Owed, RootsRight, Reading, SameReads
  <2>16. Apart(k) => Settling(s) /\ RootsFollow(s)
    BY <1>b, <2>2, <2>9, <2>10, <2>12 DEF Sound, Owed, Settling, RootsFollow, ReadComing, Reading,
                                          Current, SameReads
  <2>17. ASSUME WritesAlone(k) PROVE Writing(s, disk')
    <3>1. Writing(store, disk) /\ store.look = None
      BY <1>a, <1>b, <2>2, <2>17 DEF Sound, Writes, Good, Proper
    <3>2. /\ store.migration # None /\ store.write.snapshot = store.migration.snapshot
          /\ g = store.migration.folder /\ disk[g] = store.migration.found
          /\ store.migration.folder = MigrationFolder(store)
      BY <2>2, <3>1 DEF Writing
    <3> HIDE DEF g
    <3> QED BY <2>6, <2>8, <2>9, <2>10, <2>12, <3>1, <3>2 DEF Writing
  <2>18. Writes(s, disk', k)
    BY <2>13, <2>17 DEF Writes
  <2>19. Chosen(s, workspace, kvp, kvpWrites, k)
    BY <1>a, <1>b, <2>10, <2>11, ChosenFrame
  <2>20. Owed(s, files, notices', disk', k)
    BY <2>13, <2>14, <2>15, <2>16, Zenon DEF Owed
  <2> QED BY <2>2, <2>3, <2>14, <2>18, <2>19, <2>20 DEF SInv, Sound, k
<1>11. CASE WriteRead
  <2> DEFINE write == [store.write EXCEPT !.found = disk[store.write.folder]]
             s == [store EXCEPT !.write = write]
  <2>1. /\ events' = events /\ workspace' = workspace /\ disk' = disk /\ files' = files
        /\ kvp' = kvp /\ kvpWrites' = kvpWrites /\ notices' = notices /\ store' = s
        /\ store.write # None /\ store.write.result # None
    BY <1>11 DEF WriteRead, env
  <2>2. store.write \in Write
    BY <1>a, <2>1 DEF Store, Opt
  <2>3. /\ write \in Write /\ write.snapshot = store.write.snapshot
        /\ write.folder = store.write.folder /\ write.result = store.write.result
        /\ write.found = disk[write.folder]
    BY <1>a, <2>2 DEF Write, Opt
  <2>4. write # None /\ write \in Opt(Write)
    BY <2>3, ConstantsAssumption DEF Opt
  <2> HIDE DEF write
  <2>5. /\ SameChoices(store, s) /\ SameReads(store, s) /\ s.pinned = store.pinned
        /\ s.snapshot = store.snapshot /\ s.migration = store.migration
        /\ s.look = store.look /\ s.queue = store.queue /\ s.write = write
    BY <1>a DEF Store, SameChoices, SameReads
  <2>6. s \in Store
    BY <1>a, <2>4 DEF Store
  <2> HIDE DEF s
  <2>7. /\ RootsOf(s, store.active) = RootsOf(store, store.active)
        /\ MigrationFolder(s) = MigrationFolder(store) /\ s.active = store.active
    BY <1>a, <2>5, <2>6, SameViews DEF SameChoices
  <2>8. "queue" \in k /\ ~NoWrites(k)
    BY <1>b, <2>1 DEF Sound, Writes, NoWrites
  <2>9. UpToDate(s, files, notices) /\ PendingRead(s)
    BY <1>b, <2>5, <2>7 DEF Sound, Owed, UpToDate, PendingRead, Reading, SameReads
  <2>10. PicksKept(k) => RootsRight(s)
    BY <1>b, <2>5, <2>7 DEF Sound, Owed, RootsRight, Reading, SameReads
  <2>11. Apart(k) => Settling(s) /\ RootsFollow(s)
    BY <1>b, <2>1, <2>4, <2>5, <2>7 DEF Sound, Owed, Settling, RootsFollow, ReadComing, Reading,
                                        Current, SameReads
  <2>12. WritesAlone(k) => Writing(s, disk)
    BY <1>b, <2>1, <2>3, <2>4, <2>5, <2>7 DEF Sound, Writes, Writing
  <2>13. Writes(s, disk, k)
    BY <2>8, <2>12 DEF Writes
  <2>14. Chosen(s, workspace, kvp, kvpWrites, k)
    BY <1>a, <1>b, <2>5, <2>6, ChosenFrame
  <2>15. Owed(s, files, notices, disk, k)
    BY <2>8, <2>9, <2>10, <2>11, Zenon DEF Owed
  <2> QED BY <2>1, <2>9, <2>13, <2>14, <2>15 DEF SInv, Sound, k
<1>12. CASE WriteDone
  <2>1. /\ events' = events /\ workspace' = workspace /\ disk' = disk /\ files' = files
        /\ kvp' = kvp /\ kvpWrites' = kvpWrites /\ notices' = notices
        /\ store' = TakeWrite(store) /\ store.write # None /\ store.write.found # None
    BY <1>12 DEF WriteDone, env
  <2>2. store.write.result # None
    BY <1>a, <2>1 DEF Good, Proper
  <2>3. Sound(store', files, notices, disk, k) /\ SameChoices(store, store')
    BY <1>a, <1>b, <2>1, <2>2, TakeWriteSound
  <2>4. Chosen(store', workspace, kvp, kvpWrites, k)
    BY <1>b, <2>3 DEF SameChoices, Chosen, Detecting, Stored
  <2> QED BY <2>1, <2>3, <2>4 DEF SInv, k
<1> QED
  BY <1>1, <1>2, <1>3, <1>4, <1>5, <1>6, <1>7, <1>8, <1>9, <1>10, <1>11, <1>12 DEF Tasks

\* In every reachable state, what is not shown as it should be is owed: a read
\* (reload, schedule_reload, reload_pending), a look (refresh_migration), a write
\* (write_next) or a message from the worktree under way will put it right.
THEOREM NothingForgotten == Spec => []SInv
<1>1. IInv /\ SInv /\ [Next]_vars => SInv'
  <2> SUFFICES ASSUME IInv, SInv, [Next]_vars PROVE SInv'
    OBVIOUS
  <2>1. CASE Outside
    BY <2>1, OutsideSound
  <2>2. CASE Tasks
    BY <2>2, TasksSound
  <2>3. CASE UNCHANGED vars
    <3>1. /\ store' = store /\ files' = files /\ notices' = notices /\ disk' = disk
          /\ workspace' = workspace /\ kvp' = kvp /\ kvpWrites' = kvpWrites /\ events' = events
      BY <2>3 DEF vars, env
    <3> QED BY <3>1 DEF SInv
  <2> QED BY <2>1, <2>2, <2>3 DEF Next
<1> QED BY <1>1, InitSound, Invariance, PTL DEF Spec

\* A snapshot shown is of a project.
LEMMA SnapshotOfOne ==
    ASSUME IInv, store.snapshot # None
    PROVE  store.active # None
<1>1. store.snapshot.project \in Projects
  BY DEF IInv, Store, Opt, Snapshot
<1> QED BY <1>1, ConstantsAssumption DEF IInv, Good, Proper

\* Once nothing is under way, the project shown has been read since its files
\* last changed, whatever was told, read, switched or detected meanwhile: no
\* change is lost by reload_pending, schedule_reload, set_active or detect.
THEOREM ReadsUpToDate == Spec => []ReadUpToDate
<1>1. SInv => ReadUpToDate
  BY DEF SInv, Sound, Owed, UpToDate, Reading, Quiescent, ReadUpToDate
<1> QED BY <1>1, NothingForgotten, PTL

\* Once nothing is under way, the project shown was read with the metadata
\* folders it is to be read with, where no detect takes over a pick older than
\* the store's: where the workspace keeps its folders, or nothing is picked.
THEOREM ReadsWithItsRoots == Spec => [](PicksKept(events.kinds) => ReadWithItsRoots)
<1>1. IInv /\ SInv => (PicksKept(events.kinds) => ReadWithItsRoots)
  <2> SUFFICES ASSUME IInv, SInv, PicksKept(events.kinds), Quiescent, store.snapshot # None
               PROVE  store.snapshot.roots = RootsOf(store, store.active)
    BY DEF ReadWithItsRoots
  <2>1. store.active # None
    BY SnapshotOfOne
  <2>2. RootsRight(store) /\ store.load = None /\ ~store.reload_pending
    BY DEF SInv, Sound, Owed, Quiescent
  <2> QED BY <2>1, <2>2 DEF RootsRight, Reading
<1> QED BY <1>1, Invariance, NothingForgotten, PTL

\* Once nothing is under way, the migration shown is the one of the snapshot
\* shown into the folder chosen, read with the metadata folders it keeps to,
\* where writes and the events that the code does not reconcile with them do
\* not meet (refresh_migration, write_next's stale check).
THEOREM MigrationSettles == Spec => [](Apart(events.kinds) => MigrationSettled)
<1>1. IInv /\ SInv => (Apart(events.kinds) => MigrationSettled)
  <2> SUFFICES ASSUME IInv, SInv, Apart(events.kinds), Quiescent, store.snapshot # None
               PROVE  /\ store.migration # None
                      /\ store.migration.snapshot.id = store.snapshot.id
                      /\ store.migration.folder = MigrationFolder(store)
                      /\ ~MetadataDiffers(store.migration)
    BY DEF MigrationSettled
  <2>1. store.active # None
    BY SnapshotOfOne
  <2>2. /\ Settling(store) /\ ~ReadComing(store)
        /\ store.look = None /\ store.write = None
    BY DEF SInv, Sound, Owed, Quiescent, ReadComing, Reading
  <2> QED BY <2>1, <2>2 DEF Settling, LookCurrent, Current
<1> QED BY <1>1, Invariance, NothingForgotten, PTL

\* ... and it says what the folder's state file says.
THEOREM MigrationIsFresh == Spec => [](Apart(events.kinds) => MigrationFresh)
<1>1. IInv /\ SInv /\ (Apart(events.kinds) => MigrationSettled)
         => (Apart(events.kinds) => MigrationFresh)
  <2> SUFFICES ASSUME IInv, SInv, Apart(events.kinds), MigrationSettled, Quiescent,
                      store.snapshot # None, MigrationFolder(store) \in Watched
               PROVE  /\ store.migration # None
                      /\ store.migration.found = disk[store.migration.folder]
    BY DEF MigrationFresh
  <2>1. store.active # None
    BY SnapshotOfOne
  <2>2. /\ ~ReadComing(store) /\ notices = {}
        /\ store.look = None /\ store.write = None
    BY DEF Quiescent, ReadComing, Reading
  <2>3. store.migration # None
    BY DEF MigrationSettled
  <2>4. CASE NoWrites(events.kinds)
    <3>1. Fresh(store, disk, notices)
      BY <2>4 DEF SInv, Sound, Owed
    <3> QED BY <2>1, <2>2, <3>1 DEF Fresh, LookCurrent
  <2>5. CASE WritesAlone(events.kinds)
    <3>1. Writing(store, disk)
      BY <2>5 DEF SInv, Sound, Writes
    <3> QED BY <2>2, <2>3, <3>1 DEF Writing
  <2> QED BY <2>4, <2>5 DEF Apart
<1> QED BY <1>1, Invariance, NothingForgotten, MigrationSettles, PTL
=============================================================================
