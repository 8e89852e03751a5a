-------------------------- MODULE ProcessGroupProofs --------------------------
(***************************************************************************)
(* Proofs about ProcessGroup: types, and the invariant behind the three      *)
(* properties of groups.  What has to be ruled out is that the lists, read   *)
(* entry by entry and merged from polls of different times, name a parent by *)
(* a pid that another process has by then.                                   *)
(***************************************************************************)
EXTENDS ProcessGroup, FiniteSetTheorems, TLAPS

\* The limit holds of a recording that is about to begin, too.
GroupTypes == GroupTypeOK /\ Cardinality(starting.instances) <= MaxDumpProcs

\* The kernel: a live process has one pid, its parent is the process that
\* forked it, and a pid that waits has no process.
KernelInv ==
  /\ \A p \in Pid : proc[p] # Nobody => proc[p] \in DOMAIN origin
  /\ \A p, q \in Pid : proc[p] # Nobody /\ proc[p] = proc[q] => p = q
  /\ \A p \in Pid : parent[p] # Nobody =>
       /\ proc[p] # Nobody /\ proc[parent[p]] # Nobody
       /\ origin[proc[p]] = proc[parent[p]]
  /\ \A p \in stale : proc[p] = Nobody

\* Process s has been started, and if it still runs its pid is p.
Real(p, s) == s \in DOMAIN origin /\ \A q \in Pid : proc[q] = s => q = p
RealList(list) == \A p \in DOMAIN list : Real(p, list[p].started)
RealMeta(m) == \A id \in m.instances : Real(id[1], id[2]) /\ id[1] \in m.pids

\* Whatever the program believes to be a process is one.
RealInv == RealList(read) /\ RealList(procs) /\ RealMeta(starting) /\ RealMeta(meta)

\* What is listed still has its pid, or the pid is not used again yet.
Current(list) ==
  \A p \in DOMAIN list : proc[p] = list[p].started \/ (proc[p] = Nobody /\ p \in stale)

\* So does the parent that is named.
ParentCurrent(list) ==
  \A p \in DOMAIN list : list[p].ppid # Nobody =>
    \/ proc[list[p].ppid] # Nobody /\ proc[list[p].ppid] = origin[list[p].started]
    \/ proc[list[p].ppid] = Nobody /\ list[p].ppid \in stale

\* Where list b shows the parent that list a names, it forked the child.
ParentsIn(a, b) ==
  \A p \in DOMAIN a : a[p].ppid \in DOMAIN b => origin[a[p].started] = b[a[p].ppid].started

\* Together: the two lists a poll merges fit one another.
ListInv ==
  /\ Current(read) /\ Current(procs)
  /\ ParentCurrent(read) /\ ParentCurrent(procs)
  /\ ParentsIn(read, read) /\ ParentsIn(read, procs)
  /\ ParentsIn(procs, read) /\ ParentsIn(procs, procs)
  /\ \A p \in DOMAIN read : p \in DOMAIN procs => read[p].started = procs[p].started
  /\ \A p \in DOMAIN read : p \notin absent /\ read[p].ppid \notin absent

\* A poll finds who ran all the while, and the pids it frees are of full polls.
ScanInv ==
  /\ absent # {} => scan = Pid /\ Full
  /\ atBegin \subseteq DOMAIN origin
  /\ \A p \in (Pid \cap scan) \ todo :
       proc[p] \in atBegin => p \in DOMAIN read /\ read[p].started = proc[p]
  /\ scan # NoScan => \A p \in DOMAIN procs : proc[p] # Nobody => proc[p] \in atBegin

Members(m) == {id[2] : id \in m.instances}

\* A poll that follows a recording reads all its pids, and a recorded process
\* that it meets ran when it began.
FollowInv ==
  followed =>
    /\ Recording /\ scan # NoScan /\ meta.pids \subseteq scan
    /\ \A p \in Pid : proc[p] \in Members(meta) => proc[p] \in atBegin
    /\ \A p \in DOMAIN read : read[p].started \in Members(meta) => read[p].started \in atBegin

\* Whoever is recorded, or about to be, descends from the first.
Descend(m) == \A id \in m.instances : Line(id[2]) \cap m.roots # {}

\* A member of the group that is not listed is gone, and its pid waits.
GroupInv ==
  /\ GroupIsOfSelected
  /\ selected = Nobody => instance = Nobody
  /\ instance # Nobody =>
       \A p \in group \ DOMAIN procs : proc[p] = Nobody /\ p \in stale /\ p \notin DOMAIN read

\* All of it.
ListsInv == GroupTypes /\ KernelInv /\ RealInv /\ ListInv /\ ScanInv
GroupsInv == ListsInv /\ FollowInv /\ Descend(starting) /\ Descend(meta) /\ GroupInv
-----------------------------------------------------------------------------
(* Numbers of processes, lists, descendants and lines.                       *)

\* Processes are numbered in the order in which they start.
LEMMA BirthsCount ==
  ASSUME GroupParameters, GroupTypeOK
  PROVE  /\ Births \in 0..MaxBirths /\ DOMAIN origin = 1..Births
         /\ origin \in [1..Births -> 0..Births]
<1>1. PICK n \in 0..MaxBirths : origin \in [1..n -> 0..n]
  BY DEF GroupTypeOK
<1>2. n \in Nat
  BY <1>1 DEF GroupParameters
<1>3. DOMAIN origin = 1..n
  BY <1>1
<1>4. Cardinality(1..n) = n
  BY <1>2, FS_Interval
<1> QED
  BY <1>1, <1>2, <1>3, <1>4 DEF Births

\* What a list is made of.
LEMMA ListingHas ==
  ASSUME NEW list \in Listing
  PROVE  /\ DOMAIN list \subseteq Pid /\ list \in [DOMAIN list -> Entry]
         /\ \A p \in DOMAIN list : list[p].started \in Start /\ list[p].ppid \in Pid \cup {Nobody}
<1>1. PICK S \in SUBSET Pid : list \in [S -> Entry]
  BY DEF Listing
<1>2. DOMAIN list = S
  BY <1>1
<1> QED
  BY <1>1, <1>2 DEF Entry

LEMMA ListingIs ==
  ASSUME NEW S \in SUBSET Pid, NEW list \in [S -> Entry]
  PROVE  list \in Listing
  BY DEF Listing

\* A set with the roots and the children of its members has all descendants.
LEMMA DescendantsLeast ==
  ASSUME NEW list, NEW roots, NEW S \in SUBSET Pid,
         roots \subseteq S, Children(list, S) \subseteq S
  PROVE  Descendants(list, roots) \subseteq S
  BY DEF Descendants

\* The descendants of listed processes are listed.
LEMMA DescendantsListed ==
  ASSUME NEW list \in Listing, NEW roots \in SUBSET DOMAIN list
  PROVE  Descendants(list, roots) \subseteq DOMAIN list
<1>1. DOMAIN list \in SUBSET Pid
  BY ListingHas
<1>2. Children(list, DOMAIN list) \subseteq DOMAIN list
  BY DEF Children
<1> QED
  BY <1>1, <1>2, DescendantsLeast

\* Descendants_from gives the roots and is closed: nobody below them is missed.
LEMMA DescendantsClosed ==
  ASSUME NEW list \in Listing, NEW roots \in SUBSET Pid
  PROVE  /\ roots \subseteq Descendants(list, roots)
         /\ Children(list, Descendants(list, roots)) \subseteq Descendants(list, roots)
<1>1. roots \subseteq Descendants(list, roots)
  BY DEF Descendants
<1>2. ASSUME NEW p \in DOMAIN list, list[p].ppid \in Descendants(list, roots)
      PROVE  p \in Descendants(list, roots)
  <2>1. p \in Pid
    BY ListingHas
  <2>2. ASSUME NEW S \in SUBSET Pid, roots \subseteq S, Children(list, S) \subseteq S
        PROVE  p \in S
    <3>1. list[p].ppid \in S
      BY <1>2, <2>2, DescendantsLeast
    <3> QED
      BY <3>1, <2>2 DEF Children
  <2> QED
    BY <2>1, <2>2 DEF Descendants
<1> QED
  BY <1>1, <1>2 DEF Children

LEMMA IdentitiesType ==
  ASSUME NEW list \in Listing, NEW S
  PROVE  Identities(list, S) \subseteq Identity
  BY ListingHas DEF Identities, Identity

LEMMA IdentityFinite ==
  ASSUME GroupParameters, NEW S \in SUBSET Identity
  PROVE  IsFiniteSet(S) /\ Cardinality(S) \in Nat
<1>1. IsFiniteSet(Pid) /\ IsFiniteSet(Start)
  BY FS_Interval DEF GroupParameters, Pid, Start
<1>2. IsFiniteSet(Identity)
  BY <1>1, FS_Product DEF Identity
<1>3. IsFiniteSet(S)
  BY <1>2, FS_Subset
<1> QED
  BY <1>3, FS_CardinalityType

\* A set of pids has no more identities than pids.
LEMMA IdentitiesBound ==
  ASSUME GroupParameters, NEW list \in Listing, NEW S \in SUBSET Pid
  PROVE  Cardinality(Identities(list, S)) <= Cardinality(S)
<1> DEFINE T == S \cap DOMAIN list
           f == [p \in T |-> <<p, list[p].started>>]
<1>0. IsFiniteSet(Pid)
  BY FS_Interval DEF GroupParameters, Pid
<1>1. IsFiniteSet(S)
  BY <1>0, FS_Subset
<1>2. IsFiniteSet(T) /\ Cardinality(T) <= Cardinality(S)
  BY <1>1, FS_Subset
<1>3. f \in Surjection(T, Identities(list, S))
  BY DEF Surjection, Identities
<1>4. Cardinality(Identities(list, S)) <= Cardinality(T) /\ IsFiniteSet(Identities(list, S))
  BY <1>2, <1>3, FS_Surjection
<1> HIDE DEF T
<1>5. /\ Cardinality(S) \in Nat /\ Cardinality(T) \in Nat
      /\ Cardinality(Identities(list, S)) \in Nat
  BY <1>1, <1>2, <1>4, FS_CardinalityType
<1> QED
  BY <1>2, <1>4, <1>5
-----------------------------------------------------------------------------
(* Types.                                                                    *)

LEMMA EmptyListing == Empty \in Listing /\ DOMAIN Empty = {}
<1>1. Empty \in [{} -> Entry]
  BY DEF Empty
<1> QED
  BY <1>1 DEF Listing, Empty

LEMMA NoMetaType == NoMeta \in Meta /\ Cardinality(NoMeta.instances) = 0
  BY FS_EmptySet DEF NoMeta, Meta

LEMMA TypesInit == GroupParameters /\ GroupInit => GroupTypes
<1> SUFFICES ASSUME GroupParameters, GroupInit PROVE GroupTypes
  OBVIOUS
<1> USE DEF GroupInit
<1>1. proc \in [Pid -> Start \cup {Nobody}] /\ parent \in [Pid -> Pid \cup {Nobody}]
  OBVIOUS
<1>2. \E n \in 0..MaxBirths : origin \in [1..n -> 0..n]
  <2>1. 0 \in 0..MaxBirths /\ 1..0 = {}
    BY DEF GroupParameters
  <2>2. origin \in [1..0 -> 0..0]
    BY <2>1 DEF Empty
  <2> QED
    BY <2>1, <2>2
<1>0. tick \in 0..FullEvery - 1
  BY DEF GroupParameters
<1>3. /\ stale \subseteq Pid /\ absent \subseteq stale
      /\ scan = NoScan \/ scan \subseteq Pid
      /\ todo \subseteq scan \ {Nobody}
      /\ atBegin \subseteq Start /\ followed \in BOOLEAN
      /\ selected \in Pid \cup {Nobody} /\ instance \in Start \cup {Nobody}
      /\ group \subseteq Pid
  OBVIOUS
<1>4. read \in Listing /\ DOMAIN read \subseteq scan \ todo /\ procs \in Listing
  BY EmptyListing
<1>5. /\ starting \in Meta /\ meta \in Meta /\ NoMeta \in {starting, meta}
      /\ Cardinality(meta.instances) <= MaxDumpProcs
      /\ Cardinality(starting.instances) <= MaxDumpProcs
  BY NoMetaType DEF GroupParameters
<1> QED
  BY <1>0, <1>1, <1>2, <1>3, <1>4, <1>5 DEF GroupTypes, GroupTypeOK

\* GroupTypeOK by parts: the kernel, the scan, the lists and the recording.
KernelTypes ==
  /\ proc \in [Pid -> Start \cup {Nobody}] /\ parent \in [Pid -> Pid \cup {Nobody}]
  /\ \E n \in 0..MaxBirths : origin \in [1..n -> 0..n]
  /\ stale \subseteq Pid /\ absent \subseteq stale
ScanTypes ==
  /\ tick \in 0..FullEvery - 1
  /\ scan = NoScan \/ scan \subseteq Pid
  /\ todo \subseteq scan \ {Nobody} /\ read \in Listing /\ DOMAIN read \subseteq scan \ todo
  /\ atBegin \subseteq Start /\ followed \in BOOLEAN
AppTypes ==
  /\ procs \in Listing /\ selected \in Pid \cup {Nobody} /\ instance \in Start \cup {Nobody}
  /\ group \subseteq Pid
MetaTypes ==
  /\ starting \in Meta /\ meta \in Meta /\ NoMeta \in {starting, meta}
  /\ Cardinality(meta.instances) <= MaxDumpProcs
  /\ Cardinality(starting.instances) <= MaxDumpProcs

LEMMA TypesAre == GroupTypes <=> KernelTypes /\ ScanTypes /\ AppTypes /\ MetaTypes
  BY DEF GroupTypes, GroupTypeOK, KernelTypes, ScanTypes, AppTypes, MetaTypes

LEMMA TypesAreNext == GroupTypes' <=> KernelTypes' /\ ScanTypes' /\ AppTypes' /\ MetaTypes'
  BY DEF GroupTypes, GroupTypeOK, KernelTypes, ScanTypes, AppTypes, MetaTypes

\* A birth gives the next number, and to no process its line anew.
LEMMA BirthOrigin ==
  ASSUME GroupParameters, GroupTypes, KernelInv,
         NEW p \in Pid, NEW by \in Pid \cup {Nobody}, Birth(p, by)
  PROVE  /\ Births + 1 \in Start /\ Births + 1 \notin DOMAIN origin /\ Births + 1 # Nobody
         /\ origin' \in [1..Births + 1 -> 0..Births]
         /\ Births + 1 \in 0..MaxBirths
         /\ DOMAIN origin' = DOMAIN origin \cup {Births + 1}
         /\ \A s \in DOMAIN origin : origin'[s] = origin[s]
         /\ origin'[Births + 1] = IF by = Nobody THEN Nobody ELSE proc[by]
<1>1. /\ Births \in 0..MaxBirths /\ DOMAIN origin = 1..Births
      /\ origin \in [1..Births -> 0..Births]
  BY BirthsCount DEF GroupTypes
<1>2. Births \in Nat /\ MaxBirths \in Nat /\ Births + 1 <= MaxBirths
  BY <1>1 DEF GroupParameters, Birth
<1>3. (IF by = Nobody THEN Nobody ELSE proc[by]) \in 0..Births
  BY <1>1, <1>2 DEF Birth, KernelInv, Nobody
<1>4. origin' = [s \in 1..Births + 1 |->
                   IF s <= Births THEN origin[s] ELSE IF by = Nobody THEN Nobody ELSE proc[by]]
  BY DEF Birth
<1> HIDE DEF Births
<1>5. \A s \in 1..Births + 1 : s <= Births => s \in 1..Births
  BY <1>2
<1>6. origin' \in [1..Births + 1 -> 0..Births]
  BY <1>1, <1>3, <1>4, <1>5
<1>7. 1..Births + 1 = (1..Births) \cup {Births + 1}
  BY <1>2
<1>8. DOMAIN origin' = DOMAIN origin \cup {Births + 1}
  BY <1>1, <1>4, <1>7
<1>9. \A s \in DOMAIN origin : origin'[s] = origin[s]
  BY <1>1, <1>2, <1>4
<1>10. origin'[Births + 1] = IF by = Nobody THEN Nobody ELSE proc[by]
  BY <1>2, <1>4
<1> QED
  BY <1>1, <1>2, <1>6, <1>8, <1>9, <1>10 DEF Start, Nobody

LEMMA BirthKernel ==
  ASSUME GroupParameters, GroupTypes, KernelInv,
         NEW p \in Pid, NEW by \in Pid \cup {Nobody}, Birth(p, by)
  PROVE  KernelTypes' /\ KernelInv'
<1>1. /\ proc \in [Pid -> Start \cup {Nobody}] /\ parent \in [Pid -> Pid \cup {Nobody}]
      /\ stale \subseteq Pid /\ absent \subseteq stale
  BY DEF GroupTypes, GroupTypeOK
<1>2. /\ proc' = [proc EXCEPT ![p] = Births + 1] /\ parent' = [parent EXCEPT ![p] = by]
      /\ stale' = stale /\ absent' = absent /\ proc[p] = Nobody /\ p \notin stale
      /\ by # Nobody => proc[by] # Nobody
  BY DEF Birth
<1>3. /\ Births + 1 \in Start /\ Births + 1 \notin DOMAIN origin /\ Births + 1 # Nobody
      /\ origin' \in [1..Births + 1 -> 0..Births]
      /\ Births + 1 \in 0..MaxBirths
      /\ DOMAIN origin' = DOMAIN origin \cup {Births + 1}
      /\ \A s \in DOMAIN origin : origin'[s] = origin[s]
      /\ origin'[Births + 1] = IF by = Nobody THEN Nobody ELSE proc[by]
  BY BirthOrigin
<1> DEFINE n == Births + 1
<1>4. KernelTypes'
  <2>1. 0..Births \subseteq 0..n
    <3>1. Births \in Nat
      BY BirthsCount DEF GroupTypes
    <3> QED
      BY <3>1
  <2>2. origin' \in [1..n -> 0..n]
    BY <1>3, <2>1
  <2> QED
    BY <1>1, <1>2, <1>3, <2>2 DEF KernelTypes
<1>5. KernelInv'
  <2> HIDE DEF n
  <2>0. /\ proc' = [proc EXCEPT ![p] = n]
        /\ n \in Start /\ n \notin DOMAIN origin /\ n # Nobody
        /\ DOMAIN origin' = DOMAIN origin \cup {n}
        /\ origin'[n] = IF by = Nobody THEN Nobody ELSE proc[by]
    BY <1>2, <1>3 DEF n
  <2>1. \A q \in Pid : proc[q] # n
    BY <2>0 DEF KernelInv
  <2>2. \A q \in Pid : proc'[q] = IF q = p THEN n ELSE proc[q]
    BY <2>0, <1>1
  <2>3. \A q \in Pid : parent'[q] = IF q = p THEN by ELSE parent[q]
    BY <1>1, <1>2
  <2>4. \A q \in Pid : proc'[q] # Nobody => proc'[q] \in DOMAIN origin'
    BY <2>0, <2>2 DEF KernelInv
  <2>5. \A q, r \in Pid : proc'[q] # Nobody /\ proc'[q] = proc'[r] => q = r
    BY <2>1, <2>2 DEF KernelInv
  <2>6. ASSUME NEW q \in Pid, parent'[q] # Nobody
        PROVE  /\ proc'[q] # Nobody /\ proc'[parent'[q]] # Nobody
               /\ origin'[proc'[q]] = proc'[parent'[q]]
    <3>1. CASE q = p
      <4>1. parent'[q] = by /\ by \in Pid /\ by # p
        BY <3>1, <2>3, <2>6, <1>2
      <4> QED
        BY <3>1, <4>1, <2>0, <2>2, <1>2, <2>6
    <3>2. CASE q # p
      <4>1. parent'[q] = parent[q] /\ parent[q] \in Pid /\ parent[q] # Nobody
        BY <3>2, <2>3, <2>6, <1>1
      <4>2. /\ proc[q] # Nobody /\ proc[parent[q]] # Nobody
            /\ origin[proc[q]] = proc[parent[q]] /\ proc[q] \in DOMAIN origin
        BY <4>1 DEF KernelInv
      <4>3. parent[q] # p
        BY <4>2, <1>2
      <4>4. origin'[proc[q]] = origin[proc[q]]
        BY <4>2, <1>3
      <4> QED
        BY <3>2, <4>1, <4>2, <4>3, <4>4, <2>2
    <3> QED
      BY <3>1, <3>2
  <2>7. \A q \in stale' : proc'[q] = Nobody
    BY <1>1, <1>2, <2>2 DEF KernelInv
  <2> QED
    BY <2>4, <2>5, <2>6, <2>7 DEF KernelInv
<1> QED
  BY <1>4, <1>5

LEMMA DeathKernel ==
  ASSUME GroupParameters, GroupTypes, KernelInv, NEW p \in Pid, Death(p)
  PROVE  KernelTypes' /\ KernelInv'
<1>1. /\ proc \in [Pid -> Start \cup {Nobody}] /\ parent \in [Pid -> Pid \cup {Nobody}]
      /\ stale \subseteq Pid /\ absent \subseteq stale
  BY DEF GroupTypes, GroupTypeOK
<1>2. /\ proc' = [proc EXCEPT ![p] = Nobody]
      /\ parent' = [q \in Pid |-> IF q = p \/ parent[q] = p THEN Nobody ELSE parent[q]]
      /\ stale' = stale \cup {p} /\ absent' = absent /\ origin' = origin
  BY DEF Death
<1>3. KernelTypes'
  BY <1>1, <1>2 DEF KernelTypes, GroupTypes, GroupTypeOK
<1>4. \A q \in Pid : proc'[q] = IF q = p THEN Nobody ELSE proc[q]
  BY <1>1, <1>2
<1>5. \A q \in Pid : parent'[q] # Nobody =>
                       q # p /\ parent[q] # p /\ parent'[q] = parent[q] /\ parent[q] \in Pid
  BY <1>1, <1>2
<1>6. KernelInv'
  <2>1. \A q \in Pid : proc'[q] # Nobody => proc'[q] \in DOMAIN origin'
    BY <1>2, <1>4 DEF KernelInv
  <2>2. \A q, r \in Pid : proc'[q] # Nobody /\ proc'[q] = proc'[r] => q = r
    BY <1>4 DEF KernelInv
  <2>3. \A q \in Pid : parent'[q] # Nobody =>
          /\ proc'[q] # Nobody /\ proc'[parent'[q]] # Nobody
          /\ origin'[proc'[q]] = proc'[parent'[q]]
    BY <1>2, <1>4, <1>5 DEF KernelInv
  <2>4. \A q \in stale' : proc'[q] = Nobody
    BY <1>1, <1>2, <1>4 DEF KernelInv
  <2> QED
    BY <2>1, <2>2, <2>3, <2>4 DEF KernelInv
<1> QED
  BY <1>3, <1>6

LEMMA KernelStays ==
  ASSUME GroupTypes, KernelInv, UNCHANGED <<proc, parent, origin>>,
         stale' \subseteq stale, absent' \subseteq stale'
  PROVE  KernelTypes' /\ KernelInv'
  BY DEF GroupTypes, GroupTypeOK, KernelTypes, KernelInv

LEMMA ScanStays ==
  ASSUME GroupTypes, UNCHANGED scanVars
  PROVE  ScanTypes'
  BY DEF GroupTypes, GroupTypeOK, ScanTypes, scanVars

LEMMA AppStays ==
  ASSUME GroupTypes, UNCHANGED <<procs, selected, instance, group>>
  PROVE  AppTypes'
  BY DEF GroupTypes, GroupTypeOK, AppTypes

LEMMA MetaStays ==
  ASSUME GroupTypes, UNCHANGED <<starting, meta>>
  PROVE  MetaTypes'
  BY DEF GroupTypes, GroupTypeOK, MetaTypes

LEMMA PollBeginTypes ==
  ASSUME GroupParameters, GroupTypes, PollBegin
  PROVE  ScanTypes' /\ absent' \subseteq stale /\ read' = Empty
<1> USE DEF GroupTypes, GroupTypeOK
<1>1. tick' \in 0..FullEvery - 1
  BY DEF PollBegin, GroupParameters
<1>2. meta.pids \subseteq Pid
  BY DEF Meta
<1>3. scan' \subseteq Pid /\ todo' = scan'
  BY <1>2 DEF PollBegin, ScanOf
<1>4. todo' \subseteq scan' \ {Nobody}
  BY <1>3 DEF Pid, Nobody, GroupParameters
<1>5. read' = read /\ DOMAIN read = {} /\ read \in Listing
  <2>1. DOMAIN read \subseteq {Nobody} /\ DOMAIN read \subseteq Pid /\ Nobody \notin Pid
    BY ListingHas DEF PollBegin, NoScan, Pid, Nobody, GroupParameters
  <2> QED
    BY <2>1 DEF PollBegin
<1>6. read = Empty
  <2>1. read \in [{} -> Entry]
    BY <1>5, ListingHas
  <2> QED
    BY <2>1 DEF Empty
<1>7. atBegin' \subseteq Start /\ followed' \in BOOLEAN
  BY DEF PollBegin, Living, Recording
<1>8. absent' \subseteq stale
  BY DEF PollBegin
<1> QED
  BY <1>1, <1>3, <1>4, <1>5, <1>6, <1>7, <1>8 DEF ScanTypes

\* The list as it is read: whoever has died by then is left out.
LEMMA ScanPidReads ==
  ASSUME GroupParameters, GroupTypes, NEW p \in Pid, ScanPid(p)
  PROVE  /\ DOMAIN read' = DOMAIN read \cup (IF proc[p] = Nobody THEN {} ELSE {p})
         /\ p \notin DOMAIN read
         /\ \A q \in DOMAIN read : read'[q] = read[q]
         /\ proc[p] # Nobody => read'[p] = [started |-> proc[p], ppid |-> parent[p]]
  BY DEF GroupTypes, GroupTypeOK, ScanPid

LEMMA ScanPidTypes ==
  ASSUME GroupParameters, GroupTypes, NEW p \in Pid, ScanPid(p)
  PROVE  ScanTypes'
<1> USE DEF GroupTypes, GroupTypeOK
<1>1. /\ DOMAIN read' = DOMAIN read \cup (IF proc[p] = Nobody THEN {} ELSE {p})
      /\ \A q \in DOMAIN read : read'[q] = read[q]
      /\ proc[p] # Nobody => read'[p] = [started |-> proc[p], ppid |-> parent[p]]
  BY ScanPidReads
<1>2. DOMAIN read \subseteq Pid /\ \A q \in DOMAIN read : read[q] \in Entry
  BY ListingHas
<1>3. DOMAIN read' \in SUBSET Pid
  BY <1>1, <1>2
<1>4. proc[p] # Nobody => [started |-> proc[p], ppid |-> parent[p]] \in Entry
  BY DEF Entry
<1>5. \A q \in DOMAIN read' : read'[q] \in Entry
  BY <1>1, <1>2, <1>4
<1>6. read' \in [DOMAIN read' -> Entry]
  BY <1>5 DEF ScanPid
<1>7. read' \in Listing
  BY <1>3, <1>6, ListingIs
<1>8. UNCHANGED <<tick, scan, atBegin, followed>> /\ todo' = todo \ {p} /\ p \in todo
  BY DEF ScanPid
<1>9. DOMAIN read' \subseteq scan' \ todo'
  BY <1>1, <1>8
<1> QED
  BY <1>7, <1>8, <1>9 DEF ScanTypes

\* What a poll applies: the pids it read anew, the others as they were listed.
LEMMA MergedList ==
  ASSUME GroupParameters, GroupTypes, PollApply
  PROVE  /\ procs' \in Listing
         /\ DOMAIN procs' = DOMAIN read \cup (DOMAIN procs \ scan)
         /\ \A p \in DOMAIN read : procs'[p] = read[p]
         /\ \A p \in DOMAIN procs \ scan : procs'[p] = procs[p]
<1>1. procs' = [p \in DOMAIN read \cup (DOMAIN procs \ scan) |->
                  IF p \in scan THEN read[p] ELSE procs[p]]
  BY DEF PollApply
<1>2. DOMAIN read \subseteq scan
  BY DEF GroupTypes, GroupTypeOK
<1>3. /\ DOMAIN procs' = DOMAIN read \cup (DOMAIN procs \ scan)
      /\ \A p \in DOMAIN read : procs'[p] = read[p]
      /\ \A p \in DOMAIN procs \ scan : procs'[p] = procs[p]
  BY <1>1, <1>2
<1>4. read \in Listing /\ procs \in Listing
  BY DEF GroupTypes, GroupTypeOK
<1>5. /\ DOMAIN read \subseteq Pid /\ DOMAIN procs \subseteq Pid
      /\ \A p \in DOMAIN read : read[p] \in Entry
      /\ \A p \in DOMAIN procs : procs[p] \in Entry
  BY <1>4, ListingHas
<1>6. DOMAIN procs' \in SUBSET Pid /\ \A p \in DOMAIN procs' : procs'[p] \in Entry
  BY <1>3, <1>5
<1>7. procs' \in [DOMAIN procs' -> Entry]
  BY <1>1, <1>6
<1> QED
  BY <1>3, <1>6, <1>7, ListingIs

LEMMA PollApplyScanTypes ==
  ASSUME GroupParameters, GroupTypes, PollApply
  PROVE  ScanTypes' /\ stale' = stale \ absent /\ absent' = {}
<1>1. /\ scan' = NoScan /\ read' = Empty /\ atBegin' = {} /\ followed' = FALSE
      /\ stale' = stale \ absent /\ absent' = {}
      /\ UNCHANGED <<tick, todo>> /\ todo = {}
  BY DEF PollApply
<1> QED
  BY <1>1, EmptyListing DEF ScanTypes, GroupTypes, GroupTypeOK

\* refresh_selected_group keeps the selection or gives it up.
LEMMA RefreshTypes ==
  ASSUME GroupTypes, procs' \in Listing, NEW full, RefreshGroup(procs', full)
  PROVE  AppTypes'
<1>1. \A roots : Descendants(procs', roots) \subseteq Pid
  BY DEF Descendants
<1> QED
  BY <1>1 DEF RefreshGroup, AppTypes, GroupTypes, GroupTypeOK

\* track_dump: those who are recorded stay, their descendants join, and the
\* limit is kept.
LEMMA TrackDumpGives ==
  ASSUME GroupParameters, GroupTypes, NEW list \in Listing, TrackDump(list), Recording
  PROVE  /\ meta' \in Meta /\ Cardinality(meta'.instances) <= MaxDumpProcs
         /\ meta.instances \subseteq meta'.instances
         /\ meta'.instances \subseteq
              meta.instances \cup Identities(list, Descendants(list, LiveRoots(meta, list)))
         /\ meta'.pids = meta.pids \cup {id[1] : id \in meta'.instances}
         /\ meta'.roots = meta.roots
         /\ meta'.alive = (LiveRoots(meta, list) # {})
<1> DEFINE roots  == LiveRoots(meta, list)
           joined == meta.instances \cup Identities(list, Descendants(list, roots))
           over   == Cardinality(joined) > MaxDumpProcs
<1>1. meta \in Meta /\ MaxDumpProcs \in Nat
  BY DEF GroupTypes, GroupTypeOK, GroupParameters
<1>2. /\ meta.instances \in SUBSET Identity /\ meta.pids \in SUBSET Pid
      /\ meta.limit \in BOOLEAN
  BY <1>1 DEF Meta
<1>3. joined \in SUBSET Identity
  BY <1>2, IdentitiesType
<1>4. PICK kept \in IF over THEN {k \in SUBSET joined : meta.instances \subseteq k /\
                                                     Cardinality(k) = MaxDumpProcs}
                            ELSE {joined} :
        meta' = [meta EXCEPT !.instances = kept, !.pids = @ \cup {id[1] : id \in kept},
                             !.alive = roots # {}, !.limit = @ \/ over]
  BY Zenon DEF TrackDump
<1>5. Cardinality(joined) \in Nat
  BY <1>3, IdentityFinite
<1> HIDE DEF joined
<1>6. /\ kept \subseteq joined /\ meta.instances \subseteq kept
      /\ Cardinality(kept) <= MaxDumpProcs
  <2>1. CASE over
    BY <2>1, <1>1, <1>4
  <2>2. CASE ~over
    <3>1. kept = joined
      BY <2>2, <1>4
    <3>2. Cardinality(joined) <= MaxDumpProcs
      BY <2>2, <1>1, <1>5
    <3>3. meta.instances \subseteq joined
      BY DEF joined
    <3> QED
      BY <3>1, <3>2, <3>3
  <2> QED
    BY <2>1, <2>2
<1>7. kept \in SUBSET Identity /\ {id[1] : id \in kept} \subseteq Pid
  <2>1. kept \in SUBSET Identity
    BY <1>3, <1>6
  <2> QED
    BY <2>1 DEF Identity
<1> HIDE DEF roots, over
<1>8. (meta.limit \/ over) \in BOOLEAN /\ (roots # {}) \in BOOLEAN
  BY <1>2
<1>9. /\ meta' = [meta EXCEPT !.instances = kept, !.pids = meta.pids \cup {id[1] : id \in kept},
                              !.alive = roots # {}, !.limit = meta.limit \/ over]
  BY <1>1, <1>4 DEF Meta
<1>10. /\ meta'.instances = kept /\ meta'.pids = meta.pids \cup {id[1] : id \in kept}
       /\ meta'.alive = (roots # {}) /\ meta'.roots = meta.roots
  BY <1>1, <1>9 DEF Meta
<1>11. meta' \in Meta
  BY <1>1, <1>2, <1>7, <1>8, <1>9 DEF Meta
<1> QED
  BY <1>6, <1>10, <1>11 DEF roots, joined

LEMMA PollApplyMeta ==
  ASSUME GroupParameters, GroupTypes, PollApply
  PROVE  MetaTypes'
<1>1. procs' \in Listing /\ starting' = starting /\ TrackDump(procs')
  BY MergedList DEF PollApply
<1>2. CASE ~Recording
  BY <1>1, <1>2, MetaStays DEF TrackDump
<1>3. CASE Recording
  <2>1. meta' \in Meta /\ Cardinality(meta'.instances) <= MaxDumpProcs
    BY <1>1, <1>3, TrackDumpGives
  <2> QED
    BY <1>1, <1>3, <2>1 DEF MetaTypes, GroupTypes, GroupTypeOK, Recording
<1> QED
  BY <1>2, <1>3

LEMMA SelectTypes ==
  ASSUME GroupTypes, NEW pid \in Pid \cup {Nobody}, Select(pid)
  PROVE  AppTypes'
<1>1. \A roots : Descendants(procs, roots) \subseteq Pid
  BY DEF Descendants
<1>2. procs \in Listing /\ \A p \in DOMAIN procs : procs[p].started \in Start
  BY ListingHas DEF GroupTypes, GroupTypeOK
<1> QED
  BY <1>1, <1>2 DEF Select, AppTypes

\* What start_dump reads: the group with the start times of its processes.
LEMMA StartDumpGives ==
  ASSUME GroupParameters, GroupTypes, StartDump
  PROVE  /\ starting' \in Meta /\ Cardinality(starting'.instances) <= MaxDumpProcs
         /\ starting'.instances = Identities(procs, group) /\ starting'.pids = group
         /\ starting'.roots = {id[2] : id \in Identities(procs, group)}
         /\ meta' = NoMeta /\ meta = NoMeta
<1>1. /\ starting' = [instances |-> Identities(procs, group), pids |-> group, alive |-> TRUE,
                      limit |-> FALSE, roots |-> {id[2] : id \in Identities(procs, group)}]
      /\ meta' = meta /\ meta = NoMeta /\ Cardinality(group) <= MaxDumpProcs
  BY DEF StartDump, Recording
<1>2. procs \in Listing /\ group \in SUBSET Pid
  BY DEF GroupTypes, GroupTypeOK
<1>3. Identities(procs, group) \in SUBSET Identity
  BY <1>2, IdentitiesType
<1>4. {id[2] : id \in Identities(procs, group)} \subseteq Start
  BY <1>3 DEF Identity
<1>5. starting' \in Meta
  BY <1>1, <1>2, <1>3, <1>4 DEF Meta
<1>6. Cardinality(Identities(procs, group)) <= MaxDumpProcs
  <2>1. Cardinality(Identities(procs, group)) <= Cardinality(group)
    BY <1>2, IdentitiesBound
  <2>2. IsFiniteSet(Pid)
    BY FS_Interval DEF GroupParameters, Pid
  <2>3. IsFiniteSet(group)
    BY <1>2, <2>2, FS_Subset
  <2>4. Cardinality(group) \in Nat /\ Cardinality(Identities(procs, group)) \in Nat
    BY <1>3, <2>3, IdentityFinite, FS_CardinalityType
  <2> QED
    BY <1>1, <2>1, <2>4 DEF GroupParameters
<1> QED
  BY <1>1, <1>5, <1>6

LEMMA MetaTypesNext ==
  ASSUME GroupParameters, GroupTypes, StartDump \/ Publish \/ StopDump
  PROVE  MetaTypes'
<1>1. CASE StartDump
  BY <1>1, StartDumpGives DEF MetaTypes, GroupTypes, GroupTypeOK
<1>2. CASE Publish
  BY <1>2, NoMetaType DEF Publish, MetaTypes, GroupTypes, GroupTypeOK, GroupParameters
<1>3. CASE StopDump
  <2>1. meta' = NoMeta /\ starting' = starting
    BY <1>3 DEF StopDump
  <2> QED
    BY <2>1, NoMetaType DEF MetaTypes, GroupTypes, GroupTypeOK, GroupParameters
<1> QED
  BY <1>1, <1>2, <1>3

LEMMA TypesNext ==
  ASSUME GroupParameters, GroupTypes, KernelInv, [GroupNext]_groupVars
  PROVE  GroupTypes' /\ KernelInv'
<1>1. CASE \E p \in Pid, by \in Pid \cup {Nobody} : Birth(p, by)
  <2>1. PICK p \in Pid, by \in Pid \cup {Nobody} : Birth(p, by)
    BY <1>1
  <2>2. UNCHANGED scanVars /\ UNCHANGED appVars
    BY <2>1 DEF Birth
  <2> QED
    BY <2>1, <2>2, BirthKernel, ScanStays, AppStays, MetaStays, TypesAreNext DEF appVars
<1>2. CASE \E p \in Pid : Death(p)
  <2>1. PICK p \in Pid : Death(p)
    BY <1>2
  <2>2. UNCHANGED scanVars /\ UNCHANGED appVars
    BY <2>1 DEF Death
  <2> QED
    BY <2>1, <2>2, DeathKernel, ScanStays, AppStays, MetaStays, TypesAreNext DEF appVars
<1>3. CASE \E p \in Pid : ScanPid(p)
  <2>1. PICK p \in Pid : ScanPid(p)
    BY <1>3
  <2>2. UNCHANGED kernelVars /\ UNCHANGED appVars /\ absent \subseteq stale
    BY <2>1 DEF ScanPid, GroupTypes, GroupTypeOK
  <2>3. KernelTypes' /\ KernelInv'
    BY <2>2, KernelStays DEF kernelVars
  <2> QED
    BY <2>1, <2>2, <2>3, ScanPidTypes, AppStays, MetaStays, TypesAreNext DEF appVars
<1>4. CASE PollBegin
  <2>1. UNCHANGED <<proc, parent, origin, stale>> /\ UNCHANGED appVars
    BY <1>4 DEF PollBegin
  <2>2. ScanTypes' /\ absent' \subseteq stale
    BY <1>4, PollBeginTypes
  <2>3. KernelTypes' /\ KernelInv'
    BY <2>1, <2>2, KernelStays
  <2> QED
    BY <2>1, <2>2, <2>3, AppStays, MetaStays, TypesAreNext DEF appVars
<1>5. CASE PollApply
  <2>1. UNCHANGED <<proc, parent, origin>>
    BY <1>5 DEF PollApply
  <2>2. ScanTypes' /\ stale' = stale \ absent /\ absent' = {}
    BY <1>5, PollApplyScanTypes
  <2>3. KernelTypes' /\ KernelInv'
    BY <2>1, <2>2, KernelStays
  <2>4. AppTypes'
    BY <1>5, MergedList, RefreshTypes DEF PollApply
  <2> QED
    BY <1>5, <2>2, <2>3, <2>4, PollApplyMeta, TypesAreNext
<1>6. CASE \E pid \in Pid \cup {Nobody} : Select(pid)
  <2>1. PICK pid \in Pid \cup {Nobody} : Select(pid)
    BY <1>6
  <2>2. UNCHANGED kernelVars /\ UNCHANGED scanVars /\ UNCHANGED <<starting, meta>>
        /\ absent \subseteq stale
    BY <2>1 DEF Select, GroupTypes, GroupTypeOK
  <2>3. KernelTypes' /\ KernelInv'
    BY <2>2, KernelStays DEF kernelVars
  <2> QED
    BY <2>1, <2>2, <2>3, SelectTypes, ScanStays, MetaStays, TypesAreNext
<1>7. CASE StartDump \/ Publish \/ StopDump
  <2>1. UNCHANGED kernelVars /\ UNCHANGED <<procs, selected, instance, group>>
        /\ absent \subseteq stale
    BY <1>7 DEF StartDump, Publish, StopDump, GroupTypes, GroupTypeOK, kernelVars
  <2>2. KernelTypes' /\ KernelInv'
    BY <2>1, KernelStays DEF kernelVars
  <2>3. ScanTypes'
    <3>1. CASE StartDump \/ Publish
      BY <3>1, ScanStays DEF StartDump, Publish
    <3>2. CASE StopDump
      BY <3>2 DEF StopDump, ScanTypes, GroupTypes, GroupTypeOK
    <3> QED
      BY <1>7, <3>1, <3>2
  <2> QED
    BY <1>7, <2>1, <2>2, <2>3, AppStays, MetaTypesNext, TypesAreNext
<1>8. CASE UNCHANGED groupVars
  <2>1. UNCHANGED kernelVars /\ UNCHANGED scanVars /\ UNCHANGED appVars /\ absent \subseteq stale
    BY <1>8 DEF groupVars, GroupTypes, GroupTypeOK
  <2>2. KernelTypes' /\ KernelInv'
    BY <2>1, KernelStays DEF kernelVars
  <2> QED
    BY <2>1, <2>2, ScanStays, AppStays, MetaStays, TypesAreNext DEF appVars
<1> QED
  BY <1>1, <1>2, <1>3, <1>4, <1>5, <1>6, <1>7, <1>8 DEF GroupNext
-----------------------------------------------------------------------------
(* Identities and lines.                                                     *)

\* What is once true of the processes that were started stays true.
LEMMA OriginStays ==
  ASSUME GroupParameters, GroupTypes, KernelInv, [GroupNext]_groupVars
  PROVE  \/ UNCHANGED origin
         \/ /\ Births + 1 \notin DOMAIN origin /\ Births + 1 # Nobody
            /\ DOMAIN origin' = DOMAIN origin \cup {Births + 1}
            /\ \A s \in DOMAIN origin : origin'[s] = origin[s]
<1>1. CASE \E p \in Pid, by \in Pid \cup {Nobody} : Birth(p, by)
  <2>1. PICK p \in Pid, by \in Pid \cup {Nobody} : Birth(p, by)
    BY <1>1
  <2> QED
    BY <2>1, BirthOrigin
<1>2. CASE ~(\E p \in Pid, by \in Pid \cup {Nobody} : Birth(p, by))
  BY <1>2 DEF GroupNext, Death, ScanPid, PollBegin, PollApply, Select, StartDump, Publish, StopDump,
     groupVars, kernelVars
<1> QED
  BY <1>1, <1>2

LEMMA OriginRange ==
  ASSUME GroupParameters, GroupTypes
  PROVE  \A s \in DOMAIN origin : origin[s] = Nobody \/ origin[s] \in DOMAIN origin
<1>1. /\ Births \in Nat /\ DOMAIN origin = 1..Births
      /\ origin \in [1..Births -> 0..Births]
  BY BirthsCount DEF GroupTypes
<1>2. \A n \in 0..Births : n = 0 \/ n \in 1..Births
  BY <1>1
<1> QED
  BY <1>1, <1>2 DEF Nobody

\* A process descends from itself, and from what its parent descends from.
LEMMA LineOfSelf ==
  ASSUME NEW o, NEW s \in DOMAIN o
  PROVE  s \in LineOf(o, s)
  BY DEF LineOf

LEMMA LineOfParent ==
  ASSUME NEW o, NEW s \in DOMAIN o, o[s] # Nobody
  PROVE  LineOf(o, o[s]) \subseteq LineOf(o, s)
  BY DEF LineOf

\* Births do not change the line of a process.
LEMMA LineStays ==
  ASSUME GroupParameters, GroupTypes, KernelInv, [GroupNext]_groupVars,
         NEW s \in DOMAIN origin
  PROVE  Line(s)' = Line(s)
<1>1. CASE UNCHANGED origin
  BY <1>1 DEF Line
<1>2. CASE /\ DOMAIN origin \subseteq DOMAIN origin'
           /\ \A t \in DOMAIN origin : origin'[t] = origin[t]
  <2>1. ASSUME NEW r \in LineOf(origin', s)
        PROVE  r \in LineOf(origin, s)
    <3>1. ASSUME NEW S \in SUBSET DOMAIN origin, s \in S,
                 \A t \in S : origin[t] # Nobody => origin[t] \in S
          PROVE  r \in S
      <4>1. \A t \in S : origin'[t] # Nobody => origin'[t] \in S
        BY <1>2, <3>1
      <4>2. S \in SUBSET DOMAIN origin'
        BY <1>2
      <4> QED
        BY <2>1, <3>1, <4>1, <4>2 DEF LineOf
    <3>2. r \in DOMAIN origin
      BY <3>1, OriginRange
    <3> QED
      BY <3>1, <3>2 DEF LineOf
  <2>2. ASSUME NEW r \in LineOf(origin, s)
        PROVE  r \in LineOf(origin', s)
    <3>1. ASSUME NEW S \in SUBSET DOMAIN origin', s \in S,
                 \A t \in S : origin'[t] # Nobody => origin'[t] \in S
          PROVE  r \in S
      <4>1. \A t \in S \cap DOMAIN origin :
              origin[t] # Nobody => origin[t] \in S \cap DOMAIN origin
        BY <1>2, <3>1, OriginRange
      <4> QED
        BY <2>2, <3>1, <4>1 DEF LineOf
    <3> QED
      BY <1>2, <2>2, <3>1 DEF LineOf
  <2> QED
    BY <2>1, <2>2 DEF Line
<1> QED
  BY <1>1, <1>2, OriginStays

\* Real(p, s) after a step, of the pid and the process that p and s were before.
RealNext(p, s) == s \in DOMAIN origin' /\ \A q \in Pid : proc'[q] = s => q = p

\* An identity remains one: numbers are not used twice.
LEMMA RealStays ==
  ASSUME GroupParameters, GroupTypes, KernelInv, [GroupNext]_groupVars,
         NEW p, NEW s, Real(p, s)
  PROVE  RealNext(p, s)
<1>0. s \in DOMAIN origin /\ s # Nobody /\ \A q \in Pid : proc[q] = s => q = p
  BY BirthsCount DEF Real, GroupTypes, Nobody
<1>1. s \in DOMAIN origin'
  BY <1>0, OriginStays
<1>2. ASSUME NEW q \in Pid, proc'[q] = s
      PROVE  proc[q] = s
  <2>1. CASE \E x \in Pid, by \in Pid \cup {Nobody} : Birth(x, by)
    <3>1. PICK x \in Pid, by \in Pid \cup {Nobody} : Birth(x, by)
      BY <2>1
    <3>2. Births + 1 \notin DOMAIN origin
      BY <3>1, BirthOrigin
    <3> QED
      BY <1>0, <1>2, <3>1, <3>2 DEF Birth, GroupTypes, GroupTypeOK
  <2>2. CASE \E x \in Pid : Death(x)
    BY <1>0, <1>2, <2>2 DEF Death, GroupTypes, GroupTypeOK
  <2>3. CASE ~(\E x \in Pid, by \in Pid \cup {Nobody} : Birth(x, by)) /\ ~(\E x \in Pid : Death(x))
    BY <1>2, <2>3 DEF GroupNext, ScanPid, PollBegin, PollApply, Select, StartDump, Publish, StopDump,
       groupVars, kernelVars
  <2> QED
    BY <2>1, <2>2, <2>3
<1> QED
  BY <1>0, <1>1, <1>2 DEF RealNext

LEMMA RealListStays ==
  ASSUME GroupParameters, GroupTypes, KernelInv, [GroupNext]_groupVars,
         NEW list, RealList(list)
  PROVE  \A p \in DOMAIN list : RealNext(p, list[p].started)
  BY RealStays DEF RealList

LEMMA RealReadNext ==
  ASSUME GroupParameters, GroupTypes, KernelInv, RealInv, [GroupNext]_groupVars
  PROVE  RealList(read)'
<1>0. \A p \in DOMAIN read : RealNext(p, read[p].started)
  BY RealListStays DEF RealInv
<1>1. CASE \E x \in Pid : ScanPid(x)
  <2>1. PICK x \in Pid : ScanPid(x)
    BY <1>1
  <2>2. proc[x] # Nobody => Real(x, proc[x])
    BY DEF KernelInv, Real
  <2>3. proc[x] # Nobody => RealNext(x, proc[x])
    BY <2>2, RealStays
  <2>4. /\ DOMAIN read' = DOMAIN read \cup (IF proc[x] = Nobody THEN {} ELSE {x})
        /\ \A q \in DOMAIN read : read'[q] = read[q]
        /\ proc[x] # Nobody => read'[x] = [started |-> proc[x], ppid |-> parent[x]]
    BY <2>1, ScanPidReads
  <2>5. \A q \in DOMAIN read' : RealNext(q, read'[q].started)
    <3>1. \A q \in DOMAIN read : RealNext(q, read'[q].started)
      BY <1>0, <2>4
    <3>2. proc[x] # Nobody => RealNext(x, read'[x].started)
      BY <2>3, <2>4
    <3> QED
      BY <2>4, <3>1, <3>2
  <2> QED
    BY <2>5 DEF RealList, Real, RealNext
<1>2. CASE PollApply
  BY <1>2, EmptyListing DEF PollApply, RealList, Real, RealNext
<1>3. CASE ~(\E x \in Pid : ScanPid(x)) /\ ~PollApply
  <2>1. read' = read
    BY <1>3 DEF GroupNext, Birth, Death, PollBegin, Select, StartDump, Publish, StopDump,
       groupVars, scanVars
  <2> QED
    BY <1>0, <2>1 DEF RealList, Real, RealNext
<1> QED
  BY <1>1, <1>2, <1>3

LEMMA RealProcsNext ==
  ASSUME GroupParameters, GroupTypes, KernelInv, RealInv, [GroupNext]_groupVars
  PROVE  RealList(procs)'
<1>0. /\ \A p \in DOMAIN read : RealNext(p, read[p].started)
      /\ \A p \in DOMAIN procs : RealNext(p, procs[p].started)
  BY RealListStays DEF RealInv
<1>1. CASE PollApply
  BY <1>0, <1>1, MergedList DEF RealList, Real, RealNext
<1>2. CASE ~PollApply
  <2>1. procs' = procs
    BY <1>2 DEF GroupNext, Birth, Death, ScanPid, PollBegin, Select, StartDump, Publish, StopDump,
       groupVars, appVars
  <2> QED
    BY <1>0, <2>1 DEF RealList, Real, RealNext
<1> QED
  BY <1>1, <1>2

LEMMA RealMetaStays ==
  ASSUME GroupParameters, GroupTypes, KernelInv, [GroupNext]_groupVars,
         NEW m, RealMeta(m)
  PROVE  \A id \in m.instances : RealNext(id[1], id[2]) /\ id[1] \in m.pids
  BY RealStays DEF RealMeta

LEMMA RealMetaNext ==
  ASSUME GroupParameters, GroupTypes, KernelInv, RealInv, [GroupNext]_groupVars
  PROVE  RealMeta(starting)' /\ RealMeta(meta)'
<1>0. /\ \A id \in starting.instances : RealNext(id[1], id[2]) /\ id[1] \in starting.pids
      /\ \A id \in meta.instances : RealNext(id[1], id[2]) /\ id[1] \in meta.pids
  BY RealMetaStays DEF RealInv
<1>1. CASE PollApply
  <2>1. starting' = starting
    BY <1>1 DEF PollApply
  <2>2. CASE ~Recording
    BY <1>0, <1>1, <2>1, <2>2 DEF PollApply, TrackDump, RealMeta, Real, RealNext
  <2>3. CASE Recording
    <3> DEFINE new == Identities(procs', Descendants(procs', LiveRoots(meta, procs')))
    <3>1. /\ meta'.instances \subseteq meta.instances \cup new
          /\ meta'.pids = meta.pids \cup {id[1] : id \in meta'.instances}
      BY <1>1, <2>3, MergedList, TrackDumpGives DEF PollApply
    <3>2. \A id \in new : RealNext(id[1], id[2])
      BY RealProcsNext DEF RealList, Real, RealNext, Identities
    <3> QED
      BY <1>0, <2>1, <3>1, <3>2 DEF RealMeta, Real, RealNext
  <2> QED
    BY <2>2, <2>3
<1>2. CASE StartDump
  <2>1. /\ starting'.instances = Identities(procs, group) /\ starting'.pids = group
        /\ meta' = meta
    BY <1>2, StartDumpGives
  <2>2. \A p \in DOMAIN procs : RealNext(p, procs[p].started)
    BY RealListStays DEF RealInv
  <2> QED
    BY <1>0, <2>1, <2>2 DEF RealMeta, Real, RealNext, Identities
<1>3. CASE Publish \/ StopDump
  <2>1. starting' \in {starting, NoMeta} /\ meta' \in {starting, meta, NoMeta}
    BY <1>3 DEF Publish, StopDump
  <2>2. NoMeta.instances = {}
    BY DEF NoMeta
  <2> QED
    BY <1>0, <2>1, <2>2 DEF RealMeta, Real, RealNext
<1>4. CASE ~PollApply /\ ~StartDump /\ ~Publish /\ ~StopDump
  <2>1. starting' = starting /\ meta' = meta
    BY <1>4 DEF GroupNext, Birth, Death, ScanPid, PollBegin, Select, groupVars, appVars
  <2> QED
    BY <1>0, <2>1 DEF RealMeta, Real, RealNext
<1> QED
  BY <1>1, <1>2, <1>3, <1>4
-----------------------------------------------------------------------------
(* Lists.                                                                    *)

\* What Current, ParentCurrent and ParentsIn say after a step of lists that
\* were read before it.
CurrentNext(list) ==
  \A p \in DOMAIN list : proc'[p] = list[p].started \/ (proc'[p] = Nobody /\ p \in stale')
ParentCurrentNext(list) ==
  \A p \in DOMAIN list : list[p].ppid # Nobody =>
    \/ proc'[list[p].ppid] # Nobody /\ proc'[list[p].ppid] = origin'[list[p].started]
    \/ proc'[list[p].ppid] = Nobody /\ list[p].ppid \in stale'
ParentsInNext(a, b) ==
  \A p \in DOMAIN a : a[p].ppid \in DOMAIN b => origin'[a[p].started] = b[a[p].ppid].started

LEMMA NobodyIsNone ==
  ASSUME GroupParameters, GroupTypes
  PROVE  Nobody \notin Pid /\ Nobody \notin DOMAIN origin
  BY BirthsCount DEF Pid, Nobody, GroupTypes

LEMMA OriginSame ==
  ASSUME GroupParameters, GroupTypes, KernelInv, [GroupNext]_groupVars
  PROVE  \A s \in DOMAIN origin : origin'[s] = origin[s]
  BY OriginStays

LEMMA ParentsInStays ==
  ASSUME GroupParameters, GroupTypes, KernelInv, [GroupNext]_groupVars,
         NEW a, NEW b, RealList(a), ParentsIn(a, b)
  PROVE  ParentsInNext(a, b)
<1>1. \A p \in DOMAIN a : a[p].started \in DOMAIN origin
  BY DEF RealList, Real
<1> QED
  BY <1>1, OriginSame DEF ParentsIn, ParentsInNext

\* A listed process keeps its pid, or leaves it to wait: until a poll frees it.
LEMMA CurrentStays ==
  ASSUME GroupParameters, GroupTypes, KernelInv, [GroupNext]_groupVars, ~PollApply,
         NEW list \in Listing, RealList(list), Current(list)
  PROVE  CurrentNext(list)
<1>0. /\ proc \in [Pid -> Start \cup {Nobody}] /\ DOMAIN list \subseteq Pid
      /\ \A p \in DOMAIN list : list[p].started # Nobody
  BY NobodyIsNone, ListingHas DEF RealList, Real, GroupTypes, GroupTypeOK
<1>1. CASE \E x \in Pid, by \in Pid \cup {Nobody} : Birth(x, by)
  <2>1. PICK x \in Pid, by \in Pid \cup {Nobody} : Birth(x, by)
    BY <1>1
  <2>2. x \notin DOMAIN list
    BY <2>1, <1>0 DEF Birth, Current
  <2>3. \A p \in Pid : p # x => proc'[p] = proc[p]
    BY <2>1, <1>0 DEF Birth
  <2>4. stale' = stale
    BY <2>1 DEF Birth
  <2> QED
    BY <1>0, <2>2, <2>3, <2>4 DEF Current, CurrentNext
<1>2. CASE \E x \in Pid : Death(x)
  <2>1. PICK x \in Pid : Death(x)
    BY <1>2
  <2>2. \A p \in Pid : proc'[p] = IF p = x THEN Nobody ELSE proc[p]
    BY <2>1, <1>0 DEF Death
  <2>3. stale' = stale \cup {x}
    BY <2>1 DEF Death
  <2> QED
    BY <1>0, <2>2, <2>3 DEF Current, CurrentNext
<1>3. CASE ~(\E x \in Pid, by \in Pid \cup {Nobody} : Birth(x, by)) /\ ~(\E x \in Pid : Death(x))
  <2>1. proc' = proc /\ stale' = stale
    BY <1>3 DEF GroupNext, ScanPid, PollBegin, Select, StartDump, Publish, StopDump,
       groupVars, kernelVars
  <2> QED
    BY <2>1 DEF Current, CurrentNext
<1> QED
  BY <1>1, <1>2, <1>3

LEMMA ParentCurrentStays ==
  ASSUME GroupParameters, GroupTypes, KernelInv, [GroupNext]_groupVars, ~PollApply,
         NEW list \in Listing, RealList(list), ParentCurrent(list)
  PROVE  ParentCurrentNext(list)
<1>0. /\ proc \in [Pid -> Start \cup {Nobody}]
      /\ \A p \in DOMAIN list : list[p].ppid # Nobody => list[p].ppid \in Pid
      /\ \A p \in DOMAIN list : list[p].started \in DOMAIN origin
  BY ListingHas DEF RealList, Real, GroupTypes, GroupTypeOK
<1>1. \A p \in DOMAIN list : origin'[list[p].started] = origin[list[p].started]
  BY <1>0, OriginSame
<1>2. CASE \E x \in Pid, by \in Pid \cup {Nobody} : Birth(x, by)
  <2>1. PICK x \in Pid, by \in Pid \cup {Nobody} : Birth(x, by)
    BY <1>2
  <2>2. \A p \in DOMAIN list : list[p].ppid # Nobody => list[p].ppid # x
    BY <2>1, <1>0 DEF Birth, ParentCurrent
  <2>3. \A p \in Pid : p # x => proc'[p] = proc[p]
    BY <2>1, <1>0 DEF Birth
  <2>4. stale' = stale
    BY <2>1 DEF Birth
  <2> QED
    BY <1>0, <1>1, <2>2, <2>3, <2>4 DEF ParentCurrent, ParentCurrentNext
<1>3. CASE \E x \in Pid : Death(x)
  <2>1. PICK x \in Pid : Death(x)
    BY <1>3
  <2>2. \A p \in Pid : proc'[p] = IF p = x THEN Nobody ELSE proc[p]
    BY <2>1, <1>0 DEF Death
  <2>3. stale' = stale \cup {x}
    BY <2>1 DEF Death
  <2> QED
    BY <1>0, <1>1, <2>2, <2>3 DEF ParentCurrent, ParentCurrentNext
<1>4. CASE ~(\E x \in Pid, by \in Pid \cup {Nobody} : Birth(x, by)) /\ ~(\E x \in Pid : Death(x))
  <2>1. proc' = proc /\ stale' = stale
    BY <1>4 DEF GroupNext, ScanPid, PollBegin, Select, StartDump, Publish, StopDump,
       groupVars, kernelVars
  <2> QED
    BY <1>1, <2>1 DEF ParentCurrent, ParentCurrentNext
<1> QED
  BY <1>2, <1>3, <1>4

\* One entry more: it fits the list it joins and the list it will be merged with.
LEMMA ScanPidLists ==
  ASSUME GroupParameters, GroupTypes, KernelInv, RealInv, ListInv,
         NEW x \in Pid, ScanPid(x)
  PROVE  ListInv'
<1>1. UNCHANGED <<proc, parent, origin, stale, absent, procs>>
  BY DEF ScanPid, kernelVars, appVars
<1>2. /\ DOMAIN read' = DOMAIN read \cup (IF proc[x] = Nobody THEN {} ELSE {x})
      /\ x \notin DOMAIN read
      /\ \A q \in DOMAIN read : read'[q] = read[q]
      /\ proc[x] # Nobody => read'[x] = [started |-> proc[x], ppid |-> parent[x]]
  BY ScanPidReads
<1>3. CASE proc[x] = Nobody
  <2>1. DOMAIN read' = DOMAIN read /\ \A q \in DOMAIN read : read'[q] = read[q]
    BY <1>2, <1>3
  <2> QED
    BY <1>1, <2>1 DEF ListInv, Current, ParentCurrent, ParentsIn
<1>4. CASE proc[x] # Nobody
  <2>1. /\ DOMAIN read' = DOMAIN read \cup {x}
        /\ read'[x].started = proc[x] /\ read'[x].ppid = parent[x]
        /\ \A q \in DOMAIN read : read'[q] = read[q]
    BY <1>2, <1>4
  <2>2. /\ parent[x] # Nobody => /\ proc[parent[x]] # Nobody
                                 /\ origin[proc[x]] = proc[parent[x]]
        /\ x \notin absent /\ parent[x] \notin absent
    BY <1>4, NobodyIsNone DEF KernelInv, GroupTypes, GroupTypeOK
  <2>3. Current(read)'
    BY <1>1, <2>1 DEF ListInv, Current
  <2>4. Current(procs)' /\ ParentCurrent(procs)' /\ ParentsIn(procs, procs)'
    BY <1>1 DEF ListInv, Current, ParentCurrent, ParentsIn
  <2>5. ParentCurrent(read)'
    BY <1>1, <2>1, <2>2 DEF ListInv, ParentCurrent
  <2>6. Nobody \notin DOMAIN read /\ Nobody \notin DOMAIN procs
    BY NobodyIsNone, ListingHas DEF GroupTypes, GroupTypeOK
  <2>7. ASSUME NEW p \in DOMAIN read', read'[p].ppid \in DOMAIN read'
        PROVE  origin[read'[p].started] = read'[read'[p].ppid].started
    <3>1. CASE p = x /\ read'[p].ppid = x
      BY <3>1, <2>1, <2>2, NobodyIsNone
    <3>2. CASE p = x /\ read'[p].ppid # x
      <4>1. parent[x] \in DOMAIN read /\ parent[x] # Nobody
        BY <3>2, <2>1, <2>6, <2>7
      <4>2. read[parent[x]].started = proc[parent[x]]
        BY <4>1, <2>2 DEF ListInv, Current
      <4> QED
        BY <3>2, <4>1, <4>2, <2>1, <2>2
    <3>3. CASE p # x /\ read'[p].ppid = x
      <4>1. p \in DOMAIN read /\ read[p].ppid = x /\ x # Nobody
        BY <3>3, <2>1, NobodyIsNone
      <4>2. proc[x] = origin[read[p].started]
        BY <4>1, <1>4 DEF ListInv, ParentCurrent
      <4> QED
        BY <3>3, <4>1, <4>2, <2>1
    <3>4. CASE p # x /\ read'[p].ppid # x
      <4>1. p \in DOMAIN read /\ read'[p] = read[p] /\ read[p].ppid \in DOMAIN read
        BY <3>4, <2>1, <2>7
      <4>2. origin[read[p].started] = read[read[p].ppid].started
        BY <4>1 DEF ListInv, ParentsIn
      <4> QED
        BY <4>1, <4>2, <2>1
    <3> QED
      BY <3>1, <3>2, <3>3, <3>4
  <2>8. ASSUME NEW p \in DOMAIN read', read'[p].ppid \in DOMAIN procs
        PROVE  origin[read'[p].started] = procs[read'[p].ppid].started
    <3>1. CASE p = x
      <4>1. parent[x] \in DOMAIN procs /\ parent[x] # Nobody
        BY <3>1, <2>1, <2>6, <2>8
      <4>2. procs[parent[x]].started = proc[parent[x]]
        BY <4>1, <2>2 DEF ListInv, Current
      <4> QED
        BY <3>1, <4>1, <4>2, <2>1, <2>2
    <3>2. CASE p # x
      BY <3>2, <2>1, <2>8 DEF ListInv, ParentsIn
    <3> QED
      BY <3>1, <3>2
  <2>9. ASSUME NEW p \in DOMAIN procs, procs[p].ppid \in DOMAIN read'
        PROVE  origin[procs[p].started] = read'[procs[p].ppid].started
    <3>1. CASE procs[p].ppid = x
      <4>1. proc[x] = origin[procs[p].started]
        BY <3>1, <1>4, NobodyIsNone DEF ListInv, ParentCurrent
      <4> QED
        BY <3>1, <4>1, <2>1
    <3>2. CASE procs[p].ppid # x
      BY <3>2, <2>1, <2>9 DEF ListInv, ParentsIn
    <3> QED
      BY <3>1, <3>2
  <2>10. ParentsIn(read, read)' /\ ParentsIn(read, procs)' /\ ParentsIn(procs, read)'
    BY <1>1, <2>7, <2>8, <2>9 DEF ParentsIn
  <2>11. \A p \in DOMAIN read' : p \in DOMAIN procs => read'[p].started = procs[p].started
    BY <1>4, <2>1 DEF ListInv, Current
  <2>12. \A p \in DOMAIN read' : p \notin absent /\ read'[p].ppid \notin absent
    BY <2>1, <2>2 DEF ListInv
  <2> QED
    BY <1>1, <2>3, <2>4, <2>5, <2>10, <2>11, <2>12 DEF ListInv
<1> QED
  BY <1>3, <1>4

\* Two lists that fit one another fit when they are merged; the pids that are
\* free again were not found and are named nowhere.
LEMMA PollApplyLists ==
  ASSUME GroupParameters, GroupTypes, ListInv, ScanInv, PollApply
  PROVE  ListInv'
<1>1. /\ DOMAIN procs' = DOMAIN read \cup (DOMAIN procs \ scan)
      /\ \A p \in DOMAIN read : procs'[p] = read[p]
      /\ \A p \in DOMAIN procs \ scan : procs'[p] = procs[p]
  BY MergedList
<1>2. /\ UNCHANGED <<proc, origin>> /\ stale' = stale \ absent /\ absent' = {}
      /\ DOMAIN read' = {}
  BY EmptyListing DEF PollApply
<1>3. DOMAIN procs \subseteq Pid
  BY ListingHas DEF GroupTypes, GroupTypeOK
<1>4. \A p \in DOMAIN procs' : p \notin absent /\ procs'[p].ppid \notin absent
  <2>1. CASE absent = {}
    BY <2>1
  <2>2. CASE absent # {}
    <3>1. DOMAIN procs' = DOMAIN read
      BY <2>2, <1>1, <1>3 DEF ScanInv
    <3> QED
      BY <3>1, <1>1 DEF ListInv
  <2> QED
    BY <2>1, <2>2
<1>5. Current(procs)'
  <2>1. \A p \in DOMAIN procs' :
          proc[p] = procs'[p].started \/ (proc[p] = Nobody /\ p \in stale)
    BY <1>1 DEF ListInv, Current
  <2> QED
    BY <1>2, <1>4, <2>1 DEF Current
<1>6. ParentCurrent(procs)'
  <2>1. \A p \in DOMAIN procs' : procs'[p].ppid # Nobody =>
          \/ proc[procs'[p].ppid] # Nobody /\ proc[procs'[p].ppid] = origin[procs'[p].started]
          \/ proc[procs'[p].ppid] = Nobody /\ procs'[p].ppid \in stale
    BY <1>1 DEF ListInv, ParentCurrent
  <2> QED
    BY <1>2, <1>4, <2>1 DEF ParentCurrent
<1>7. ParentsIn(procs, procs)'
  <2>1. ASSUME NEW p \in DOMAIN procs', procs'[p].ppid \in DOMAIN procs'
        PROVE  origin[procs'[p].started] = procs'[procs'[p].ppid].started
    <3> DEFINE q == procs'[p].ppid
    <3>1. CASE p \in DOMAIN read /\ q \in DOMAIN read
      BY <3>1, <1>1 DEF ListInv, ParentsIn
    <3>2. CASE p \in DOMAIN read /\ q \in DOMAIN procs \ scan
      BY <3>2, <1>1 DEF ListInv, ParentsIn
    <3>3. CASE p \in DOMAIN procs \ scan /\ q \in DOMAIN read
      BY <3>3, <1>1 DEF ListInv, ParentsIn
    <3>4. CASE p \in DOMAIN procs \ scan /\ q \in DOMAIN procs \ scan
      BY <3>4, <1>1 DEF ListInv, ParentsIn
    <3> QED
      BY <2>1, <1>1, <3>1, <3>2, <3>3, <3>4
  <2> QED
    BY <1>2, <2>1 DEF ParentsIn
<1>8. /\ Current(read)' /\ ParentCurrent(read)' /\ ParentsIn(read, read)'
      /\ ParentsIn(read, procs)' /\ ParentsIn(procs, read)'
  BY <1>2 DEF Current, ParentCurrent, ParentsIn
<1>9. /\ \A p \in DOMAIN read' : p \in DOMAIN procs' => read'[p].started = procs'[p].started
      /\ \A p \in DOMAIN read' : p \notin absent' /\ read'[p].ppid \notin absent'
  BY <1>2
<1> QED
  BY <1>5, <1>6, <1>7, <1>8, <1>9 DEF ListInv

LEMMA ListInvNext ==
  ASSUME GroupParameters, GroupTypes, KernelInv, RealInv, ListInv, ScanInv,
         [GroupNext]_groupVars
  PROVE  ListInv'
<1>1. CASE PollApply
  BY <1>1, PollApplyLists
<1>2. CASE \E x \in Pid : ScanPid(x)
  BY <1>2, ScanPidLists
<1>3. CASE ~PollApply /\ ~(\E x \in Pid : ScanPid(x))
  <2>1. read \in Listing /\ procs \in Listing
    BY DEF GroupTypes, GroupTypeOK
  <2>2. /\ CurrentNext(read) /\ CurrentNext(procs)
        /\ ParentCurrentNext(read) /\ ParentCurrentNext(procs)
    BY <1>3, <2>1, CurrentStays, ParentCurrentStays DEF ListInv, RealInv
  <2>3. /\ ParentsInNext(read, read) /\ ParentsInNext(read, procs)
        /\ ParentsInNext(procs, read) /\ ParentsInNext(procs, procs)
    BY ParentsInStays DEF ListInv, RealInv
  <2>4. procs' = procs /\ read' = read
    BY <1>3 DEF GroupNext, Birth, Death, PollBegin, Select, StartDump, Publish, StopDump,
       groupVars, scanVars, appVars
  <2>5. /\ Current(read)' /\ Current(procs)'
        /\ ParentCurrent(read)' /\ ParentCurrent(procs)'
    BY <2>2, <2>4 DEF Current, ParentCurrent, CurrentNext, ParentCurrentNext
  <2>6. /\ ParentsIn(read, read)' /\ ParentsIn(read, procs)'
        /\ ParentsIn(procs, read)' /\ ParentsIn(procs, procs)'
    BY <2>3, <2>4 DEF ParentsIn, ParentsInNext
  <2>7. \A p \in DOMAIN read' : p \in DOMAIN procs' => read'[p].started = procs'[p].started
    BY <2>4 DEF ListInv
  <2>8. \A p \in DOMAIN read' : p \notin absent' /\ read'[p].ppid \notin absent'
    <3>1. CASE PollBegin
      BY <3>1, PollBeginTypes, EmptyListing
    <3>2. CASE ~PollBegin
      <4>1. absent' = absent
        BY <1>3, <3>2 DEF GroupNext, Birth, Death, Select, StartDump, Publish, StopDump,
           groupVars, kernelVars
      <4> QED
        BY <2>4, <4>1 DEF ListInv
    <3> QED
      BY <3>1, <3>2
  <2> QED
    BY <2>5, <2>6, <2>7, <2>8 DEF ListInv
<1> QED
  BY <1>1, <1>2, <1>3
-----------------------------------------------------------------------------
(* Scans.                                                                    *)

LEMMA ScanInvNext ==
  ASSUME GroupParameters, GroupTypes, KernelInv, RealInv, ListInv, ScanInv,
         [GroupNext]_groupVars
  PROVE  ScanInv'
<1> USE DEF GroupTypes, GroupTypeOK
<1>1. CASE \E x \in Pid, by \in Pid \cup {Nobody} : Birth(x, by)
  <2>1. PICK x \in Pid, by \in Pid \cup {Nobody} : Birth(x, by)
    BY <1>1
  <2>2. /\ Births + 1 \notin DOMAIN origin
        /\ DOMAIN origin' = DOMAIN origin \cup {Births + 1}
    BY <2>1, BirthOrigin
  <2>3. /\ UNCHANGED <<absent, tick, scan, todo, read, atBegin, procs>>
        /\ proc[x] = Nobody /\ x \notin stale
        /\ proc' = [proc EXCEPT ![x] = Births + 1]
    BY <2>1 DEF Birth, scanVars, appVars
  <2>4. \A p \in Pid : proc'[p] = IF p = x THEN Births + 1 ELSE proc[p]
    BY <2>3
  <2>5. DOMAIN procs \subseteq Pid /\ \A p \in DOMAIN procs : procs[p].started # Nobody
    BY ListingHas, NobodyIsNone DEF RealInv, RealList, Real
  <2>6. x \notin DOMAIN procs
    BY <2>3, <2>5 DEF ListInv, Current
  <2>7. Births + 1 \notin atBegin
    BY <2>2 DEF ScanInv
  <2>8. \A p \in (Pid \cap scan) \ todo :
          proc'[p] \in atBegin => p \in DOMAIN read /\ read[p].started = proc'[p]
    BY <2>4, <2>7 DEF ScanInv
  <2>9. scan # NoScan => \A p \in DOMAIN procs : proc'[p] # Nobody => proc'[p] \in atBegin
    BY <2>4, <2>5, <2>6 DEF ScanInv
  <2>10. (absent # {} => scan = Pid /\ Full) /\ atBegin \subseteq DOMAIN origin'
    BY <2>2 DEF ScanInv
  <2> QED
    BY <2>3, <2>8, <2>9, <2>10 DEF ScanInv, Full, NoScan
<1>2. CASE \E x \in Pid : Death(x)
  <2>1. PICK x \in Pid : Death(x)
    BY <1>2
  <2>2. UNCHANGED <<origin, absent, tick, scan, todo, read, atBegin, procs>>
    BY <2>1 DEF Death, scanVars, appVars
  <2>3. \A p \in Pid : proc'[p] = IF p = x THEN Nobody ELSE proc[p]
    BY <2>1 DEF Death
  <2>4. Nobody \notin atBegin /\ DOMAIN procs \subseteq Pid
    BY NobodyIsNone, ListingHas DEF ScanInv
  <2> QED
    BY <2>2, <2>3, <2>4 DEF ScanInv, Full, NoScan
<1>3. CASE \E x \in Pid : ScanPid(x)
  <2>1. PICK x \in Pid : ScanPid(x)
    BY <1>3
  <2>2. /\ UNCHANGED <<proc, origin, absent, tick, scan, atBegin, procs>>
        /\ todo' = todo \ {x}
    BY <2>1 DEF ScanPid, kernelVars, appVars
  <2>3. /\ DOMAIN read' = DOMAIN read \cup (IF proc[x] = Nobody THEN {} ELSE {x})
        /\ \A q \in DOMAIN read : read'[q] = read[q]
        /\ proc[x] # Nobody => read'[x] = [started |-> proc[x], ppid |-> parent[x]]
    BY <2>1, ScanPidReads
  <2>4. Nobody \notin atBegin
    BY NobodyIsNone DEF ScanInv
  <2>5. \A p \in (Pid \cap scan) \ todo' :
          proc[p] \in atBegin => p \in DOMAIN read' /\ read'[p].started = proc[p]
    <3>1. ASSUME NEW p \in (Pid \cap scan) \ todo, proc[p] \in atBegin
          PROVE  p \in DOMAIN read' /\ read'[p].started = proc[p]
      BY <3>1, <2>3 DEF ScanInv
    <3>2. proc[x] \in atBegin => x \in DOMAIN read' /\ read'[x].started = proc[x]
      BY <2>3, <2>4
    <3> QED
      BY <2>2, <3>1, <3>2
  <2> QED
    BY <2>2, <2>5 DEF ScanInv, Full, NoScan
<1>4. CASE PollBegin
  <2>1. /\ UNCHANGED <<proc, origin, procs>> /\ scan' = todo'
        /\ atBegin' = Living
        /\ absent' = IF tick' = 1 % FullEvery THEN stale ELSE {}
    BY <1>4 DEF PollBegin, appVars
  <2>2. absent' # {} => scan' = Pid /\ Full'
    BY <1>4, <2>1 DEF PollBegin, ScanOf, Full
  <2>3. atBegin' \subseteq DOMAIN origin'
    BY <2>1 DEF Living, KernelInv
  <2>4. \A p \in Pid : proc[p] # Nobody => proc[p] \in atBegin'
    BY <2>1 DEF Living
  <2>5. DOMAIN procs \subseteq Pid
    BY ListingHas
  <2> QED
    BY <2>1, <2>2, <2>3, <2>4, <2>5 DEF ScanInv
<1>5. CASE PollApply
  <2>1. /\ scan' = NoScan /\ absent' = {} /\ atBegin' = {}
    BY <1>5 DEF PollApply
  <2> QED
    BY <2>1 DEF ScanInv, NoScan
<1>6. CASE \/ \E pid \in Pid \cup {Nobody} : Select(pid)
           \/ StartDump \/ Publish \/ StopDump \/ UNCHANGED groupVars
  <2>1. UNCHANGED <<proc, origin, absent, tick, scan, todo, read, atBegin, procs>>
    BY <1>6 DEF Select, StartDump, Publish, StopDump, groupVars, kernelVars, scanVars, appVars
  <2> QED
    BY <2>1 DEF ScanInv, Full, NoScan
<1> QED
  BY <1>1, <1>2, <1>3, <1>4, <1>5, <1>6 DEF GroupNext

LEMMA FollowInvNext ==
  ASSUME GroupParameters, GroupTypes, KernelInv, RealInv, FollowInv, [GroupNext]_groupVars
  PROVE  FollowInv'
<1> SUFFICES ASSUME followed'
             PROVE  FollowInv'
  BY DEF FollowInv
<1>1. CASE PollBegin
  <2>1. /\ UNCHANGED <<proc, meta>> /\ Recording /\ scan' = ScanOf /\ atBegin' = Living
        /\ scan' # NoScan
    <3>1. /\ UNCHANGED <<proc, meta>> /\ Recording /\ scan' = ScanOf /\ atBegin' = Living
      BY <1>1 DEF PollBegin, appVars
    <3>2. scan' \subseteq Pid
      BY <3>1 DEF ScanOf, GroupTypes, GroupTypeOK, Meta
    <3> QED
      BY <3>1, <3>2, NobodyIsNone DEF NoScan
  <2>2. meta.pids \subseteq scan'
    BY <2>1 DEF ScanOf, GroupTypes, GroupTypeOK, Meta
  <2>3. \A p \in Pid : proc[p] \in Members(meta) => proc[p] \in atBegin'
    <3>1. \A s \in Members(meta) : s \in DOMAIN origin
      BY DEF Members, RealInv, RealMeta, Real
    <3> QED
      BY <2>1, <3>1, NobodyIsNone DEF Living
  <2>4. DOMAIN read' = {}
    BY <1>1, PollBeginTypes, EmptyListing
  <2> QED
    BY <2>1, <2>2, <2>3, <2>4 DEF FollowInv, Recording, Members, NoScan, NoMeta
<1>2. CASE ~PollBegin
  <2>1. followed /\ atBegin' = atBegin /\ scan' = scan
    BY <1>2 DEF GroupNext, Birth, Death, ScanPid, PollApply, Select, StartDump, Publish, StopDump,
       groupVars, scanVars
  <2>2. /\ Recording /\ scan # NoScan /\ meta.pids \subseteq scan
        /\ \A p \in Pid : proc[p] \in Members(meta) => proc[p] \in atBegin
        /\ \A p \in DOMAIN read : read[p].started \in Members(meta) => read[p].started \in atBegin
    BY <2>1 DEF FollowInv
  <2>3. meta' = meta
    <3>1. starting = NoMeta
      BY <2>2 DEF Recording, GroupTypes, GroupTypeOK
    <3>2. ~Publish /\ ~StopDump /\ ~PollApply
      BY <3>1 DEF Publish, StopDump, PollApply
    <3> QED
      BY <1>2, <3>2 DEF GroupNext, Birth, Death, ScanPid, Select, StartDump, groupVars, appVars
  <2>4. \A s \in Members(meta) : s \in DOMAIN origin /\ s # Nobody
    BY NobodyIsNone DEF Members, RealInv, RealMeta, Real
  <2>5. \A p \in Pid : proc'[p] \in Members(meta) => proc'[p] = proc[p]
    <3>1. CASE \E x \in Pid, by \in Pid \cup {Nobody} : Birth(x, by)
      <4>1. PICK x \in Pid, by \in Pid \cup {Nobody} : Birth(x, by)
        BY <3>1
      <4>2. Births + 1 \notin DOMAIN origin
        BY <4>1, BirthOrigin
      <4>3. \A p \in Pid : proc'[p] = IF p = x THEN Births + 1 ELSE proc[p]
        BY <4>1 DEF Birth, GroupTypes, GroupTypeOK
      <4> QED
        BY <2>4, <4>2, <4>3
    <3>2. CASE \E x \in Pid : Death(x)
      <4>1. PICK x \in Pid : Death(x)
        BY <3>2
      <4>2. \A p \in Pid : proc'[p] = IF p = x THEN Nobody ELSE proc[p]
        BY <4>1 DEF Death, GroupTypes, GroupTypeOK
      <4> QED
        BY <2>4, <4>2
    <3>3. CASE ~(\E x \in Pid, by \in Pid \cup {Nobody} : Birth(x, by)) /\ ~(\E x \in Pid : Death(x))
      BY <3>3 DEF GroupNext, ScanPid, PollBegin, PollApply, Select, StartDump, Publish, StopDump,
         groupVars, kernelVars
    <3> QED
      BY <3>1, <3>2, <3>3
  <2>6. \A p \in DOMAIN read' : read'[p].started \in Members(meta) => read'[p].started \in atBegin
    <3>1. CASE \E x \in Pid : ScanPid(x)
      <4>1. PICK x \in Pid : ScanPid(x)
        BY <3>1
      <4>2. /\ DOMAIN read' = DOMAIN read \cup (IF proc[x] = Nobody THEN {} ELSE {x})
            /\ \A q \in DOMAIN read : read'[q] = read[q]
            /\ proc[x] # Nobody => read'[x] = [started |-> proc[x], ppid |-> parent[x]]
        BY <4>1, ScanPidReads
      <4>3. proc[x] # Nobody => read'[x].started = proc[x]
        BY <4>2
      <4> QED
        BY <2>2, <4>2, <4>3
    <3>2. CASE ~(\E x \in Pid : ScanPid(x))
      <4>1. read' = read
        BY <1>2, <2>1, <3>2 DEF GroupNext, Birth, Death, PollApply, Select, StartDump, Publish, StopDump,
           groupVars, scanVars
      <4> QED
        BY <2>2, <4>1
    <3> QED
      BY <3>1, <3>2
  <2> HIDE DEF Members
  <2>7. Members(meta)' = Members(meta)
    BY <2>3 DEF Members
  <2> QED
    BY <2>1, <2>2, <2>3, <2>5, <2>6, <2>7 DEF FollowInv, Recording, NoScan, NoMeta
<1> QED
  BY <1>1, <1>2
-----------------------------------------------------------------------------
(* Groups.                                                                   *)

\* In a list that fits itself, whoever is below a process that descends from R
\* descends from R.
LEMMA DescendantsDescend ==
  ASSUME GroupParameters, GroupTypes, NEW list \in Listing, RealList(list), ParentsIn(list, list),
         NEW roots \in SUBSET DOMAIN list, NEW R,
         \A p \in roots : Line(list[p].started) \cap R # {}
  PROVE  /\ Descendants(list, roots) \subseteq DOMAIN list
         /\ \A p \in Descendants(list, roots) : Line(list[p].started) \cap R # {}
<1> DEFINE S == {p \in DOMAIN list : Line(list[p].started) \cap R # {}}
<1>1. DOMAIN list \subseteq Pid
  BY ListingHas
<1>2. ASSUME NEW p \in DOMAIN list, list[p].ppid \in S
      PROVE  Line(list[p].started) \cap R # {}
  <2> DEFINE q == list[p].ppid
  <2>1. q \in DOMAIN list /\ Line(list[q].started) \cap R # {}
    BY <1>2
  <2>2. origin[list[p].started] = list[q].started
    BY <2>1 DEF ParentsIn
  <2>3. list[p].started \in DOMAIN origin /\ list[q].started \in DOMAIN origin
    BY <2>1 DEF RealList, Real
  <2>4. list[q].started # Nobody
    BY <2>3, NobodyIsNone
  <2>5. Line(list[q].started) \subseteq Line(list[p].started)
    BY <2>2, <2>3, <2>4, LineOfParent DEF Line
  <2> QED
    BY <2>1, <2>5
<1>3. Children(list, S) \subseteq S
  BY <1>2 DEF Children
<1>4. roots \subseteq S
  OBVIOUS
<1>5. Descendants(list, roots) \subseteq S
  BY <1>1, <1>3, <1>4, DescendantsLeast
<1> QED
  BY <1>5

LEMMA DescendStays ==
  ASSUME GroupParameters, GroupTypes, KernelInv, [GroupNext]_groupVars,
         NEW m, RealMeta(m), Descend(m)
  PROVE  \A id \in m.instances : LineOf(origin', id[2]) \cap m.roots # {}
<1>1. \A id \in m.instances : id[2] \in DOMAIN origin
  BY DEF RealMeta, Real
<1>2. \A s \in DOMAIN origin : LineOf(origin', s) = LineOf(origin, s)
  BY LineStays DEF Line
<1> QED
  BY <1>1, <1>2 DEF Descend, Line

\* The merged list, seen from before the poll applies it.
LEMMA MergedListFits ==
  ASSUME GroupParameters, GroupTypes, KernelInv, RealInv, ListInv, ScanInv, PollApply
  PROVE  /\ procs' \in Listing /\ RealList(procs') /\ ParentsIn(procs', procs')
         /\ UNCHANGED <<proc, parent, origin>>
<1>1. UNCHANGED <<proc, parent, origin>>
  BY DEF PollApply
<1>2. [GroupNext]_groupVars
  BY DEF GroupNext
<1>3. ListInv' /\ RealList(procs)'
  BY <1>2, PollApplyLists, RealProcsNext
<1>4. \A p \in DOMAIN procs' : procs'[p].started \in DOMAIN origin
                              /\ \A q \in Pid : proc[q] = procs'[p].started => q = p
  BY <1>1, <1>3 DEF RealList, Real
<1>5. \A p \in DOMAIN procs' : procs'[p].ppid \in DOMAIN procs' =>
         origin[procs'[p].started] = procs'[procs'[p].ppid].started
  BY <1>1, <1>3 DEF ListInv, ParentsIn
<1>6. RealList(procs')
  BY <1>4 DEF RealList, Real
<1>7. ParentsIn(procs', procs')
  BY <1>5 DEF ParentsIn
<1> QED
  BY <1>1, <1>6, <1>7, MergedList

LEMMA LiveRootsListed ==
  ASSUME NEW m, NEW list
  PROVE  /\ LiveRoots(m, list) \subseteq DOMAIN list
         /\ \A p \in LiveRoots(m, list) : <<p, list[p].started>> \in m.instances
  BY DEF LiveRoots, Identities

LEMMA DescendInvNext ==
  ASSUME GroupParameters, GroupTypes, KernelInv, RealInv, ListInv, ScanInv,
         Descend(starting), Descend(meta), [GroupNext]_groupVars
  PROVE  Descend(starting)' /\ Descend(meta)'
<1>0. /\ \A id \in starting.instances : LineOf(origin', id[2]) \cap starting.roots # {}
      /\ \A id \in meta.instances : LineOf(origin', id[2]) \cap meta.roots # {}
  BY DescendStays DEF RealInv
<1>1. CASE PollApply
  <2>1. starting' = starting /\ TrackDump(procs')
    BY <1>1 DEF PollApply
  <2>2. CASE ~Recording
    BY <1>0, <2>1, <2>2 DEF TrackDump, Descend, Line
  <2>3. CASE Recording
    <3> DEFINE roots == LiveRoots(meta, procs')
               below == Descendants(procs', roots)
    <3>1. /\ procs' \in Listing /\ RealList(procs') /\ ParentsIn(procs', procs')
          /\ origin' = origin
      BY <1>1, MergedListFits
    <3>2. /\ meta'.instances \subseteq meta.instances \cup Identities(procs', below)
          /\ meta'.roots = meta.roots
      BY <2>1, <2>3, <3>1, TrackDumpGives
    <3>3. roots \in SUBSET DOMAIN procs'
      BY LiveRootsListed
    <3>4. \A p \in roots : Line(procs'[p].started) \cap meta.roots # {}
      <4>1. \A p \in roots : <<p, procs'[p].started>> \in meta.instances
        BY LiveRootsListed
      <4> QED
        BY <4>1 DEF Descend
    <3>5. \A p \in below : Line(procs'[p].started) \cap meta.roots # {}
      BY <3>1, <3>3, <3>4, DescendantsDescend
    <3> HIDE DEF below
    <3>6. \A id \in meta'.instances : Line(id[2]) \cap meta.roots # {}
      BY <3>2, <3>5 DEF Descend, Identities
    <3>7. \A id \in meta'.instances : LineOf(origin', id[2]) \cap meta'.roots # {}
      BY <3>1, <3>2, <3>6 DEF Line
    <3> QED
      BY <1>0, <2>1, <3>7 DEF Descend, Line
  <2> QED
    BY <2>2, <2>3
<1>2. CASE StartDump
  <2>1. /\ starting'.instances = Identities(procs, group)
        /\ starting'.roots = {id[2] : id \in Identities(procs, group)}
        /\ meta' = meta /\ origin' = origin
    BY <1>2, StartDumpGives DEF StartDump, kernelVars
  <2>2. \A id \in Identities(procs, group) : id[2] \in DOMAIN origin
    BY DEF Identities, RealInv, RealList, Real
  <2>3. \A id \in starting'.instances : LineOf(origin', id[2]) \cap starting'.roots # {}
    BY <2>1, <2>2, LineOfSelf
  <2> QED
    BY <1>0, <2>1, <2>3 DEF Descend, Line
<1>3. CASE Publish \/ StopDump
  <2>1. starting' \in {starting, NoMeta} /\ meta' \in {starting, meta, NoMeta}
    BY <1>3 DEF Publish, StopDump
  <2>2. NoMeta.instances = {}
    BY DEF NoMeta
  <2> QED
    BY <1>0, <2>1, <2>2 DEF Descend, Line
<1>4. CASE ~PollApply /\ ~StartDump /\ ~Publish /\ ~StopDump
  <2>1. starting' = starting /\ meta' = meta
    BY <1>4 DEF GroupNext, Birth, Death, ScanPid, PollBegin, Select, groupVars, appVars
  <2> QED
    BY <1>0, <2>1 DEF Descend, Line
<1> QED
  BY <1>1, <1>2, <1>3, <1>4

\* What the list shows below a listed process descends from it.
LEMMA GroupOfListed ==
  ASSUME GroupParameters, GroupTypes, NEW list \in Listing, RealList(list), ParentsIn(list, list),
         NEW q \in DOMAIN list
  PROVE  /\ Descendants(list, {q}) \subseteq DOMAIN list
         /\ \A p \in Descendants(list, {q}) : list[q].started \in Line(list[p].started)
<1> DEFINE R == {list[q].started}
<1>1. list[q].started \in Line(list[q].started)
  BY LineOfSelf DEF RealList, Real, Line
<1>2. \A p \in {q} : Line(list[p].started) \cap R # {}
  BY <1>1
<1> HIDE DEF R
<1>3. /\ Descendants(list, {q}) \subseteq DOMAIN list
      /\ \A p \in Descendants(list, {q}) : Line(list[p].started) \cap R # {}
  BY <1>2, DescendantsDescend
<1> QED
  BY <1>3 DEF R

LEMMA GroupInvSelect ==
  ASSUME GroupParameters, GroupTypes, KernelInv, RealInv, ListInv,
         NEW pid \in Pid \cup {Nobody}, Select(pid)
  PROVE  GroupInv'
<1>1. /\ selected' = pid
      /\ instance' = IF pid \in DOMAIN procs THEN procs[pid].started ELSE Nobody
      /\ group' = IF pid = Nobody THEN {} ELSE Descendants(procs, {pid})
      /\ UNCHANGED <<origin, procs, read>>
  BY DEF Select, kernelVars, scanVars
<1>2. CASE pid \in DOMAIN procs
  <2>1. procs \in Listing
    BY DEF GroupTypes, GroupTypeOK
  <2>2. pid # Nobody
    BY <1>2, <2>1, ListingHas, NobodyIsNone
  <2>3. /\ group' \subseteq DOMAIN procs
        /\ \A p \in group' : procs[pid].started \in Line(procs[p].started)
    BY <1>1, <1>2, <2>1, <2>2, GroupOfListed DEF RealInv, ListInv
  <2> QED
    BY <1>1, <1>2, <2>2, <2>3 DEF GroupInv, GroupIsOfSelected, Line
<1>3. CASE pid \notin DOMAIN procs
  BY <1>1, <1>3 DEF GroupInv, GroupIsOfSelected
<1> QED
  BY <1>2, <1>3

\* A poll of the group alone: the group stays, and so does who is in it.
LEMMA GroupKept ==
  ASSUME GroupParameters, GroupTypes, KernelInv, RealInv, ListInv, ScanInv, GroupInv, PollApply,
         ~Full, instance # Nobody
  PROVE  /\ \A p \in group \cap DOMAIN procs' : instance \in Line(procs'[p].started)
         /\ \A p \in group \ DOMAIN procs' : proc[p] = Nobody /\ p \in stale'
<1>1. /\ DOMAIN procs' = DOMAIN read \cup (DOMAIN procs \ scan)
      /\ \A p \in DOMAIN read : procs'[p] = read[p]
      /\ \A p \in DOMAIN procs \ scan : procs'[p] = procs[p]
  BY MergedList
<1>2. todo = {} /\ scan # NoScan /\ stale' = stale
  BY DEF PollApply, ScanInv
<1>3. /\ \A p \in group \cap DOMAIN procs : instance \in Line(procs[p].started)
      /\ \A p \in group \ DOMAIN procs : proc[p] = Nobody /\ p \in stale /\ p \notin DOMAIN read
  BY DEF GroupInv, GroupIsOfSelected
<1>4. \A p \in DOMAIN procs : p \in Pid /\ procs[p].started # Nobody
  BY ListingHas, NobodyIsNone DEF GroupTypes, GroupTypeOK, RealInv, RealList, Real
<1>5. ASSUME NEW p \in group \cap DOMAIN procs'
      PROVE  instance \in Line(procs'[p].started)
  <2>1. p \in DOMAIN procs
    BY <1>1, <1>3, <1>5
  <2>2. procs'[p].started = procs[p].started
    BY <2>1, <1>1, <1>5 DEF ListInv
  <2> QED
    BY <2>1, <2>2, <1>3, <1>5
<1>6. ASSUME NEW p \in group \ DOMAIN procs'
      PROVE  proc[p] = Nobody /\ p \in stale
  <2>1. CASE p \notin DOMAIN procs
    BY <2>1, <1>3, <1>6
  <2>2. CASE p \in DOMAIN procs
    <3>1. p \in (Pid \cap scan) \ todo /\ p \notin DOMAIN read
      BY <2>2, <1>1, <1>2, <1>4, <1>6
    <3>2. proc[p] = Nobody
      BY <3>1, <2>2, <1>2 DEF ScanInv
    <3> QED
      BY <3>2, <2>2, <1>4 DEF ListInv, Current
  <2> QED
    BY <2>1, <2>2
<1> QED
  BY <1>2, <1>5, <1>6

LEMMA GroupInvPoll ==
  ASSUME GroupParameters, GroupTypes, KernelInv, RealInv, ListInv, ScanInv, GroupInv, PollApply
  PROVE  GroupInv'
<1>1. /\ procs' \in Listing /\ RealList(procs') /\ ParentsIn(procs', procs')
      /\ UNCHANGED <<proc, origin>>
  BY MergedListFits
<1>2. RefreshGroup(procs', Full) /\ DOMAIN read' = {}
  BY EmptyListing DEF PollApply
<1>3. CASE selected = Nobody
  <2>1. selected \notin DOMAIN procs'
    BY <1>1, <1>3, ListingHas, NobodyIsNone
  <2>2. selected' = Nobody /\ instance' = Nobody
    BY <1>2, <1>3, <2>1 DEF RefreshGroup, GroupInv
  <2> QED
    BY <2>2 DEF GroupInv, GroupIsOfSelected
<1>4. CASE selected # Nobody /\ selected \notin DOMAIN procs'
  <2>1. selected' = selected /\ group' = {}
    BY <1>2, <1>4 DEF RefreshGroup
  <2> QED
    BY <1>4, <2>1 DEF GroupInv, GroupIsOfSelected
<1>5. CASE selected \in DOMAIN procs' /\ procs'[selected].started # instance
  <2>1. instance' = Nobody
    BY <1>1, <1>2, <1>5, ListingHas, NobodyIsNone DEF RefreshGroup
  <2> QED
    BY <2>1 DEF GroupInv, GroupIsOfSelected
<1>6. CASE selected \in DOMAIN procs' /\ procs'[selected].started = instance
  <2>1. selected # Nobody
    BY <1>1, <1>6, ListingHas, NobodyIsNone
  <2>2. /\ UNCHANGED <<selected, instance>>
        /\ group' = IF Full THEN Descendants(procs', {selected}) ELSE group
    BY <1>2, <1>6, <2>1 DEF RefreshGroup
  <2>3. instance # Nobody
    BY <1>6, <1>1, NobodyIsNone DEF RealList, Real
  <2>4. CASE Full
    <3>1. /\ group' \subseteq DOMAIN procs'
          /\ \A p \in group' : instance \in Line(procs'[p].started)
      BY <1>1, <1>6, <2>2, <2>4, GroupOfListed
    <3> QED
      BY <1>1, <1>6, <2>1, <2>2, <3>1 DEF GroupInv, GroupIsOfSelected, Line
  <2>5. CASE ~Full
    <3>1. /\ \A p \in group \cap DOMAIN procs' : instance \in Line(procs'[p].started)
          /\ \A p \in group \ DOMAIN procs' : proc[p] = Nobody /\ p \in stale'
      BY <2>3, <2>5, GroupKept
    <3> QED
      BY <1>1, <1>2, <1>6, <2>1, <2>2, <2>5, <3>1 DEF GroupInv, GroupIsOfSelected, Line
  <2> QED
    BY <2>4, <2>5
<1> QED
  BY <1>3, <1>4, <1>5, <1>6

LEMMA GroupInvNext ==
  ASSUME GroupParameters, GroupTypes, KernelInv, RealInv, ListInv, ScanInv, GroupInv,
         [GroupNext]_groupVars
  PROVE  GroupInv'
<1>1. CASE \E pid \in Pid \cup {Nobody} : Select(pid)
  BY <1>1, GroupInvSelect
<1>2. CASE PollApply
  BY <1>2, GroupInvPoll
<1>3. CASE ~(\E pid \in Pid \cup {Nobody} : Select(pid)) /\ ~PollApply
  <2>1. UNCHANGED <<procs, selected, instance, group>>
    BY <1>3 DEF GroupNext, Birth, Death, ScanPid, PollBegin, StartDump, Publish, StopDump,
       groupVars, appVars
  <2>2. GroupIsOfSelected'
    <3>1. \A p \in DOMAIN procs : procs[p].started \in DOMAIN origin
      BY DEF RealInv, RealList, Real
    <3>2. \A s \in DOMAIN origin : LineOf(origin', s) = Line(s)
      BY LineStays DEF Line
    <3> QED
      BY <2>1, <3>1, <3>2 DEF GroupInv, GroupIsOfSelected, Line
  <2>3. ASSUME instance # Nobody, NEW p \in group \ DOMAIN procs
        PROVE  proc'[p] = Nobody /\ p \in stale' /\ p \notin DOMAIN read'
    <3>0. proc[p] = Nobody /\ p \in stale /\ p \notin DOMAIN read /\ p \in Pid
      BY <2>3 DEF GroupInv, GroupTypes, GroupTypeOK
    <3>1. CASE \E x \in Pid, by \in Pid \cup {Nobody} : Birth(x, by)
      BY <3>0, <3>1 DEF Birth, scanVars, GroupTypes, GroupTypeOK
    <3>2. CASE \E x \in Pid : Death(x)
      BY <3>0, <3>2 DEF Death, scanVars, GroupTypes, GroupTypeOK
    <3>3. CASE \E x \in Pid : ScanPid(x)
      <4>1. PICK x \in Pid : ScanPid(x)
        BY <3>3
      <4>2. DOMAIN read' = DOMAIN read \cup (IF proc[x] = Nobody THEN {} ELSE {x})
        BY <4>1, ScanPidReads
      <4>3. proc' = proc /\ stale' = stale
        BY <4>1 DEF ScanPid, kernelVars
      <4> QED
        BY <3>0, <4>2, <4>3
    <3>4. CASE PollBegin
      BY <3>0, <3>4, PollBeginTypes, EmptyListing DEF PollBegin
    <3>5. CASE StartDump \/ Publish \/ StopDump \/ UNCHANGED groupVars
      <4>1. UNCHANGED <<proc, stale, read>>
        BY <3>5 DEF StartDump, Publish, StopDump, groupVars, kernelVars, scanVars
      <4> QED
        BY <3>0, <4>1
    <3> QED
      BY <1>3, <3>1, <3>2, <3>3, <3>4, <3>5 DEF GroupNext
  <2> QED
    BY <2>1, <2>2, <2>3 DEF GroupInv
<1> QED
  BY <1>1, <1>2, <1>3
-----------------------------------------------------------------------------
(* Theorems.                                                                 *)

LEMMA GroupsInit == GroupParameters /\ GroupInit => GroupsInv
<1> SUFFICES ASSUME GroupParameters, GroupInit PROVE GroupsInv
  OBVIOUS
<1>1. GroupTypes
  BY TypesInit
<1>2. /\ DOMAIN read = {} /\ DOMAIN procs = {} /\ DOMAIN origin = {}
      /\ \A p \in Pid : proc[p] = Nobody /\ parent[p] = Nobody
      /\ stale = {} /\ absent = {} /\ scan = NoScan /\ atBegin = {} /\ ~followed
      /\ starting = NoMeta /\ meta = NoMeta /\ instance = Nobody
  BY EmptyListing DEF GroupInit
<1>3. NoMeta.instances = {}
  BY DEF NoMeta
<1>4. KernelInv /\ RealInv /\ ListInv
  BY <1>2, <1>3 DEF KernelInv, RealInv, RealList, RealMeta, ListInv, Current, ParentCurrent, ParentsIn
<1>5. ScanInv /\ FollowInv /\ GroupInv /\ Descend(starting) /\ Descend(meta)
  BY <1>2, <1>3 DEF ScanInv, FollowInv, GroupInv, GroupIsOfSelected, Descend
<1> QED
  BY <1>1, <1>4, <1>5 DEF GroupsInv, ListsInv

LEMMA GroupsNext ==
  ASSUME GroupParameters, GroupsInv, [GroupNext]_groupVars
  PROVE  GroupsInv'
<1>1. /\ GroupTypes /\ KernelInv /\ RealInv /\ ListInv /\ ScanInv /\ FollowInv
      /\ Descend(starting) /\ Descend(meta) /\ GroupInv
  BY DEF GroupsInv, ListsInv
<1>2. GroupTypes' /\ KernelInv'
  BY <1>1, TypesNext
<1>3. RealInv'
  BY <1>1, RealReadNext, RealProcsNext, RealMetaNext DEF RealInv
<1>4. ListInv' /\ ScanInv'
  BY <1>1, ListInvNext, ScanInvNext
<1>5. FollowInv'
  BY <1>1, FollowInvNext
<1>6. Descend(starting)' /\ Descend(meta)'
  BY <1>1, DescendInvNext
<1>7. GroupInv'
  BY <1>1, GroupInvNext
<1> QED
  BY <1>2, <1>3, <1>4, <1>5, <1>6, <1>7 DEF GroupsInv, ListsInv

(* What the kernel, the scanner, the lists, the selection and the recording   *)
(* are to one another, at every step of the poll loop and of the interface.   *)
THEOREM GroupsInvariant == ASSUME GroupParameters PROVE GroupSpec => []GroupsInv
<1>1. GroupInit => GroupsInv
  BY GroupsInit
<1>2. GroupsInv /\ [GroupNext]_groupVars => GroupsInv'
  BY GroupsNext
<1> QED
  BY <1>1, <1>2, PTL DEF GroupSpec

(* The state has its type, and DumpMeta keeps its limit (track_dump).         *)
THEOREM GroupsTypes == ASSUME GroupParameters PROVE GroupSpec => []GroupTypeOK
<1>1. GroupsInv => GroupTypeOK
  BY DEF GroupsInv, ListsInv, GroupTypes
<1> QED
  BY <1>1, GroupsInvariant, PTL

(* track_dump: whoever is recorded descends from a process the recording      *)
(* began with; a reused pid cannot join.                                      *)
THEOREM RecordedDescend == ASSUME GroupParameters PROVE GroupSpec => []MembersDescend
<1>1. GroupsInv => MembersDescend
  BY DEF GroupsInv, Descend, MembersDescend
<1> QED
  BY <1>1, GroupsInvariant, PTL

(* refresh_selected_group: a reused pid cannot keep its old selection.        *)
THEOREM GroupsAreOfSelected == ASSUME GroupParameters PROVE GroupSpec => []GroupIsOfSelected
<1>1. GroupsInv => GroupIsOfSelected
  BY DEF GroupsInv, GroupInv
<1> QED
  BY <1>1, GroupsInvariant, PTL

LEMMA PollSeesEnd ==
  ASSUME GroupParameters, GroupsInv, PollApply, followed, Recording
  PROVE  /\ Members(meta) \cap atBegin \cap Living # {} => meta'.alive
         /\ meta'.alive => Members(meta) \cap atBegin # {}
<1>0. GroupTypes /\ KernelInv /\ RealInv /\ ScanInv /\ FollowInv
  BY DEF GroupsInv, ListsInv
<1>1. /\ procs' \in Listing
      /\ DOMAIN procs' = DOMAIN read \cup (DOMAIN procs \ scan)
      /\ \A p \in DOMAIN read : procs'[p] = read[p]
  BY <1>0, MergedList
<1>2. meta'.alive = (LiveRoots(meta, procs') # {})
  BY <1>0, <1>1, TrackDumpGives DEF PollApply
<1>3. todo = {} /\ meta.pids \subseteq scan
  BY <1>0 DEF PollApply, FollowInv
<1>4. \A id \in meta.instances : id[1] \in scan /\ id = <<id[1], id[2]>> /\ id[1] \in Pid
  BY <1>0, <1>3 DEF RealInv, RealMeta, GroupTypes, GroupTypeOK, Meta, Identity
<1>5. ASSUME NEW s \in Members(meta) \cap atBegin \cap Living
      PROVE  LiveRoots(meta, procs') # {}
  <2>1. PICK id \in meta.instances : id[2] = s
    BY DEF Members
  <2>2. PICK p \in Pid : proc[p] = s
    BY DEF Living
  <2>3. p = id[1]
    BY <1>0, <2>1, <2>2 DEF RealInv, RealMeta, Real
  <2>4. p \in DOMAIN read /\ read[p].started = s
    BY <1>0, <1>3, <1>4, <2>1, <2>2, <2>3 DEF ScanInv
  <2>5. id = <<p, procs'[p].started>> /\ p \in DOMAIN procs'
    BY <1>1, <1>4, <2>1, <2>3, <2>4
  <2>6. id \in meta.instances \cap Identities(procs', DOMAIN procs')
    BY <2>1, <2>5 DEF Identities
  <2> QED
    BY <2>6 DEF LiveRoots
<1>6. ASSUME NEW p \in LiveRoots(meta, procs')
      PROVE  Members(meta) \cap atBegin # {}
  <2>1. p \in DOMAIN procs' /\ <<p, procs'[p].started>> \in meta.instances
    BY LiveRootsListed
  <2>2. p \in scan
    BY <1>4, <2>1
  <2>3. p \in DOMAIN read /\ procs'[p] = read[p]
    BY <1>1, <2>1, <2>2
  <2>4. read[p].started \in Members(meta)
    BY <2>1, <2>3 DEF Members
  <2>5. read[p].started \in atBegin
    BY <1>0, <2>3, <2>4 DEF FollowInv
  <2> QED
    BY <2>4, <2>5
<1> QED
  BY <1>2, <1>5, <1>6

(* A recording of a process ends by itself when its group has exited, and not *)
(* before (poll_loop).                                                        *)
THEOREM GroupEndsAreSeen == ASSUME GroupParameters PROVE GroupSpec => GroupEndIsSeen
<1>1. GroupsInv /\ [GroupNext]_groupVars =>
        [PollApply /\ followed /\ Recording =>
           LET members == {id[2] : id \in meta.instances} IN
           /\ members \cap atBegin \cap Living # {} => meta'.alive
           /\ meta'.alive => members \cap atBegin # {}]_groupVars
  BY PollSeesEnd DEF Members
<1> QED
  BY <1>1, GroupsInvariant, PTL DEF GroupSpec, GroupEndIsSeen
=============================================================================
