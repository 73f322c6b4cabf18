--------------------------- MODULE Portal_proofs ---------------------------
(***************************************************************************)
(* What the portal takes in.  A file is scanned at most once after its row is *)
(* saved, nothing but a verdict makes it downloadable, and the quota holds    *)
(* unless uploads overlap: for any files, withdrawals and restarts.  A form   *)
(* gives one request, that of what it shows, and the requests of a day are    *)
(* numbered without a gap: for any callers, catalogue, edits, failures and    *)
(* lost answers.  A deadline leaves the minutes of its target: for any calendar *)
(* in which an open day always comes within the month.                       *)
(***************************************************************************)
EXTENDS Attachments, Submission, Sla, FiniteSetTheorems, WellFoundedInduction, TLAPS

-----------------------------------------------------------------------------
(* Sums over finite sets.                                                    *)
Total(g, S) == MapThenSumSet(LAMBDA f : g[f].size, S)

LEMMA Least ==
    ASSUME NEW T, T \subseteq Nat, T # {}
    PROVE  \E x \in T : \A y \in T : x <= y
<1>1. PICK R : R = OpToRel(<, Nat)
  OBVIOUS
<1>2. IsWellFoundedOn(R, Nat)
  BY <1>1, NatLessThanWellFounded
<1>3. PICK x \in T : \A y \in T : ~(<<y, x>> \in R)
  BY <1>2, WFMin
<1>4. \A a, b \in Nat : a < b => <<a, b>> \in R
  BY <1>1 DEF OpToRel
<1>5. ASSUME NEW y \in T  PROVE x <= y
  <2>1. x \in Nat /\ y \in Nat /\ ~(y < x)
    BY <1>3, <1>4
  <2> QED  BY <2>1
<1> QED  BY <1>5

LEMMA EveryNumber ==
    ASSUME NEW T, 0 \in T, \A n \in Nat : n \in T => n + 1 \in T
    PROVE  Nat \subseteq T
<1> SUFFICES ASSUME Nat \ T # {} PROVE FALSE
  OBVIOUS
<1>1. PICK x \in Nat \ T : \A y \in Nat \ T : x <= y
  BY Least
<1>2. x # 0 /\ x - 1 \in Nat /\ x - 1 \notin Nat \ T
  BY <1>1
<1> QED  BY <1>1, <1>2

(* h adds up the weights w, whatever the order.                                *)
Adds(h, w, F) ==
    /\ h \in [SUBSET F -> Nat] /\ h[{}] = 0
    /\ \A S \in SUBSET F : \A x \in F \ S : h[S \cup {x}] = h[S] + w[x]

LEMMA SumsExist ==
    ASSUME NEW F, IsFiniteSet(F), NEW w \in [F -> Nat]
    PROVE  \E h : Adds(h, w, F)
<1> DEFINE T == {n \in Nat : \A G \in SUBSET F : Cardinality(G) = n => \E h : Adds(h, w, G)}
<1>1. \A G \in SUBSET F : IsFiniteSet(G)
  BY FS_Subset
<1>2. 0 \in T
  <2> SUFFICES ASSUME NEW G \in SUBSET F, Cardinality(G) = 0  PROVE \E h : Adds(h, w, G)
    OBVIOUS
  <2>1. G = {}
    BY <1>1, FS_EmptySet
  <2> DEFINE h == [S \in SUBSET G |-> 0]
  <2>2. Adds(h, w, G)
    BY <2>1 DEF Adds
  <2> QED  BY <2>2
<1>3. ASSUME NEW n \in Nat, n \in T  PROVE n + 1 \in T
  <2> SUFFICES ASSUME NEW G \in SUBSET F, Cardinality(G) = n + 1  PROVE \E h : Adds(h, w, G)
    OBVIOUS
  <2>1. G # {}
    BY <1>1, FS_EmptySet
  <2>2. PICK x \in G : TRUE
    BY <2>1
  <2>3. PICK H \in SUBSET F : H = G \ {x}
    OBVIOUS
  <2>4. Cardinality(H) = n
    <3>1. IsFiniteSet(G) /\ Cardinality(G \ {x}) = Cardinality(G) - 1
      BY <1>1, FS_RemoveElement
    <3> QED  BY <2>3, <3>1
  <2>5. PICK k : Adds(k, w, H)
    BY <1>3, <2>4
  <2> DEFINE h == [S \in SUBSET G |-> IF x \in S THEN k[S \ {x}] + w[x] ELSE k[S]]
  <2>6. \A S \in SUBSET G : S \ {x} \in SUBSET H /\ (x \notin S => S \in SUBSET H)
    BY <2>3
  <2>7. h \in [SUBSET G -> Nat]
    <3>1. ASSUME NEW S \in SUBSET G  PROVE (IF x \in S THEN k[S \ {x}] + w[x] ELSE k[S]) \in Nat
      BY <2>5, <2>6 DEF Adds
    <3> QED  BY <3>1
  <2>8. h[{}] = 0
    BY <2>5 DEF Adds
  <2>9. ASSUME NEW S \in SUBSET G, NEW y \in G \ S  PROVE h[S \cup {y}] = h[S] + w[y]
    <3>0. S \cup {y} \in SUBSET G
      OBVIOUS
    <3>1. CASE y = x
      <4>1. (S \cup {y}) \ {x} = S /\ x \notin S
        BY <3>1
      <4> QED  BY <3>0, <3>1, <4>1
    <3>2. CASE y # x /\ x \in S
      <4>1. (S \cup {y}) \ {x} = (S \ {x}) \cup {y} /\ y \in H \ (S \ {x}) /\ S \ {x} \in SUBSET H
        BY <2>3, <3>2
      <4>2. k[(S \ {x}) \cup {y}] = k[S \ {x}] + w[y] /\ k[S \ {x}] \in Nat
        BY <2>5, <4>1 DEF Adds
      <4>3. x \in S \cup {y} /\ x \in S /\ S \in SUBSET G
        BY <3>2
      <4>4. h[S \cup {y}] = k[(S \cup {y}) \ {x}] + w[x] /\ h[S] = k[S \ {x}] + w[x]
        BY <3>0, <4>3
      <4>5. w[x] \in Nat /\ w[y] \in Nat
        OBVIOUS
      <4> HIDE DEF h
      <4>6. h[S \cup {y}] = (k[S \ {x}] + w[y]) + w[x]
        BY <4>1, <4>2, <4>4
      <4> QED  BY <4>2, <4>4, <4>5, <4>6
    <3>3. CASE y # x /\ x \notin S
      <4>1. y \in H \ S /\ S \in SUBSET H
        BY <2>3, <3>3
      <4>2. k[S \cup {y}] = k[S] + w[y]
        BY <2>5, <4>1 DEF Adds
      <4> QED  BY <3>0, <3>3, <4>2
    <3> QED  BY <3>1, <3>2, <3>3
  <2> QED
    <3>1. Adds(h, w, G)
      BY <2>7, <2>8, <2>9 DEF Adds
    <3> QED  BY <3>1
<1>4. Nat \subseteq T
  <2> HIDE DEF T
  <2> QED  BY <1>2, <1>3, EveryNumber
<1>5. Cardinality(F) \in T
  BY <1>4, FS_CardinalityType
<1> QED  BY <1>5

(* The sum of the library is that sum.                                         *)
LEMMA TotalIsTheSum ==
    ASSUME NEW F, IsFiniteSet(F), NEW w \in [F -> Nat], NEW h, Adds(h, w, F),
           NEW S \in SUBSET F, NEW g, \A x \in S : g[x].size = w[x]
    PROVE  Total(g, S) = h[S]
<1> DEFINE first(s) == CHOOSE x \in s : TRUE
           body(it) == [s \in SUBSET S |-> IF s = {} THEN 0 ELSE g[first(s)].size + it[s \ {first(s)}]]
           it == CHOOSE k : k = body(k)
<1>1. Total(g, S) = it[S]
  BY DEF Total, MapThenSumSet, MapThenFoldSet
<1>2. \A s \in SUBSET S : s # {} => first(s) \in s
  OBVIOUS
<1> HIDE DEF first
(* A set is its first element and the rest, which h and any solution add up.      *)
<1>3. ASSUME NEW s \in SUBSET S, s # {}
      PROVE  /\ s \ {first(s)} \in SUBSET S /\ first(s) \in s
             /\ h[s] = g[first(s)].size + h[s \ {first(s)}]
  <2>1. PICK x \in s : x = first(s)
    BY <1>2, <1>3
  <2>2. PICK r \in SUBSET S : r = s \ {x}
    OBVIOUS
  <2>3. r \in SUBSET F /\ x \in F \ r /\ s = r \cup {x}
    BY <2>2
  <2>4. h[s] = h[r] + w[x] /\ h[r] \in Nat /\ w[x] \in Nat /\ g[x].size = w[x]
    BY <2>3 DEF Adds
  <2>5. h[s] = g[x].size + h[r]
    BY <2>4
  <2> QED  BY <2>1, <2>2, <2>5
<1>4. \E k : k = body(k)
  <2> DEFINE k == [s \in SUBSET S |-> h[s]]
  <2>1. ASSUME NEW s \in SUBSET S  PROVE k[s] = IF s = {} THEN 0 ELSE g[first(s)].size + k[s \ {first(s)}]
    BY <1>3 DEF Adds
  <2>2. k = body(k)
    BY <2>1
  <2> QED  BY <2>2
<1>5. it = body(it)
  BY <1>4
<1> HIDE DEF it
<1>6. \A s \in SUBSET S : it[s] = IF s = {} THEN 0 ELSE g[first(s)].size + it[s \ {first(s)}]
  BY <1>5
<1> DEFINE T == {n \in Nat : \A s \in SUBSET S : Cardinality(s) = n => it[s] = h[s]}
<1>7. \A s \in SUBSET S : IsFiniteSet(s)
  BY FS_Subset
<1>8. 0 \in T
  BY <1>6, <1>7, FS_EmptySet DEF Adds
<1>9. ASSUME NEW n \in Nat, n \in T  PROVE n + 1 \in T
  <2> SUFFICES ASSUME NEW s \in SUBSET S, Cardinality(s) = n + 1  PROVE it[s] = h[s]
    OBVIOUS
  <2>1. s # {}
    BY <1>7, FS_EmptySet
  <2>2. Cardinality(s \ {first(s)}) = n
    <3>1. IsFiniteSet(s) /\ first(s) \in s
      BY <1>3, <1>7, <2>1
    <3>2. Cardinality(s \ {first(s)}) = Cardinality(s) - 1
      BY <3>1, FS_RemoveElement
    <3> QED  BY <3>2
  <2>3. it[s \ {first(s)}] = h[s \ {first(s)}]
    BY <1>3, <1>9, <2>1, <2>2
  <2> QED  BY <1>3, <1>6, <2>1, <2>3
<1>10. Cardinality(S) \in T
  <2> HIDE DEF T
  <2> QED  BY <1>7, <1>8, <1>9, EveryNumber, FS_CardinalityType
<1> QED  BY <1>1, <1>10

LEMMA TotalOfNone == \A g : Total(g, {}) = 0
<1> SUFFICES ASSUME NEW g  PROVE Total(g, {}) = 0
  OBVIOUS
<1>1. PICK F : F = {} /\ IsFiniteSet(F)
  BY FS_EmptySet
<1>2. PICK w \in [F -> Nat] : TRUE
  <2>1. [x \in F |-> 0] \in [F -> Nat]
    OBVIOUS
  <2> QED  BY <2>1
<1>3. PICK h : Adds(h, w, F)
  BY <1>1, SumsExist
<1>4. Total(g, F) = h[F]
  <2>1. \A x \in F : g[x].size = w[x]
    BY <1>1
  <2>2. IsFiniteSet(F) /\ F \in SUBSET F
    BY <1>1
  <2> QED  BY <1>3, <2>1, <2>2, TotalIsTheSum
<1> QED  BY <1>1, <1>3, <1>4 DEF Adds

(* What the sums over the files of two tables have to do with each other.       *)
LEMMA TotalGrows ==
    ASSUME NEW F, IsFiniteSet(F), NEW g, NEW S \in SUBSET F, \A y \in S : g[y].size \in Nat,
           NEW x \in F \ S, g[x].size \in Nat
    PROVE  /\ Total(g, S) \in Nat
           /\ Total(g, S \cup {x}) = Total(g, S) + g[x].size
<1>1. PICK w \in [F -> Nat] : \A y \in S \cup {x} : g[y].size = w[y]
  <2> DEFINE w == [y \in F |-> IF y \in S \cup {x} THEN g[y].size ELSE 0]
  <2>1. w \in [F -> Nat] /\ \A y \in S \cup {x} : g[y].size = w[y]
    OBVIOUS
  <2> QED  BY <2>1
<1>2. PICK h : Adds(h, w, F)
  BY SumsExist
<1>3. Total(g, S) = h[S]
  BY <1>1, <1>2, TotalIsTheSum
<1>4. S \cup {x} \in SUBSET F /\ \A y \in S \cup {x} : g[y].size = w[y]
  BY <1>1
<1>5. Total(g, S \cup {x}) = h[S \cup {x}]
  BY <1>2, <1>4, TotalIsTheSum
<1>6. h[S] \in Nat /\ h[S \cup {x}] = h[S] + w[x]
  BY <1>2 DEF Adds
<1> QED  BY <1>1, <1>3, <1>5, <1>6

LEMMA TotalShrinks ==
    ASSUME NEW F, IsFiniteSet(F), NEW g, NEW k, NEW S \in SUBSET F, NEW R \in SUBSET S,
           \A y \in S : g[y].size \in Nat, \A y \in R : k[y].size = g[y].size
    PROVE  Total(k, R) <= Total(g, S) /\ Total(g, S) \in Nat /\ Total(k, R) \in Nat
<1>1. PICK w \in [F -> Nat] : \A y \in S : g[y].size = w[y]
  <2> DEFINE w == [y \in F |-> IF y \in S THEN g[y].size ELSE 0]
  <2>1. w \in [F -> Nat] /\ \A y \in S : g[y].size = w[y]
    OBVIOUS
  <2> QED  BY <2>1
<1>2. PICK h : Adds(h, w, F)
  BY SumsExist
<1>3. Total(g, S) = h[S]
  BY <1>1, <1>2, TotalIsTheSum
<1>4. R \in SUBSET F /\ \A y \in R : k[y].size = w[y]
  BY <1>1
<1>5. Total(k, R) = h[R]
  BY <1>2, <1>4, TotalIsTheSum
<1>6. h[S] \in Nat /\ h[R] \in Nat
  BY <1>2, <1>4 DEF Adds
<1> DEFINE T == {n \in Nat : \A Z \in SUBSET S : R \subseteq Z /\ Cardinality(Z \ R) = n => h[R] <= h[Z]}
<1>7. \A Z \in SUBSET S : IsFiniteSet(Z \ R)
  BY FS_Subset
<1>8. 0 \in T
  <2> SUFFICES ASSUME NEW Z \in SUBSET S, R \subseteq Z, Cardinality(Z \ R) = 0  PROVE h[R] <= h[Z]
    OBVIOUS
  <2>1. Z \ R = {}
    BY <1>7, FS_EmptySet
  <2>2. Z = R
    BY <2>1
  <2> QED  BY <1>6, <2>2
<1>9. ASSUME NEW n \in Nat, n \in T  PROVE n + 1 \in T
  <2> SUFFICES ASSUME NEW Z \in SUBSET S, R \subseteq Z, Cardinality(Z \ R) = n + 1  PROVE h[R] <= h[Z]
    OBVIOUS
  <2>1. Z \ R # {}
    BY <1>7, FS_EmptySet
  <2>2. PICK x \in Z \ R : TRUE
    BY <2>1
  <2>3. PICK P \in SUBSET S : P = Z \ {x}
    OBVIOUS
  <2>4. R \subseteq P /\ P \in SUBSET F /\ x \in F \ P /\ Z = P \cup {x} /\ P \ R = (Z \ R) \ {x}
    BY <2>3
  <2>5. Cardinality((Z \ R) \ {x}) = Cardinality(Z \ R) - 1
    BY <1>7, FS_RemoveElement
  <2>6. h[R] <= h[P]
    BY <1>9, <2>4, <2>5
  <2>7. h[Z] = h[P] + w[x] /\ h[P] \in Nat /\ w[x] \in Nat
    BY <1>2, <2>4 DEF Adds
  <2> QED  BY <1>6, <2>6, <2>7
<1>10. Cardinality(S \ R) \in T
  <2> HIDE DEF T
  <2>1. IsFiniteSet(S \ R)
    BY <1>7
  <2> QED  BY <1>8, <1>9, <2>1, EveryNumber, FS_CardinalityType
<1> QED  BY <1>3, <1>5, <1>10, <1>6

-----------------------------------------------------------------------------
(* The files of a request.                                                   *)

(* The scan of f is still to come.                                          *)
ToScan(f) == f \in timers \/ scan[f] # NULL \/ (upload[f] # NULL /\ upload[f].pc = "schedule")

FilesTyped ==
    /\ file \in [Files -> File \cup {NULL}]
    /\ upload \in [Files -> Upload \cup {NULL}]
    /\ scan \in [Files -> (AntivirusStatus \ {"PENDING"}) \cup {NULL}]
    /\ withdrawal \in [Files -> File \cup {NULL}]
    /\ timers \subseteq Files /\ signed \subseteq Files
    /\ download \subseteq Files /\ served \subseteq Files
    /\ restarts \in 0 .. MaxRestarts

(* What is known of f, whatever happens to the other files: which rows exist,  *)
(* that one scan at a time is to come, what it leaves in the row, and that    *)
(* a clean status, in the row or in a copy of it, speaks for the content.     *)
Rowed(f) ==
    /\ ToScan(f) \/ withdrawal[f] # NULL \/ f \in signed \cup download \cup served =>
          file[f] # NULL
    /\ upload[f] # NULL /\ upload[f].pc # "schedule" => file[f] = NULL

ScannedOnce(f) ==
    /\ ToScan(f) => file[f].antivirusStatus = "PENDING" /\ f \notin signed
    /\ f \in timers => scan[f] = NULL /\ upload[f] = NULL
    /\ scan[f] # NULL => upload[f] = NULL

Copied(f) ==
    withdrawal[f] # NULL =>
        /\ withdrawal[f].antivirusStatus \in {"PENDING", file[f].antivirusStatus}
        /\ withdrawal[f].eicar = file[f].eicar

Vouched(f) ==
    /\ scan[f] = "CLEAN" => ~file[f].eicar
    /\ file[f] # NULL /\ file[f].antivirusStatus = "CLEAN" => ~file[f].eicar
    /\ f \in signed => file[f].antivirusStatus \in {"CLEAN", "PENDING"}
    /\ f \in download \cup served => ~file[f].eicar

Awaited(f) ==
    file[f] # NULL /\ file[f].antivirusStatus = "PENDING" =>
        ToScan(f) \/ restarts > 0 \/ file[f].isWithdrawn

FileInv(f) == Rowed(f) /\ ScannedOnce(f) /\ Copied(f) /\ Vouched(f) /\ Awaited(f)

AttachmentsInv == FilesTyped /\ \A f \in Files : FileInv(f)

-----------------------------------------------------------------------------
LEMMA FilesStart == AttachmentsInit => AttachmentsInv
  <1> SUFFICES ASSUME AttachmentsInit PROVE AttachmentsInv
    OBVIOUS
  <1>1. FilesTyped
    BY AttachmentsAssumption DEF AttachmentsInit, FilesTyped
  <1>2. ASSUME NEW f \in Files PROVE FileInv(f)
    <2>1. /\ file[f] = NULL /\ upload[f] = NULL /\ scan[f] = NULL /\ withdrawal[f] = NULL
          /\ f \notin timers /\ f \notin signed \cup download \cup served
      BY <1>2 DEF AttachmentsInit
    <2>2. NULL # "CLEAN"
      BY AttachmentsNull DEF AntivirusStatus
    <2> QED BY <2>1, <2>2 DEF FileInv, Rowed, ScannedOnce, Copied, Vouched, Awaited, ToScan
  <1> QED BY <1>1, <1>2 DEF AttachmentsInv

(* Every action but a restart concerns one file: what is known of the others    *)
(* does not change.                                                        *)
LEMMA OthersKept ==
    ASSUME NEW g \in Files, FileInv(g),
           file'[g] = file[g], upload'[g] = upload[g], scan'[g] = scan[g],
           withdrawal'[g] = withdrawal[g],
           g \in timers' <=> g \in timers, g \in signed' <=> g \in signed,
           g \in download' <=> g \in download, g \in served' <=> g \in served,
           restarts' = restarts
    PROVE  FileInv(g)'
  BY DEF FileInv, Rowed, ScannedOnce, Copied, Vouched, Awaited, ToScan

LEMMA FilesStep == AttachmentsInv /\ [AttachmentsNext]_attachmentsVars => AttachmentsInv'
  <1> SUFFICES ASSUME AttachmentsInv, [AttachmentsNext]_attachmentsVars PROVE AttachmentsInv'
    OBVIOUS
  <1> USE AttachmentsNull
  <1>0. /\ FilesTyped /\ \A f \in Files : FileInv(f)
        /\ \A f \in Files : f \in Rows <=> file[f] # NULL
    BY DEF AttachmentsInv, Rows
  <1>1. ASSUME NEW f \in Files, NEW size \in Sizes, NEW eicar \in BOOLEAN,
               CheckQuota(f, size, eicar)
        PROVE  AttachmentsInv'
    <2>1. FilesTyped'
      BY <1>0, <1>1 DEF CheckQuota, FilesTyped, Upload, Uploading
    <2>2. ASSUME NEW g \in Files PROVE FileInv(g)'
      <3>1. /\ upload[g] = NULL => upload'[g] = NULL \/ (upload'[g].pc = "store" /\ file[g] = NULL)
            /\ upload[g] # NULL => upload'[g] # NULL /\ upload'[g].pc = upload[g].pc
        BY <1>0, <1>1, <2>1, <2>2 DEF CheckQuota, FilesTyped, Upload, Uploading
      <3>2. /\ upload'[g] # NULL /\ upload'[g].pc = "schedule" <=>
                  upload[g] # NULL /\ upload[g].pc = "schedule"
            /\ upload[g] # NULL => upload'[g] # NULL
        BY <3>1
      <3>3. ToScan(g)' <=> ToScan(g)
        BY <1>1, <3>2 DEF CheckQuota, ToScan
      <3>4. upload[g] = NULL /\ upload'[g] # NULL => file[g] = NULL
        BY <3>1
      <3>5. UNCHANGED <<file, timers, scan, withdrawal, signed, download, served, restarts>>
        BY <1>1 DEF CheckQuota
      <3>6. FileInv(g)
        BY <1>0, <2>2
      <3>7. Rowed(g)'
        BY <3>1, <3>3, <3>5, <3>6 DEF FileInv, Rowed
      <3>8. ScannedOnce(g)'
        BY <3>3, <3>4, <3>5, <3>6 DEF FileInv, Rowed, ScannedOnce, ToScan
      <3> QED BY <3>3, <3>5, <3>6, <3>7, <3>8 DEF FileInv, Copied, Vouched, Awaited
    <2> QED BY <2>1, <2>2 DEF AttachmentsInv
  <1>2. ASSUME NEW f \in Files, Store(f) PROVE AttachmentsInv'
    <2>1. FilesTyped'
      BY <1>0, <1>2 DEF Store, FilesTyped, Upload
    <2>2. FileInv(f)'
      BY <1>0, <1>2 DEF Store, FilesTyped, Upload, FileInv, Rowed, ScannedOnce, Copied, Vouched,
                        Awaited, ToScan
    <2>3. ASSUME NEW g \in Files \ {f} PROVE FileInv(g)'
      BY <1>0, <1>2, <2>3, OthersKept DEF Store, FilesTyped
    <2> QED BY <2>1, <2>2, <2>3 DEF AttachmentsInv
  <1>3. ASSUME NEW f \in Files, SaveRow(f) PROVE AttachmentsInv'
    <2>1. FilesTyped'
      BY <1>0, <1>3 DEF SaveRow, FilesTyped, Upload, File, AntivirusStatus
    <2>2. FileInv(f)'
      <3>1. /\ upload[f] # NULL /\ upload[f].pc = "save" /\ file[f] = NULL
            /\ ~ToScan(f) /\ withdrawal[f] = NULL /\ f \notin signed \cup download \cup served
        BY <1>0, <1>3 DEF SaveRow, FileInv, Rowed
      <3>2. /\ file'[f].antivirusStatus = "PENDING" /\ ~file'[f].isWithdrawn /\ file'[f] \in File
        BY <1>0, <1>3, <2>1 DEF SaveRow, FilesTyped, Upload, File, AntivirusStatus
      <3>3. upload'[f] # NULL /\ upload'[f].pc = "schedule"
        BY <1>0, <1>3 DEF SaveRow, FilesTyped, Upload
      <3>4. UNCHANGED <<timers, scan, withdrawal, signed, download, served, restarts>>
        BY <1>3 DEF SaveRow
      <3>5. f \notin timers /\ scan[f] = NULL
        BY <3>1 DEF ToScan
      <3>6. NULL # "CLEAN"
        BY DEF AntivirusStatus
      <3> QED
        BY <3>1, <3>2, <3>3, <3>4, <3>5, <3>6
           DEF FileInv, Rowed, ScannedOnce, Copied, Vouched, Awaited, ToScan
    <2>3. ASSUME NEW g \in Files \ {f} PROVE FileInv(g)'
      BY <1>0, <1>3, <2>3, OthersKept DEF SaveRow, FilesTyped
    <2> QED BY <2>1, <2>2, <2>3 DEF AttachmentsInv
  <1>4. ASSUME NEW f \in Files, ScheduleScan(f) PROVE AttachmentsInv'
    <2>1. FilesTyped'
      BY <1>0, <1>4 DEF ScheduleScan, FilesTyped
    <2>2. FileInv(f)'
      BY <1>0, <1>4 DEF ScheduleScan, FilesTyped, Upload, FileInv, Rowed, ScannedOnce, Copied, Vouched,
                        Awaited, ToScan
    <2>3. ASSUME NEW g \in Files \ {f} PROVE FileInv(g)'
      BY <1>0, <1>4, <2>3, OthersKept DEF ScheduleScan, FilesTyped
    <2> QED BY <2>1, <2>2, <2>3 DEF AttachmentsInv
  <1>5. ASSUME NEW f \in Files, UploadFails(f) PROVE AttachmentsInv'
    <2>1. FilesTyped'
      BY <1>0, <1>5 DEF UploadFails, FilesTyped
    <2>2. FileInv(f)'
      BY <1>0, <1>5 DEF UploadFails, FilesTyped, Upload, FileInv, Rowed, ScannedOnce, Copied, Vouched,
                        Awaited, ToScan
    <2>3. ASSUME NEW g \in Files \ {f} PROVE FileInv(g)'
      BY <1>0, <1>5, <2>3, OthersKept DEF UploadFails, FilesTyped
    <2> QED BY <2>1, <2>2, <2>3 DEF AttachmentsInv
  <1>6. ASSUME NEW f \in Files, ReadForScan(f) PROVE AttachmentsInv'
    <2>0. PICK readable \in BOOLEAN : scan' = [scan EXCEPT ![f] = Verdict(file[f].eicar, readable)]
      BY <1>6 DEF ReadForScan
    <2>1. file[f] \in File
      BY <1>0, <1>6 DEF ReadForScan, FilesTyped, FileInv, Rowed, ToScan
    <2>2. /\ Verdict(file[f].eicar, readable) \in AntivirusStatus \ {"PENDING"}
          /\ Verdict(file[f].eicar, readable) = "CLEAN" => ~file[f].eicar
      BY <2>1 DEF Verdict, File, AntivirusStatus
    <2>3. FilesTyped'
      BY <1>0, <1>6, <2>0, <2>2 DEF ReadForScan, FilesTyped
    <2>4. FileInv(f)'
      BY <1>0, <1>6, <2>0, <2>1, <2>2
         DEF ReadForScan, FilesTyped, FileInv, Rowed, ScannedOnce, Copied, Vouched, Awaited, ToScan
    <2>5. ASSUME NEW g \in Files \ {f} PROVE FileInv(g)'
      BY <1>0, <1>6, <2>0, <2>5, OthersKept DEF ReadForScan, FilesTyped
    <2> QED BY <2>3, <2>4, <2>5 DEF AttachmentsInv
  <1>7. ASSUME NEW f \in Files, WriteVerdict(f) PROVE AttachmentsInv'
    <2>1. file[f] \in File /\ scan[f] \in AntivirusStatus \ {"PENDING"}
      BY <1>0, <1>7 DEF WriteVerdict, FilesTyped, FileInv, Rowed, ToScan
    <2>2. /\ file'[f] \in File
          /\ file'[f].antivirusStatus = scan[f]
          /\ file'[f].eicar = file[f].eicar
          /\ file'[f].isWithdrawn = file[f].isWithdrawn
      BY <1>0, <1>7, <2>1 DEF WriteVerdict, FilesTyped, File
    <2>3. FilesTyped'
      BY <1>0, <1>7, <2>2 DEF WriteVerdict, FilesTyped
    <2>4. FileInv(f)'
      <3>1. /\ scan[f] # NULL /\ upload[f] = NULL /\ f \notin timers /\ f \notin signed
            /\ file[f].antivirusStatus = "PENDING"
        BY <1>0, <1>7 DEF WriteVerdict, FileInv, ScannedOnce, ToScan
      <3>2. scan'[f] = NULL /\ UNCHANGED <<upload, timers, withdrawal, signed, download, served>>
        BY <1>0, <1>7 DEF WriteVerdict, FilesTyped
      <3>3. ~ToScan(f)' /\ file'[f] # NULL /\ scan'[f] # "CLEAN"
        BY <2>2, <3>1, <3>2 DEF ToScan, AntivirusStatus
      <3>4. /\ withdrawal[f] # NULL => withdrawal[f].antivirusStatus = "PENDING"
            /\ file'[f].antivirusStatus # "PENDING"
        BY <1>0, <2>1, <2>2, <3>1 DEF FileInv, Copied
      <3> QED
        BY <1>0, <2>1, <2>2, <3>1, <3>2, <3>3, <3>4
           DEF FileInv, Rowed, ScannedOnce, Copied, Vouched, Awaited, ToScan
    <2>5. ASSUME NEW g \in Files \ {f} PROVE FileInv(g)'
      BY <1>0, <1>7, <2>5, OthersKept DEF WriteVerdict, FilesTyped
    <2> QED BY <2>3, <2>4, <2>5 DEF AttachmentsInv
  <1>8. ASSUME NEW f \in Files, LoadForWithdrawal(f) PROVE AttachmentsInv'
    <2>1. FilesTyped'
      BY <1>0, <1>8 DEF LoadForWithdrawal, FilesTyped
    <2>2. FileInv(f)'
      BY <1>0, <1>8 DEF LoadForWithdrawal, FilesTyped, FileInv, Rowed, ScannedOnce, Copied, Vouched,
                        Awaited, ToScan
    <2>3. ASSUME NEW g \in Files \ {f} PROVE FileInv(g)'
      BY <1>0, <1>8, <2>3, OthersKept DEF LoadForWithdrawal, FilesTyped
    <2> QED BY <2>1, <2>2, <2>3 DEF AttachmentsInv
  <1>9. ASSUME NEW f \in Files, SaveWithdrawal(f) PROVE AttachmentsInv'
    <2>1. file[f] \in File /\ withdrawal[f] \in File
      BY <1>0, <1>9 DEF SaveWithdrawal, FilesTyped, FileInv, Rowed
    <2>2. /\ file'[f] \in File
          /\ file'[f].antivirusStatus = withdrawal[f].antivirusStatus
          /\ file'[f].eicar = withdrawal[f].eicar
          /\ file'[f].isWithdrawn
      BY <1>0, <1>9, <2>1 DEF SaveWithdrawal, FilesTyped, File
    <2>3. FilesTyped'
      BY <1>0, <1>9, <2>2 DEF SaveWithdrawal, FilesTyped
    <2>4. FileInv(f)'
      BY <1>0, <1>9, <2>1, <2>2
         DEF SaveWithdrawal, FilesTyped, FileInv, Rowed, ScannedOnce, Copied, Vouched, Awaited, ToScan
    <2>5. ASSUME NEW g \in Files \ {f} PROVE FileInv(g)'
      BY <1>0, <1>9, <2>5, OthersKept DEF SaveWithdrawal, FilesTyped
    <2> QED BY <2>3, <2>4, <2>5 DEF AttachmentsInv
  <1>10. ASSUME NEW f \in Files, Sign(f) \/ Expire(f) \/ CheckDownload(f) \/ SendContent(f)
         PROVE  AttachmentsInv'
    <2>1. FilesTyped'
      BY <1>0, <1>10 DEF Sign, Expire, CheckDownload, SendContent, FilesTyped
    <2>2. FileInv(f)'
      BY <1>0, <1>10
         DEF Sign, Expire, CheckDownload, SendContent, Downloadable, FilesTyped, FileInv, Rowed,
             ScannedOnce, Copied, Vouched, Awaited, ToScan
    <2>3. ASSUME NEW g \in Files \ {f} PROVE FileInv(g)'
      BY <1>0, <1>10, <2>3, OthersKept DEF Sign, Expire, CheckDownload, SendContent, FilesTyped
    <2> QED BY <2>1, <2>2, <2>3 DEF AttachmentsInv
  <1>11. ASSUME Restart PROVE AttachmentsInv'
    <2>1. FilesTyped'
      BY <1>0, <1>11, AttachmentsAssumption DEF Restart, FilesTyped
    <2>2. ASSUME NEW g \in Files PROVE FileInv(g)'
      <3>1. /\ upload'[g] = NULL /\ scan'[g] = NULL /\ withdrawal'[g] = NULL
            /\ g \notin timers' /\ g \notin download'
            /\ file'[g] = file[g] /\ UNCHANGED <<signed, served>>
        BY <1>11, <2>2 DEF Restart
      <3>2. restarts' > 0
        BY <1>0, <1>11 DEF Restart, FilesTyped
      <3>3. NULL # "CLEAN"
        BY DEF AntivirusStatus
      <3> QED
        BY <1>0, <2>2, <3>1, <3>2, <3>3
           DEF FileInv, Rowed, ScannedOnce, Copied, Vouched, Awaited, ToScan
    <2> QED BY <2>1, <2>2 DEF AttachmentsInv
  <1>12. CASE UNCHANGED attachmentsVars
    BY <1>12 DEF attachmentsVars, AttachmentsInv, FilesTyped, FileInv, Rowed, ScannedOnce, Copied,
                 Vouched, Awaited, ToScan
  <1> QED
    BY <1>1, <1>2, <1>3, <1>4, <1>5, <1>6, <1>7, <1>8, <1>9, <1>10, <1>11, <1>12
       DEF AttachmentsNext

LEMMA FilesHold == AttachmentsSpec => []AttachmentsInv
  BY FilesStart, FilesStep, PTL DEF AttachmentsSpec

-----------------------------------------------------------------------------
(* The rows, the scans and the links keep their types: a link is only signed    *)
(* for a file that was clean, and a status written back by a withdrawal is    *)
(* at worst that of a file not scanned yet (AttachmentsService).             *)
THEOREM AttachmentsTyped == AttachmentsSpec => []AttachmentsTypeOK
  <1>1. AttachmentsInv => AttachmentsTypeOK
    BY DEF AttachmentsInv, FilesTyped, FileInv, Rowed, Vouched, ToScan, AttachmentsTypeOK
  <1> QED BY <1>1, FilesHold, PTL

(* No content with the signature of the antivirus test is ever sent, whatever   *)
(* withdrawals, scans, links and restarts cross (resolveSignedDownload).      *)
THEOREM NoInfectedContentSent == AttachmentsSpec => []InfectedNeverServed
  <1>1. AttachmentsInv => InfectedNeverServed
    BY DEF AttachmentsInv, FilesTyped, FileInv, Vouched, InfectedNeverServed
  <1> QED BY <1>1, FilesHold, PTL

(* A file is left pending only by a restart or by a withdrawal (scheduleScan).  *)
THEOREM ScansAreNotForgotten == AttachmentsSpec => []PendingHasAScan
  <1>1. AttachmentsInv => PendingHasAScan
    BY DEF AttachmentsInv, FilesTyped, FileInv, Awaited, ToScan, PendingHasAScan, Rows
  <1> QED BY <1>1, FilesHold, PTL

-----------------------------------------------------------------------------
(* The quota.                                                                *)

(* The bytes that count are those of files uploaded alone, which fitted then    *)
(* and fit still; an upload that nothing has crossed has the room it saw, as    *)
(* only its own row could take it.  A withdrawal writes a row back whole.      *)
CopiedWhole(f) ==
    withdrawal[f] # NULL =>
        withdrawal[f].size = file[f].size /\ (withdrawal[f].crossed <=> file[f].crossed)

AloneWithRoom(f) ==
    upload[f] # NULL /\ ~upload[f].crossed =>
        /\ \A g \in Files \ {f} : upload[g] = NULL
        /\ upload[f].pc # "schedule" => Bytes(Counted) + upload[f].size <= Quota

Uncrossed == {f \in Counted : ~file[f].crossed}

QuotaInv ==
    /\ IsFiniteSet(Rows)
    /\ \A f \in Files : CopiedWhole(f) /\ AloneWithRoom(f)
    /\ Bytes(Uncrossed) <= Quota

LEMMA BytesAreTotals ==
    /\ Bytes(Counted) = Total(file, Counted)
    /\ Bytes(Uncrossed) = Total(file, Uncrossed)
    /\ Bytes(Counted)' = Total(file', Counted')
    /\ Bytes(Uncrossed)' = Total(file', Uncrossed')
BY DEF Bytes, Total, MapThenSumSet, MapThenFoldSet

LEMMA InitQuota == AttachmentsInit => QuotaInv
<1> SUFFICES ASSUME AttachmentsInit  PROVE QuotaInv
  OBVIOUS
<1>1. Rows = {} /\ Uncrossed = {} /\ \A f \in Files : upload[f] = NULL /\ withdrawal[f] = NULL
  BY DEF AttachmentsInit, Rows, Counted, Uncrossed
<1>2. IsFiniteSet(Rows)
  BY <1>1, FS_EmptySet
<1>3. Bytes(Uncrossed) = 0
  BY <1>1, TotalOfNone, BytesAreTotals
<1> QED  BY <1>1, <1>2, <1>3, AttachmentsAssumption DEF QuotaInv, CopiedWhole, AloneWithRoom

(* A row that is not saved anew neither takes room nor changes its file: what    *)
(* counts after the step counted before it.                                   *)
LEMMA RoomKept ==
    ASSUME AttachmentsInv, QuotaInv, Rows' = Rows,
           \A g \in Counted' : /\ g \in Counted /\ file'[g].size = file[g].size
                               /\ file'[g].crossed <=> file[g].crossed,
           \A g \in Files : CopiedWhole(g)',
           \A g \in Files : upload'[g] # NULL =>
               /\ upload[g] # NULL /\ upload'[g].size = upload[g].size
               /\ upload'[g].crossed <=> upload[g].crossed
               /\ upload'[g].pc # "schedule" => upload[g].pc # "schedule"
    PROVE  QuotaInv'
<1>1. IsFiniteSet(Rows) /\ Counted \subseteq Rows /\ Uncrossed \subseteq Rows
      /\ \A g \in Rows : file[g] \in File /\ file[g].size \in Nat
  BY AttachmentsAssumption DEF QuotaInv, Counted, Uncrossed, Rows, AttachmentsInv, FilesTyped, File
<1>2. PICK c : c = Counted'
  OBVIOUS
<1>3. PICK u : u = Uncrossed'
  OBVIOUS
<1>4. PICK k : k = file'
  OBVIOUS
<1>5. c \in SUBSET Counted /\ u \in SUBSET Uncrossed
      /\ \A g \in c \cup u : k[g].size = file[g].size
  BY <1>2, <1>3, <1>4 DEF Uncrossed
<1>6. Total(k, c) <= Total(file, Counted) /\ Total(k, c) \in Nat /\ Total(file, Counted) \in Nat
  <2>1. Counted \in SUBSET Rows /\ \A g \in Counted : file[g].size \in Nat
    BY <1>1
  <2>2. c \in SUBSET Counted /\ \A g \in c : k[g].size = file[g].size
    BY <1>5
  <2> QED  BY <1>1, <2>1, <2>2, TotalShrinks
<1>7. Total(k, u) <= Total(file, Uncrossed) /\ Total(k, u) \in Nat /\ Total(file, Uncrossed) \in Nat
  <2>1. Uncrossed \in SUBSET Rows /\ \A g \in Uncrossed : file[g].size \in Nat
    BY <1>1
  <2>2. u \in SUBSET Uncrossed /\ \A g \in u : k[g].size = file[g].size
    BY <1>5
  <2> QED  BY <1>1, <2>1, <2>2, TotalShrinks
<1>8. /\ Bytes(Counted)' = Total(k, c) /\ Bytes(Uncrossed)' = Total(k, u)
      /\ Bytes(Counted) = Total(file, Counted) /\ Bytes(Uncrossed) = Total(file, Uncrossed)
  BY <1>2, <1>3, <1>4, BytesAreTotals
<1>9. Bytes(Uncrossed)' <= Quota
  BY <1>7, <1>8, AttachmentsAssumption DEF QuotaInv
<1>10. ASSUME NEW f \in Files  PROVE AloneWithRoom(f)'
  <2> SUFFICES ASSUME upload'[f] # NULL, ~upload'[f].crossed
               PROVE  /\ \A g \in Files \ {f} : upload'[g] = NULL
                      /\ upload'[f].pc # "schedule" => Bytes(Counted)' + upload'[f].size <= Quota
    BY DEF AloneWithRoom
  <2>1. upload[f] # NULL /\ ~upload[f].crossed /\ upload[f].size \in Nat
    BY AttachmentsAssumption DEF AttachmentsInv, FilesTyped, Upload
  <2>2. /\ \A g \in Files \ {f} : upload[g] = NULL
        /\ upload[f].pc # "schedule" => Bytes(Counted) + upload[f].size <= Quota
    BY <2>1 DEF QuotaInv, AloneWithRoom
  <2>3. upload'[f].pc # "schedule" => Bytes(Counted)' + upload'[f].size <= Quota
    BY <1>6, <1>8, <2>1, <2>2, AttachmentsAssumption
  <2> QED  BY <2>2, <2>3
<1> QED  BY <1>1, <1>9, <1>10 DEF QuotaInv

LEMMA CheckQuotaKeeps ==
    ASSUME AttachmentsInv, QuotaInv, NEW f \in Files, NEW size \in Sizes, NEW eicar \in BOOLEAN,
           CheckQuota(f, size, eicar)
    PROVE  QuotaInv'
<1>1. UNCHANGED <<file, withdrawal>> /\ Bytes(Counted) + size <= Quota /\ upload[f] = NULL
  BY DEF CheckQuota
<1>2. upload' = [g \in Files |->
          IF g = f THEN [pc |-> "store", size |-> size, eicar |-> eicar, crossed |-> Uploading # {}]
          ELSE IF g \in Uploading THEN [upload[g] EXCEPT !.crossed = TRUE] ELSE NULL]
  BY DEF CheckQuota
<1>3. Rows' = Rows /\ Counted' = Counted /\ Uncrossed' = Uncrossed
  BY <1>1 DEF Rows, Counted, Uncrossed
<1>4. Bytes(Counted)' = Bytes(Counted) /\ Bytes(Uncrossed)' = Bytes(Uncrossed)
  BY <1>1, <1>3, BytesAreTotals
<1>5. ASSUME NEW g \in Files  PROVE CopiedWhole(g)'
  BY <1>1 DEF QuotaInv, CopiedWhole
<1>6. ASSUME NEW g \in Files, upload'[g] # NULL, ~upload'[g].crossed
      PROVE  g = f /\ Uploading = {}
  <2>1. CASE g = f
    BY <1>2, <1>6, <2>1
  <2>2. CASE g # f
    <3>1. g \in Uploading /\ upload'[g] = [upload[g] EXCEPT !.crossed = TRUE] /\ upload[g] \in Upload
      BY <1>2, <1>6, <2>2 DEF AttachmentsInv, FilesTyped, Uploading
    <3>2. upload'[g].crossed
      BY <3>1 DEF Upload
    <3> QED  BY <1>6, <3>2
  <2> QED  BY <2>1, <2>2
<1>7. ASSUME NEW g \in Files  PROVE AloneWithRoom(g)'
  <2> SUFFICES ASSUME upload'[g] # NULL, ~upload'[g].crossed
               PROVE  /\ \A x \in Files \ {g} : upload'[x] = NULL
                      /\ upload'[g].pc # "schedule" => Bytes(Counted)' + upload'[g].size <= Quota
    BY DEF AloneWithRoom
  <2>1. g = f /\ Uploading = {}
    BY <1>6
  <2>2. \A x \in Files \ {g} : upload'[x] = NULL
    BY <1>2, <2>1
  <2>3. upload'[g].size = size
    BY <1>2, <2>1
  <2> QED  BY <1>1, <1>4, <2>2, <2>3
<1> QED  BY <1>3, <1>4, <1>5, <1>7 DEF QuotaInv

LEMMA SaveRowKeeps ==
    ASSUME AttachmentsInv, QuotaInv, NEW f \in Files, SaveRow(f)
    PROVE  QuotaInv'
<1> USE AttachmentsNull
<1>1. upload[f] # NULL /\ upload[f].pc = "save" /\ upload[f] \in Upload /\ UNCHANGED withdrawal
  BY DEF SaveRow, AttachmentsInv, FilesTyped
<1>2. file[f] = NULL /\ withdrawal[f] = NULL
  BY <1>1 DEF AttachmentsInv, FileInv, Rowed
<1>3. PICK k : k = file'
  OBVIOUS
<1>4. PICK s \in Nat : s = upload[f].size
  BY <1>1, AttachmentsAssumption DEF Upload
<1>5. /\ k[f] # NULL /\ k[f].size = s /\ (k[f].crossed <=> upload[f].crossed)
      /\ k[f].antivirusStatus = "PENDING" /\ ~k[f].isWithdrawn
      /\ \A g \in Files \ {f} : k[g] = file[g]
  <2>1. k = [file EXCEPT ![f] =
          [size |-> upload[f].size, eicar |-> upload[f].eicar, antivirusStatus |-> "PENDING",
           isWithdrawn |-> FALSE, crossed |-> upload[f].crossed]]
    BY <1>3 DEF SaveRow
  <2>2. k[f] = [size |-> upload[f].size, eicar |-> upload[f].eicar, antivirusStatus |-> "PENDING",
                isWithdrawn |-> FALSE, crossed |-> upload[f].crossed]
    BY <2>1 DEF AttachmentsInv, FilesTyped
  <2>3. k[f] \in File
    BY <1>1, <2>2 DEF Upload, File, AntivirusStatus
  <2> QED  BY <1>4, <2>1, <2>2, <2>3 DEF AttachmentsInv, FilesTyped
<1>6. f \notin Rows /\ Counted \subseteq Rows /\ Uncrossed \subseteq Counted
      /\ IsFiniteSet(Rows)
      /\ \A g \in Rows : file[g].size \in Nat
  BY <1>2, AttachmentsAssumption DEF QuotaInv, Counted, Uncrossed, Rows, AttachmentsInv, FilesTyped, File
<1>7. Rows' = Rows \cup {f} /\ Counted' = Counted \cup {f}
  BY <1>2, <1>3, <1>5 DEF Rows, Counted
<1>8. IsFiniteSet(Rows \cup {f})
  BY <1>6, FS_AddElement
<1>9. Bytes(Uncrossed)' <= Quota
  <2>1. PICK n \in SUBSET Rows : n = Uncrossed
    BY <1>6
  <2>2. Total(k, n) <= Total(file, n) /\ Total(file, n) \in Nat /\ Total(k, n) \in Nat
    <3>1. n \in SUBSET n /\ (\A g \in n : file[g].size \in Nat) /\ \A g \in n : k[g].size = file[g].size
      BY <1>5, <1>6, <2>1 DEF Rows
    <3> QED  BY <1>6, <3>1, TotalShrinks
  <2>3. Total(file, n) = Bytes(Uncrossed)
    BY <2>1, BytesAreTotals
  <2>4. CASE upload[f].crossed
    <3>1. Uncrossed' = n
      BY <1>3, <1>5, <1>6, <1>7, <2>1, <2>4 DEF Uncrossed, Rows
    <3>2. Bytes(Uncrossed)' = Total(k, n)
      BY <1>3, <3>1, BytesAreTotals
    <3> QED  BY <2>2, <2>3, <3>2, AttachmentsAssumption DEF QuotaInv
  <2>5. CASE ~upload[f].crossed
    <3>1. Uncrossed' = n \cup {f}
      BY <1>3, <1>5, <1>6, <1>7, <2>1, <2>5 DEF Uncrossed, Rows
    <3>2. Bytes(Uncrossed)' = Total(k, n \cup {f})
      BY <1>3, <3>1, BytesAreTotals
    <3>3. Total(k, n \cup {f}) = Total(k, n) + s
      <4>1. n \in SUBSET (Rows \cup {f}) /\ (\A y \in n : k[y].size \in Nat)
            /\ f \in (Rows \cup {f}) \ n /\ k[f].size \in Nat
        BY <1>5, <1>6, <2>1 DEF Rows
      <4>2. Total(k, n \cup {f}) = Total(k, n) + k[f].size
        BY <1>8, <4>1, TotalGrows
      <4> QED  BY <1>5, <4>2
    <3>4. PICK m \in SUBSET Rows : m = Counted
      BY <1>6
    <3>5. Total(file, n) <= Total(file, m) /\ Total(file, m) \in Nat
      BY <1>6, <2>1, <3>4, TotalShrinks
    <3>6. Total(file, m) + s <= Quota
      <4>1. Bytes(Counted) + upload[f].size <= Quota
        BY <1>1, <2>5 DEF QuotaInv, AloneWithRoom
      <4> QED  BY <1>4, <3>4, <4>1, BytesAreTotals
    <3>7. Quota \in Nat
      BY AttachmentsAssumption
    <3> QED  BY <2>2, <3>2, <3>3, <3>5, <3>6, <3>7
  <2> QED  BY <2>4, <2>5
<1>10. ASSUME NEW g \in Files  PROVE CopiedWhole(g)'
  BY <1>1, <1>2, <1>3, <1>5 DEF QuotaInv, CopiedWhole
<1>11. ASSUME NEW g \in Files  PROVE AloneWithRoom(g)'
  <2> SUFFICES ASSUME upload'[g] # NULL, ~upload'[g].crossed
               PROVE  (\A x \in Files \ {g} : upload'[x] = NULL) /\ upload'[g].pc = "schedule"
    BY DEF AloneWithRoom
  <2>1. \A x \in Files \ {f} : upload'[x] = upload[x]
    BY DEF SaveRow, AttachmentsInv, FilesTyped
  <2>2. upload'[f] = [upload[f] EXCEPT !.pc = "schedule"]
    BY DEF SaveRow, AttachmentsInv, FilesTyped
  <2>3. upload'[f].pc = "schedule" /\ (upload'[f].crossed <=> upload[f].crossed)
    BY <1>1, <2>2 DEF Upload
  <2>4. g = f
    BY <1>1, <2>1 DEF QuotaInv, AloneWithRoom
  <2>5. \A x \in Files \ {g} : upload[x] = NULL
    BY <1>1, <2>3, <2>4 DEF QuotaInv, AloneWithRoom
  <2> QED  BY <2>1, <2>3, <2>4, <2>5
<1> QED  BY <1>7, <1>8, <1>9, <1>10, <1>11 DEF QuotaInv

LEMMA StepQuota ==
    AttachmentsInv /\ QuotaInv /\ [AttachmentsNext]_attachmentsVars => QuotaInv'
<1> SUFFICES ASSUME AttachmentsInv, QuotaInv, [AttachmentsNext]_attachmentsVars  PROVE QuotaInv'
  OBVIOUS
<1>0. \A f \in Files : CopiedWhole(f)
  BY DEF QuotaInv
<1>1. ASSUME NEW f \in Files, Store(f) \/ ScheduleScan(f) \/ UploadFails(f)  PROVE QuotaInv'
  <2>1. UNCHANGED <<file, withdrawal>>
    BY <1>1 DEF Store, ScheduleScan, UploadFails
  <2>2. Rows' = Rows /\ Counted' = Counted
    BY <2>1 DEF Rows, Counted
  <2>3. ASSUME NEW g \in Files, upload'[g] # NULL
        PROVE  /\ upload[g] # NULL /\ upload'[g].size = upload[g].size
               /\ upload'[g].crossed <=> upload[g].crossed
               /\ upload'[g].pc # "schedule" => upload[g].pc # "schedule"
    BY <1>1, <2>3, AttachmentsNull DEF Store, ScheduleScan, UploadFails, AttachmentsInv, FilesTyped, Upload
  <2>4. \A g \in Files : CopiedWhole(g)'
    BY <1>0, <2>1 DEF CopiedWhole
  <2> QED  BY <2>1, <2>2, <2>3, <2>4, RoomKept
<1>2. ASSUME NEW f \in Files, WriteVerdict(f)  PROVE QuotaInv'
  <2>1. UNCHANGED <<upload, withdrawal>> /\ scan[f] # NULL
    BY <1>2 DEF WriteVerdict
  <2>2. file[f] # NULL /\ file[f] \in File /\ file[f].antivirusStatus = "PENDING"
    BY <2>1 DEF AttachmentsInv, FilesTyped, FileInv, Rowed, ScannedOnce, ToScan
  <2>3. /\ file'[f] # NULL /\ file'[f].size = file[f].size
        /\ file'[f].crossed <=> file[f].crossed
        /\ file'[f].isWithdrawn <=> file[f].isWithdrawn
    <3>1. file'[f] = [file[f] EXCEPT !.antivirusStatus = scan[f]] /\ scan[f] \in AntivirusStatus
      BY <1>2, <2>1 DEF WriteVerdict, AttachmentsInv, FilesTyped
    <3>2. file'[f] \in File
      BY <2>2, <3>1 DEF File
    <3> QED  BY <2>2, <3>1, <3>2, AttachmentsNull DEF File
  <2>4. \A g \in Files \ {f} : file'[g] = file[g]
    BY <1>2 DEF WriteVerdict, AttachmentsInv, FilesTyped
  <2>5. Rows' = Rows
    BY <2>2, <2>3, <2>4 DEF Rows
  <2>6. ASSUME NEW g \in Counted'
        PROVE  /\ g \in Counted /\ file'[g].size = file[g].size
               /\ file'[g].crossed <=> file[g].crossed
    BY <2>2, <2>3, <2>4, <2>5 DEF Counted, Rows
  <2>7. \A g \in Files : CopiedWhole(g)'
    BY <1>0, <2>1, <2>3, <2>4 DEF CopiedWhole
  <2> QED  BY <2>1, <2>5, <2>6, <2>7, RoomKept
<1>3. ASSUME NEW f \in Files, LoadForWithdrawal(f)  PROVE QuotaInv'
  <2>1. UNCHANGED <<file, upload>>
    BY <1>3 DEF LoadForWithdrawal
  <2>2. Rows' = Rows /\ Counted' = Counted
    BY <2>1 DEF Rows, Counted
  <2>3. \A g \in Files : CopiedWhole(g)'
    BY <1>0, <1>3 DEF LoadForWithdrawal, CopiedWhole, AttachmentsInv, FilesTyped
  <2> QED  BY <2>1, <2>2, <2>3, RoomKept
<1>4. ASSUME NEW f \in Files, SaveWithdrawal(f)  PROVE QuotaInv'
  <2>1. UNCHANGED upload /\ withdrawal[f] # NULL /\ withdrawal[f] \in File /\ file[f] # NULL
    BY <1>4 DEF SaveWithdrawal, AttachmentsInv, FilesTyped, FileInv, Rowed
  <2>2. file'[f] # NULL /\ file'[f].isWithdrawn
    <3>1. file'[f] = [withdrawal[f] EXCEPT !.isWithdrawn = TRUE]
      BY <1>4 DEF SaveWithdrawal, AttachmentsInv, FilesTyped
    <3>2. file'[f] \in File /\ file'[f].isWithdrawn
      BY <2>1, <3>1 DEF File
    <3> QED  BY <3>2, AttachmentsNull
  <2>3. \A g \in Files \ {f} : file'[g] = file[g] /\ withdrawal'[g] = withdrawal[g]
    BY <1>4 DEF SaveWithdrawal, AttachmentsInv, FilesTyped
  <2>4. withdrawal'[f] = NULL
    BY <1>4 DEF SaveWithdrawal, AttachmentsInv, FilesTyped
  <2>5. Rows' = Rows
    BY <2>1, <2>2, <2>3 DEF Rows
  <2>6. ASSUME NEW g \in Counted'
        PROVE  /\ g \in Counted /\ file'[g].size = file[g].size
               /\ file'[g].crossed <=> file[g].crossed
    BY <2>2, <2>3, <2>5 DEF Counted, Rows
  <2>7. \A g \in Files : CopiedWhole(g)'
    BY <1>0, <2>3, <2>4 DEF CopiedWhole
  <2> QED  BY <2>1, <2>5, <2>6, <2>7, RoomKept
<1>5. ASSUME UNCHANGED <<file, upload, withdrawal>>  PROVE QuotaInv'
  <2>1. Rows' = Rows /\ Counted' = Counted
    BY <1>5 DEF Rows, Counted
  <2>2. \A g \in Files : CopiedWhole(g)'
    BY <1>0, <1>5 DEF CopiedWhole
  <2> QED  BY <1>5, <2>1, <2>2, RoomKept
<1>6. ASSUME Restart  PROVE QuotaInv'
  <2>1. UNCHANGED file /\ \A g \in Files : upload'[g] = NULL /\ withdrawal'[g] = NULL
    BY <1>6 DEF Restart
  <2>2. Rows' = Rows /\ Counted' = Counted
    BY <2>1 DEF Rows, Counted
  <2>3. \A g \in Files : CopiedWhole(g)'
    BY <2>1 DEF CopiedWhole
  <2> QED  BY <2>1, <2>2, <2>3, RoomKept
<1>7. ASSUME NEW f \in Files,
             ReadForScan(f) \/ Sign(f) \/ Expire(f) \/ CheckDownload(f) \/ SendContent(f)
      PROVE  QuotaInv'
  BY <1>5, <1>7 DEF ReadForScan, Sign, Expire, CheckDownload, SendContent
<1> QED
  BY <1>1, <1>2, <1>3, <1>4, <1>5, <1>6, <1>7, CheckQuotaKeeps, SaveRowKeeps
     DEF AttachmentsNext, attachmentsVars

(* The files of a request that were uploaded one at a time stay within its        *)
(* quota (assertRequestQuota), whatever scans, withdrawals and restarts cross:   *)
(* to exceed it, two uploads must have overlapped.                            *)
THEOREM QuotaKept == AttachmentsSpec => []QuotaHolds
<1>1. AttachmentsInv /\ QuotaInv => QuotaHolds
  <2> SUFFICES ASSUME QuotaInv, \A f \in Counted : ~file[f].crossed  PROVE QuotaHolds
    BY DEF QuotaHolds
  <2>1. Uncrossed = Counted
    BY DEF Uncrossed
  <2> QED  BY <2>1 DEF QuotaInv, QuotaHolds
<1>2. AttachmentsInit => QuotaInv
  BY InitQuota
<1>3. AttachmentsSpec => []QuotaInv
  BY <1>2, StepQuota, FilesHold, PTL DEF AttachmentsSpec
<1> QED  BY <1>1, <1>3, FilesHold, PTL

-----------------------------------------------------------------------------
(* The form and the creation.                                                *)

Catalog == [category : [Categories -> Category], product : [Products -> Product]]
Refusal == {"CATEGORY_NOT_FOUND", "CATEGORY_INACTIVE", "BUG_DETAILS_REQUIRED", "INTERNAL_ERROR",
            "PRODUCT_NOT_FOUND", "BLOCKING_BUG_IMPACT_MISMATCH", "ENVIRONMENT_REQUIRED", "NO_ANSWER"}
Impacts == {"BLOCAGE", "DEGRADATION", NULL}
FormState == [phase : {"closed", "editing", "leaving", "done"}, seen : Catalog \cup {NULL}, current : BOOLEAN,
              stepIdx : 1..5, category : Categories \cup {NULL}, described : BOOLEAN,
              bug : Bug \cup {NULL}, impact : Impacts, refused : Refusal \cup {NULL}]
SentDto == [category : Categories, impact : Impacts, bug : Bug \cup {NULL}]
Idle == [phase : {"idle"}]
Received == [phase : {"received"}, dto : SentDto]
Checked == [phase : {"checked"}, dto : SentDto, details : BOOLEAN]
Begun == [phase : {"begun"}, dto : SentDto, details : BOOLEAN, day : 1..MaxDay]
Numbered == [phase : {"numbered"}, dto : SentDto, details : BOOLEAN, day : 1..MaxDay, number : Nat]
Creation == Idle \cup Received \cup Checked \cup Begun \cup Numbered
Stored == [ref : (1..MaxDay) \X Nat, by : Callers, dto : SentDto, details : BOOLEAN]

SubmissionTyped ==
    /\ catalog \in Catalog /\ form \in FormState
    /\ call \in [Callers -> Creation]
    /\ counter \in [1..MaxDay -> Nat] /\ today \in 1..MaxDay
    /\ stored \subseteq Stored /\ IsFiniteSet(stored) /\ lost \in Nat /\ again \in Nat

(* The requests of a day bear the numbers up to its counter; a creation that   *)
(* took a number took the next one, and nobody else did that day.             *)
NumberedTo(day, n) ==
    /\ {r.ref[2] : r \in StoredOn(day)} = 1..n /\ Cardinality(StoredOn(day)) = n
    /\ n < Limit
NumbersFollow ==
    /\ \A day \in 1..MaxDay : NumberedTo(day, counter[day])
    /\ \A c \in Callers : call[c] \in Numbered =>
          /\ call[c].number = counter[call[c].day] + 1
          /\ \A d \in Callers \ {c} : call[d] \in Numbered => call[d].day # call[c].day

(* What the form gave birth to and has under way is accounted for: by the last time *)
(* it was sent, by the answers it lost, by Enter while it was being sent.       *)
ByForm == {r \in stored : r.by \in FormCalls}
SentOnce ==
    Cardinality(ByForm) + Cardinality(InFlight)
        <= lost + again + IF submitting \/ form.phase = "done" THEN 1 ELSE 0

(* What an open form holds was chosen among what it shows, and it has details    *)
(* exactly when its category asks for them; what is sent is what it holds.     *)
ChoicesShown ==
    form.phase # "closed" =>
        /\ form.category # NULL => form.seen.category[form.category].state = "active"
        /\ form.bug # NULL <=> isBug
        /\ form.bug # NULL /\ form.bug.product # NULL =>
              form.seen.product[form.bug.product].state = "active"
        /\ form.bug # NULL /\ form.bug.filled => form.bug.product # NULL
        /\ ~isBug => form.stepIdx <= 4
SentAsHeld ==
    /\ InFlight # {} => /\ form.phase # "closed" /\ form.category # NULL
                        /\ form.bug # NULL => form.bug.filled
    /\ \A c \in InFlight : call[c].dto = Dto(form.category, form.impact, form.bug)
    /\ submitting => Step \in {"description", "review"}

(* As long as the form is up to date, the API reads what the form shows.        *)
Tolerated == {NULL, "NO_ANSWER", "INTERNAL_ERROR", "BLOCKING_BUG_IMPACT_MISMATCH", "ENVIRONMENT_REQUIRED"}
ShowsTheCatalog ==
    /\ \A k \in Categories :
          form.seen.category[k].state = "active" => form.seen.category[k] = catalog.category[k]
    /\ \A p \in Products :
          form.seen.product[p].state = "active" => form.seen.product[p] = catalog.product[p]
Agreed ==
    /\ form.phase = "closed" =>
          /\ form.seen = NULL /\ form.category = NULL /\ form.bug = NULL /\ form.stepIdx = 1
          /\ form.refused = NULL /\ ByForm = {}
    /\ form.phase # "closed" /\ form.current =>
          /\ ShowsTheCatalog
          /\ form.refused \in Tolerated
          /\ \A r \in ByForm : r.dto.bug # NULL <=> r.details
          /\ \A c \in FormCalls : call[c] \in Checked \cup Begun \cup Numbered =>
                (call[c].details <=> call[c].dto.bug # NULL)

SubmissionInv ==
    SubmissionTyped /\ NumbersFollow /\ SentOnce /\ ChoicesShown /\ SentAsHeld /\ Agreed

-----------------------------------------------------------------------------
(* The calendar of the service levels.                                       *)

(* Days begin at their midnight, one after the other.                         *)
Midnight(n) == n * Day

LEMMA Midnights ==
    /\ \A n \in Nat : Midnight(n) \in Nat /\ Midnight(n + 1) = Midnight(n) + Day
    /\ \A m, n \in Nat : m < n => Midnight(m) + Day <= Midnight(n)
<1>1. PICK D \in Nat \ {0} : D = Day
  BY CalendarAssumption
<1>2. ASSUME NEW n \in Nat  PROVE Midnight(n) \in Nat /\ Midnight(n + 1) = Midnight(n) + Day
  <2>1. n * D \in Nat /\ (n + 1) * D = n * D + D
    OBVIOUS
  <2> QED  BY <1>1, <2>1 DEF Midnight
<1>3. ASSUME NEW m \in Nat, NEW n \in Nat, m < n  PROVE Midnight(m) + Day <= Midnight(n)
  <2>1. PICK k \in Nat : n = (m + 1) + k
    <3>1. n - (m + 1) \in Nat /\ n = (m + 1) + (n - (m + 1))
      BY <1>3
    <3> QED  BY <3>1
  <2>2. n * D = (m * D + D) + k * D /\ k * D \in Nat /\ m * D \in Nat
    BY <2>1
  <2> QED  BY <1>1, <2>2 DEF Midnight
<1> QED  BY <1>2, <1>3

LEMMA Days ==
    ASSUME NEW d \in Nat
    PROVE  /\ DayOf(d) \in Nat /\ Midnight(DayOf(d)) \in Nat
           /\ Midnight(DayOf(d)) <= d /\ d < Midnight(DayOf(d)) + Day
           /\ \A n \in Nat : Midnight(n) <= d /\ d < Midnight(n) + Day => DayOf(d) = n
<1>1. PICK D \in Nat \ {0} : D = Day
  BY CalendarAssumption
<1>2. PICK q \in Nat : q = d \div D
  BY <1>1
<1>3. d % D \in 0..(D - 1) /\ d = D * q + (d % D)
  BY <1>1, <1>2
<1>4. D * q = q * D /\ q * D \in Nat
  OBVIOUS
<1>5. DayOf(d) = q /\ Midnight(q) = q * D
  BY <1>1, <1>2 DEF DayOf, Midnight
<1>6. Midnight(q) <= d /\ d < Midnight(q) + D /\ Midnight(q) \in Nat
  BY <1>3, <1>4, <1>5
<1>7. ASSUME NEW n \in Nat, Midnight(n) <= d, d < Midnight(n) + Day  PROVE q = n
  <2>1. Midnight(n) \in Nat
    BY Midnights
  <2>2. (n < q => Midnight(n) + Day <= Midnight(q)) /\ (q < n => Midnight(q) + Day <= Midnight(n))
    BY Midnights
  <2>3. ~(n < q) /\ ~(q < n)
    BY <1>1, <1>6, <1>7, <2>1, <2>2
  <2> QED  BY <2>3
<1> QED  BY <1>1, <1>5, <1>6, <1>7

(* A day is open from one hour to the other.                                  *)
OpenDay(n) == n % 7 \in 1..5 /\ n \notin Holidays

LEMMA Hours ==
    /\ BUSINESS_START \in Nat /\ BUSINESS_END \in Nat /\ Day \in Nat
    /\ BUSINESS_START < BUSINESS_END /\ BUSINESS_END < Day
  BY CalendarAssumption

LEMMA DayHours ==
    ASSUME NEW n \in Nat, NEW x \in Nat, x < Day
    PROVE  LET d == Midnight(n) + x IN
           /\ d \in Nat /\ DayOf(d) = n
           /\ isBusinessDay(d) <=> OpenDay(n)
           /\ startOfBusinessDay(d) = Midnight(n) + BUSINESS_START
           /\ endOfBusinessDay(d) = Midnight(n) + BUSINESS_END
           /\ nextDay(d) = Midnight(n + 1) + BUSINESS_START
           /\ IsOpen(d) <=> OpenDay(n) /\ BUSINESS_START <= x /\ x < BUSINESS_END
<1>1. PICK m \in Nat : m = Midnight(n)
  BY Midnights
<1>2. PICK d \in Nat : d = Midnight(n) + x
  BY <1>1
<1>3. Midnight(n) <= d /\ d < Midnight(n) + Day
  BY <1>1, <1>2, Hours
<1>4. DayOf(d) = n
  BY <1>3, Days
<1>5. /\ isBusinessDay(d) <=> OpenDay(n)
      /\ startOfBusinessDay(d) = m + BUSINESS_START
      /\ endOfBusinessDay(d) = m + BUSINESS_END
      /\ nextDay(d) = Midnight(n + 1) + BUSINESS_START
  BY <1>1, <1>4 DEF isBusinessDay, OpenDay, startOfBusinessDay, endOfBusinessDay, nextDay, Midnight
<1>6. IsOpen(d) <=> OpenDay(n) /\ BUSINESS_START <= x /\ x < BUSINESS_END
  BY <1>1, <1>2, <1>5, Hours DEF IsOpen
<1> QED  BY <1>1, <1>2, <1>4, <1>5, <1>6

LEMMA TimeOfDay ==
    ASSUME NEW d \in Nat
    PROVE  \E n, x \in Nat : n = DayOf(d) /\ x < Day /\ d = Midnight(n) + x
<1>1. PICK n \in Nat : n = DayOf(d)
  BY Days
<1>2. PICK m \in Nat : m = Midnight(n)
  BY Midnights
<1>3. d - m \in Nat /\ d - m < Day /\ d = m + (d - m)
  BY <1>1, <1>2, Days, Hours
<1> QED  BY <1>1, <1>2, <1>3

LEMMA OpenDaysCome ==
    ASSUME NEW n \in Nat  PROVE \E k \in 1..30 : OpenDay(n + k)
<1>1. PICK k \in 1..3 : (n + k) % 7 \in 1..5
  <2>1. (n + 1) % 7 \in 1..5 \/ (n + 2) % 7 \in 1..5 \/ (n + 3) % 7 \in 1..5
    OBVIOUS
  <2> QED  BY <2>1
<1>2. CASE n + k \notin Holidays
  BY <1>1, <1>2 DEF OpenDay
<1>3. CASE n + k \in Holidays
  <2>1. PICK j \in 1..27 : ((n + k) + j) % 7 \in 1..5 /\ (n + k) + j \notin Holidays
    BY <1>3, CalendarAssumption
  <2>2. k + j \in 1..30 /\ n + (k + j) = (n + k) + j
    OBVIOUS
  <2> QED  BY <2>1, <2>2 DEF OpenDay
<1> QED  BY <1>2, <1>3

(* The next open instant: none is open before it. From the opening hour of a day it  *)
(* is the opening hour of a day.                                              *)
LEMMA NextOpen ==
    ASSUME NEW d \in Nat, NEW c, c = nextBusinessInstant(d)
    PROVE  /\ c \in Nat /\ d <= c /\ IsOpen(c)
           /\ \A u \in Nat : d <= u /\ u < c => ~IsOpen(u)
           /\ d = Midnight(DayOf(d)) + BUSINESS_START => c = Midnight(DayOf(c)) + BUSINESS_START
<1>1. PICK n, x \in Nat : n = DayOf(d) /\ x < Day /\ d = Midnight(n) + x
  BY TimeOfDay
<1>2. \A k \in Nat : Midnight(k) \in Nat
  BY Midnights
<1>3. ASSUME NEW i \in Nat \ {0}
      PROVE  LET e == Candidate(d, i) IN
             /\ e = Midnight(n + i) + BUSINESS_START /\ e \in Nat /\ DayOf(e) = n + i
             /\ isBusinessDay(e) <=> OpenDay(n + i)
             /\ e = startOfBusinessDay(e) /\ e < endOfBusinessDay(e)
  <2>1. Candidate(d, i) = Midnight(n + i) + BUSINESS_START
    BY <1>1 DEF Candidate, Midnight
  <2>2. PICK m \in Nat : m = n + i
    OBVIOUS
  <2>3. PICK e : e = Midnight(m) + BUSINESS_START
    OBVIOUS
  <2>4. /\ e \in Nat /\ DayOf(e) = m
        /\ isBusinessDay(e) <=> OpenDay(m)
        /\ startOfBusinessDay(e) = Midnight(m) + BUSINESS_START
        /\ endOfBusinessDay(e) = Midnight(m) + BUSINESS_END
    <3>1. BUSINESS_START \in Nat /\ BUSINESS_START < Day
      BY Hours
    <3> QED  BY <2>3, <3>1, DayHours
  <2>5. e < endOfBusinessDay(e)
    BY <1>2, <2>3, <2>4, Hours
  <2> QED  BY <2>1, <2>2, <2>3, <2>4, <2>5
<1>4. Candidate(d, 0) = d
  BY DEF Candidate
<1>5. PICK stops : stops = {i \in 0..30 : StopsAt(d, i)}
  OBVIOUS
<1>6. \A i \in 0..30 : i \in stops <=>
         isBusinessDay(Candidate(d, i)) /\ Candidate(d, i) < endOfBusinessDay(Candidate(d, i))
  BY <1>5 DEF StopsAt
<1>7. \A i \in 1..30 : i \in stops <=> OpenDay(n + i)
  BY <1>3, <1>6
<1>8. /\ isBusinessDay(d) <=> OpenDay(n)
      /\ startOfBusinessDay(d) = Midnight(n) + BUSINESS_START
      /\ endOfBusinessDay(d) = Midnight(n) + BUSINESS_END
  BY <1>1, DayHours
<1>9. 0 \in stops <=> OpenDay(n) /\ x < BUSINESS_END
  <2>1. 0 \in stops <=> isBusinessDay(d) /\ d < endOfBusinessDay(d)
    BY <1>4, <1>6
  <2>2. d < Midnight(n) + BUSINESS_END <=> x < BUSINESS_END
    BY <1>1, <1>2, Hours
  <2> QED  BY <1>8, <2>1, <2>2
<1>10. stops \subseteq 0..30 /\ stops # {}
  BY <1>1, <1>5, <1>7, OpenDaysCome
<1>11. PICK i \in stops :
              /\ \A j \in stops : i <= j
              /\ i = CHOOSE k \in 0..30 : StopsAt(d, k) /\ \A j \in 0..(k - 1) : ~StopsAt(d, j)
  <2>1. PICK i \in stops : \A j \in stops : i <= j
    <3>1. stops \subseteq Nat
      BY <1>10
    <3> QED  BY <1>10, <3>1, Least
  <2> DEFINE First(k) == StopsAt(d, k) /\ \A j \in 0..(k - 1) : ~StopsAt(d, j)
  <2>2. i \in 0..30 /\ First(i)
    <3>1. i \in 0..30 /\ StopsAt(d, i)
      BY <1>5
    <3>2. ASSUME NEW j \in 0..(i - 1)  PROVE ~StopsAt(d, j)
      <4>1. j \in 0..30 /\ ~(i <= j)
        BY <3>1
      <4> QED  BY <1>5, <2>1, <4>1
    <3> QED  BY <3>1, <3>2
  <2>3. ASSUME NEW k \in 0..30, First(k)  PROVE k = i
    <3>1. k \in stops /\ i <= k
      BY <1>5, <2>1, <2>3
    <3>2. ~(i < k)
      <4>1. i < k => i \in 0..(k - 1)
        BY <2>2
      <4> QED  BY <2>2, <2>3, <4>1
    <3> QED  BY <2>2, <3>1, <3>2
  <2> HIDE DEF First
  <2>4. i = CHOOSE k \in 0..30 : First(k)
    BY <2>2, <2>3
  <2> QED  BY <2>1, <2>4 DEF First
<1>12. PICK e : e = Candidate(d, i)
  OBVIOUS
<1>13. c = IF e < startOfBusinessDay(e) THEN startOfBusinessDay(e) ELSE e
  <2>1. ~\A k \in 0..30 : ~StopsAt(d, k)
    BY <1>5, <1>10
  <2> QED  BY <1>11, <1>12, <2>1 DEF nextBusinessInstant
<1>14. i \in 0..30 /\ i \in Nat
  BY <1>10
<1>15. ASSUME NEW u \in Nat, NEW j, NEW y \in Nat, j = DayOf(u), y < Day, u = Midnight(j) + y
       PROVE  j \in Nat /\ (IsOpen(u) <=> OpenDay(j) /\ BUSINESS_START <= y /\ y < BUSINESS_END)
  <2>1. j \in Nat
    BY <1>15, Days
  <2> QED  BY <1>15, <2>1, DayHours
<1>16. CASE i = 0
  <2>1. e = d /\ OpenDay(n) /\ x < BUSINESS_END
    BY <1>4, <1>9, <1>12, <1>16
  <2>2. c = IF x < BUSINESS_START THEN Midnight(n) + BUSINESS_START ELSE Midnight(n) + x
    BY <1>1, <1>2, <1>8, <1>13, <2>1, Hours
  <2>3. PICK z \in Nat : c = Midnight(n) + z /\ BUSINESS_START <= z /\ z < BUSINESS_END /\ x <= z
                         /\ (x < BUSINESS_START => z = BUSINESS_START) /\ (x >= BUSINESS_START => z = x)
    BY <2>1, <2>2, Hours
  <2>4. z < Day
    BY <2>3, Hours
  <2>5. c \in Nat /\ d <= c /\ IsOpen(c) /\ DayOf(c) = n
    BY <1>1, <1>2, <2>1, <2>3, <2>4, DayHours
  <2>6. ASSUME NEW u \in Nat, d <= u, u < c  PROVE ~IsOpen(u)
    <3>1. PICK y \in Nat : u = Midnight(n) + y /\ y < BUSINESS_START
      <4>1. u - Midnight(n) \in Nat /\ u = Midnight(n) + (u - Midnight(n))
        BY <1>1, <1>2, <2>6
      <4>2. u - Midnight(n) < BUSINESS_START
        BY <1>1, <1>2, <2>3, <2>6, Hours
      <4> QED  BY <4>1, <4>2
    <3>2. y < Day
      BY <3>1, Hours
    <3> QED  BY <3>1, <3>2, DayHours, Hours
  <2>7. ASSUME d = Midnight(n) + BUSINESS_START  PROVE c = Midnight(n) + BUSINESS_START
    <3>1. x = BUSINESS_START
      BY <1>1, <1>2, <2>7, Hours
    <3> QED  BY <2>3, <3>1, Hours
  <2> QED  BY <1>1, <2>5, <2>6, <2>7
<1>17. CASE i # 0
  <2>1. i \in 1..30 /\ i \in Nat \ {0}
    BY <1>14, <1>17
  <2>2. c = Midnight(n + i) + BUSINESS_START /\ OpenDay(n + i)
    <3>1. e = Midnight(n + i) + BUSINESS_START /\ e \in Nat /\ e = startOfBusinessDay(e)
      BY <1>3, <1>12, <2>1
    <3>2. c = e
      BY <1>13, <3>1
    <3> QED  BY <1>7, <2>1, <3>1, <3>2
  <2>3. n + i \in Nat /\ n < n + i
    BY <1>1, <2>1
  <2>4. c \in Nat /\ DayOf(c) = n + i /\ IsOpen(c)
    BY <2>2, <2>3, DayHours, Hours
  <2>5. Midnight(n) + Day <= Midnight(n + i)
    BY <1>1, <2>3, Midnights
  <2>6. d <= c
    BY <1>1, <1>2, <2>2, <2>3, <2>5, Hours
  <2>7. ASSUME NEW u \in Nat, d <= u, u < c  PROVE ~IsOpen(u)
    <3> SUFFICES ASSUME IsOpen(u)  PROVE FALSE
      OBVIOUS
    <3>1. PICK j, y \in Nat : j = DayOf(u) /\ y < Day /\ u = Midnight(j) + y
      BY TimeOfDay
    <3>2. OpenDay(j) /\ BUSINESS_START <= y /\ y < BUSINESS_END
      BY <1>15, <3>1
    <3>3. ~(j < n)
      <4>1. j < n => Midnight(j) + Day <= Midnight(n)
        BY <1>1, <3>1, Midnights
      <4> QED  BY <1>1, <1>2, <2>7, <3>1, <4>1, Hours
    <3>4. ~(n + i < j)
      <4>1. n + i < j => Midnight(n + i) + Day <= Midnight(j)
        BY <2>3, <3>1, Midnights
      <4> QED  BY <1>2, <2>2, <2>3, <2>7, <3>1, <4>1, Hours
    <3>5. j # n + i
      BY <1>2, <2>2, <2>3, <2>7, <3>1, <3>2, Hours
    <3>6. PICK k \in 0..30 : j = n + k /\ k < i
      <4>1. j - n \in 0..30 /\ j = n + (j - n) /\ j - n < i
        BY <1>1, <1>14, <3>1, <3>3, <3>4, <3>5
      <4> QED  BY <4>1
    <3>7. k \notin stops
      <4>1. \A m \in stops : i <= m
        BY <1>11
      <4> QED  BY <1>14, <3>6, <4>1
    <3>8. k = 0
      <4>1. k # 0 => k \in 1..30
        BY <3>6
      <4> QED  BY <1>7, <3>2, <3>6, <3>7, <4>1
    <3>9. j = n /\ x >= BUSINESS_END
      <4>1. j = n /\ 0 \notin stops
        BY <3>6, <3>7, <3>8
      <4>2. OpenDay(n)
        BY <3>2, <4>1, Zenon
      <4>3. ~(x < BUSINESS_END)
        BY <1>9, <4>1, <4>2
      <4> QED  BY <4>1, <4>3, Hours
    <3> QED  BY <1>1, <1>2, <2>7, <3>1, <3>2, <3>9, Hours
  <2> QED  BY <2>2, <2>4, <2>6, <2>7
<1> QED  BY <1>16, <1>17

(* What a function gives when it is applied again and again.                  *)
LEMMA Iterates ==
    ASSUME NEW S, NEW g \in [S -> S]
    PROVE  \E it \in [Nat -> [S -> S]] :
              /\ \A c \in S : it[0][c] = c
              /\ \A n \in Nat : \A c \in S : it[n + 1][c] = it[n][g[c]]
<1> DEFINE Fits(s, n) == /\ s \in [0..n -> [S -> S]] /\ \A c \in S : s[0][c] = c
                         /\ \A k \in 0..n : k # n => \A c \in S : s[k + 1][c] = s[k][g[c]]
           T == {n \in Nat : \E s : Fits(s, n)}
<1>1. 0 \in T
  <2>1. PICK s : s = [k \in 0..0 |-> [c \in S |-> c]]
    OBVIOUS
  <2>2. Fits(s, 0)
    BY <2>1
  <2> QED  BY <2>2
<1>2. ASSUME NEW n \in Nat, n \in T  PROVE n + 1 \in T
  <2>1. PICK s : Fits(s, n)
    BY <1>2
  <2>2. PICK last : last = [c \in S |-> s[n][g[c]]]
    OBVIOUS
  <2>3. n \in 0..n /\ last \in [S -> S]
    BY <2>1, <2>2
  <2>4. PICK t : t = [k \in 0..(n + 1) |-> IF k = n + 1 THEN last ELSE s[k]]
    OBVIOUS
  <2>5. t \in [0..(n + 1) -> [S -> S]]
    BY <2>1, <2>3, <2>4
  <2>6. \A k \in 0..n : k \in 0..(n + 1) /\ k # n + 1 /\ t[k] = s[k]
    BY <2>4
  <2>7. t[n + 1] = last /\ t[0] = s[0]
    BY <2>4
  <2>8. ASSUME NEW k \in 0..(n + 1), k # n + 1, NEW c \in S  PROVE t[k + 1][c] = t[k][g[c]]
    <3>1. k \in 0..n /\ t[k] = s[k]
      BY <2>6, <2>8
    <3>2. CASE k = n
      BY <2>2, <2>7, <3>1, <3>2
    <3>3. CASE k # n
      <4>1. k + 1 \in 0..n
        BY <3>1, <3>3
      <4> QED  BY <2>1, <2>6, <3>1, <3>3, <4>1
    <3> QED  BY <3>2, <3>3
  <2>9. Fits(t, n + 1)
    BY <2>1, <2>5, <2>7, <2>8
  <2> QED  BY <2>9
<1>3. Nat \subseteq T
  <2> HIDE DEF T
  <2> QED  BY <1>1, <1>2, EveryNumber
<1>4. PICK all : all = [n \in Nat |-> CHOOSE s : Fits(s, n)]
  OBVIOUS
<1>5. ASSUME NEW n \in Nat  PROVE Fits(all[n], n)
  <2>1. \E s : Fits(s, n)
    BY <1>3
  <2> HIDE DEF Fits
  <2>2. all[n] = CHOOSE s : Fits(s, n)
    BY <1>4
  <2> QED  BY <2>1, <2>2
<1>6. PICK it : it = [n \in Nat |-> all[n][n]]
  OBVIOUS
<1> HIDE DEF Fits
\* Two of them agree where both are defined.
<1>7. \A k, n \in Nat : k <= n => all[n][k] = it[k]
  <2> DEFINE U == {k \in Nat : \A m, n \in Nat : k <= m /\ k <= n => all[m][k] = all[n][k]}
  <2>0. \A n \in Nat : /\ all[n] \in [0..n -> [S -> S]] /\ \A c \in S : all[n][0][c] = c
                       /\ \A k \in 0..n : k # n => \A c \in S : all[n][k + 1][c] = all[n][k][g[c]]
    BY <1>5 DEF Fits
  <2>1. 0 \in U
    <3> SUFFICES ASSUME NEW m \in Nat, NEW n \in Nat  PROVE all[m][0] = all[n][0]
      OBVIOUS
    <3>1. all[m][0] \in [S -> S] /\ all[n][0] \in [S -> S]
      BY <2>0
    <3>2. \A c \in S : all[m][0][c] = all[n][0][c]
      BY <2>0
    <3> QED  BY <3>1, <3>2
  <2>2. ASSUME NEW k \in Nat, k \in U  PROVE k + 1 \in U
    <3> SUFFICES ASSUME NEW m \in Nat, NEW n \in Nat, k + 1 <= m, k + 1 <= n
                 PROVE  all[m][k + 1] = all[n][k + 1]
      OBVIOUS
    <3>1. k \in 0..m /\ k # m /\ k + 1 \in 0..m /\ k \in 0..n /\ k # n /\ k + 1 \in 0..n
      OBVIOUS
    <3>2. all[m][k + 1] \in [S -> S] /\ all[n][k + 1] \in [S -> S]
      BY <2>0, <3>1
    <3>3. all[m][k] = all[n][k]
      BY <2>2, <3>1
    <3>4. \A c \in S : all[m][k + 1][c] = all[n][k + 1][c]
      BY <2>0, <3>1, <3>3
    <3> QED  BY <3>2, <3>4
  <2>3. Nat \subseteq U
    <3> HIDE DEF U
    <3> QED  BY <2>1, <2>2, EveryNumber
  <2> QED  BY <1>6, <2>3
<1>8. /\ it \in [Nat -> [S -> S]] /\ \A c \in S : it[0][c] = c
      /\ \A n \in Nat : \A c \in S : it[n + 1][c] = it[n][g[c]]
  <2>1. \A n \in Nat : it[n] = all[n][n] /\ it[n] \in [S -> S]
    BY <1>5, <1>6 DEF Fits
  <2>2. \A c \in S : it[0][c] = c
    BY <1>5, <2>1 DEF Fits
  <2>3. ASSUME NEW n \in Nat, NEW c \in S  PROVE it[n + 1][c] = it[n][g[c]]
    <3>1. n + 1 \in Nat /\ n \in 0..(n + 1) /\ n # n + 1
      OBVIOUS
    <3>2. all[n + 1][n + 1][c] = all[n + 1][n][g[c]]
      BY <1>5, <3>1 DEF Fits
    <3>3. all[n + 1][n] = it[n] /\ it[n + 1] = all[n + 1][n + 1]
      BY <1>7, <2>1, <3>1
    <3> QED  BY <3>2, <3>3
  <2> QED  BY <1>6, <2>1, <2>2, <2>3
<1> QED  BY <1>8

(* The minutes of a whole day.                                                *)
DayMinutes == (BUSINESS_END - BUSINESS_START) \div Minute

LEMMA Minutes ==
    /\ Minute \in Nat \ {0} /\ DayMinutes \in Nat \ {0}
    /\ BUSINESS_END - BUSINESS_START = DayMinutes * Minute
<1>1. PICK M \in Nat \ {0} : M = Minute
  BY CalendarAssumption
<1>2. PICK s \in Nat \ {0} : s = BUSINESS_END - BUSINESS_START
  BY Hours
<1>3. PICK q \in Nat : q = s \div M
  BY <1>2
<1>4. s % M = 0 /\ s = M * q + (s % M) /\ M * q = q * M
  BY <1>1, <1>2, <1>3, CalendarAssumption
<1>5. q # 0
  <2> SUFFICES ASSUME q = 0  PROVE FALSE
    OBVIOUS
  <2>1. M * q = 0
    OBVIOUS
  <2> QED  BY <1>2, <1>4, <2>1
<1> QED  BY <1>1, <1>2, <1>3, <1>4, <1>5 DEF DayMinutes

(* Where a day that does not give enough minutes leads: to an opening hour, from  *)
(* which a whole day is available.                                            *)
Following(cursor) == nextBusinessInstant(nextDay(cursor))
AtOpening(c) == c \in Nat /\ OpenDay(DayOf(c)) /\ c = Midnight(DayOf(c)) + BUSINESS_START

LEMMA OpeningHour ==
    ASSUME NEW c, AtOpening(c)
    PROVE  /\ c \in Nat /\ IsOpen(c) /\ Available(c) = DayMinutes
           /\ endOfBusinessDay(c) = c + DayMinutes * Minute
<1>1. PICK n \in Nat : n = DayOf(c) /\ c = Midnight(n) + BUSINESS_START /\ OpenDay(n)
  BY Days DEF AtOpening
<1>2. IsOpen(c) /\ endOfBusinessDay(c) = Midnight(n) + BUSINESS_END
  BY <1>1, DayHours, Hours
<1>3. c \in Nat /\ Midnight(n) \in Nat
  BY Midnights DEF AtOpening
<1>4. endOfBusinessDay(c) - c = BUSINESS_END - BUSINESS_START
  BY <1>1, <1>2, <1>3, Hours
<1>5. endOfBusinessDay(c) = c + (BUSINESS_END - BUSINESS_START)
  BY <1>1, <1>2, <1>3, Hours
<1> QED  BY <1>2, <1>3, <1>4, <1>5, Minutes DEF Available, DayMinutes

LEMMA FollowingOpens ==
    ASSUME NEW c \in Nat
    PROVE  AtOpening(Following(c)) /\ Following(c) \in Nat
<1>1. PICK n, x \in Nat : n = DayOf(c) /\ x < Day /\ c = Midnight(n) + x
  BY TimeOfDay
<1>2. PICK d : d = nextDay(c)
  OBVIOUS
<1>3. d = Midnight(n + 1) + BUSINESS_START
  BY <1>1, <1>2, DayHours
<1>4. d \in Nat /\ DayOf(d) = n + 1
  <2>1. n + 1 \in Nat /\ BUSINESS_START \in Nat /\ BUSINESS_START < Day
    BY Hours
  <2> QED  BY <1>3, <2>1, DayHours
<1>5. PICK e : e = nextBusinessInstant(d)
  OBVIOUS
<1>6. e \in Nat /\ IsOpen(e) /\ e = Midnight(DayOf(e)) + BUSINESS_START
  BY <1>3, <1>4, <1>5, NextOpen
<1>7. OpenDay(DayOf(e))
  BY <1>6 DEF IsOpen, isBusinessDay, OpenDay
<1> QED  BY <1>2, <1>5, <1>6, <1>7 DEF AtOpening, Following

(* The loop over the days ends: it is the recursion it is written as.          *)
LEMMA AdvanceIs ==
    \A c, r \in Nat :
       Advance[c][r] = IF r = 0 THEN c
                       ELSE IF r <= Available(c) THEN c + r * Minute
                       ELSE Advance[Following(c)][r - Available(c)]
<1>1. PICK g : g = [c \in Nat |-> Following(c)]
  OBVIOUS
<1>2. g \in [Nat -> Nat] /\ \A c \in Nat : g[c] = Following(c)
  BY <1>1, FollowingOpens
<1>3. PICK it \in [Nat -> [Nat -> Nat]] :
              /\ \A c \in Nat : it[0][c] = c
              /\ \A n \in Nat : \A c \in Nat : it[n + 1][c] = it[n][g[c]]
  BY <1>2, Iterates
<1>4. PICK W \in Nat \ {0} : W = DayMinutes
  BY Minutes
<1> DEFINE whole(q) == (q - 1) \div W
           clean(c, q) == it[whole(q)][c] + (q - whole(q) * W) * Minute
           adv(c, r) == IF r = 0 THEN c
                        ELSE IF r <= Available(c) THEN c + r * Minute
                        ELSE clean(Following(c), r - Available(c))
<1>5. ASSUME NEW c \in Nat  PROVE Available(c) \in Int
  <2>1. PICK n, x \in Nat : n = DayOf(c) /\ x < Day /\ c = Midnight(n) + x
    BY TimeOfDay
  <2>2. endOfBusinessDay(c) = Midnight(n) + BUSINESS_END /\ Midnight(n) \in Nat
    BY <2>1, DayHours, Midnights
  <2>3. PICK k \in Int : k = endOfBusinessDay(c) - c
    BY <2>2, Hours
  <2> QED  BY <2>3, Minutes DEF Available
<1>6. ASSUME NEW c, AtOpening(c), NEW q \in Nat \ {0}  PROVE clean(c, q) = adv(c, q)
  <2>1. c \in Nat /\ Available(c) = W
    BY <1>4, <1>6, OpeningHour
  <2>2. CASE q <= W
    <3>1. (q - 1) \div W = 0
      BY <2>2
    <3>2. whole(q) * W = 0 /\ q - whole(q) * W = q
      BY <3>1
    <3> QED  BY <1>3, <2>1, <2>2, <3>1, <3>2
  <2>3. CASE q > W
    <3>1. PICK p \in Nat \ {0} : p = q - W
      BY <2>3
    <3>2. PICK m \in Nat : m = (p - 1) \div W
      <4>1. PICK z \in Nat : z = p - 1
        BY <3>1
      <4>2. z \div W \in Nat
        OBVIOUS
      <4> QED  BY <4>1, <4>2
    <3>3. (q - 1) \div W = m + 1
      <4>0. PICK z \in Nat : z = p - 1
        BY <3>1
      <4>1. (p - 1) % W \in 0..(W - 1) /\ p - 1 = W * m + ((p - 1) % W)
        <5>1. z % W \in 0..(W - 1) /\ z = W * (z \div W) + (z % W)
          OBVIOUS
        <5> QED  BY <3>2, <4>0, <5>1
      <4>2. q - 1 = W * (m + 1) + ((p - 1) % W)
        <5>1. W * (m + 1) = W * m + W
          OBVIOUS
        <5>2. PICK y \in Nat : y = W * m
          OBVIOUS
        <5>3. PICK x \in Nat : x = (p - 1) % W
          BY <4>1
        <5>4. PICK w \in Nat : w = W * (m + 1)
          OBVIOUS
        <5>5. w = y + W /\ p - 1 = y + x
          BY <4>1, <5>1, <5>2, <5>3, <5>4
        <5>6. q \in Nat /\ p \in Nat /\ p = q - W
          BY <3>1
        <5>7. q - 1 = w + x
          BY <5>5, <5>6
        <5> QED  BY <5>3, <5>4, <5>7
      <4>3. PICK x \in 0..(W - 1) : x = (p - 1) % W
        BY <4>1
      <4>4. PICK k \in Nat : k = m + 1
        OBVIOUS
      <4>5. \A a \in Nat : \A b \in 0..(W - 1) : (W * a + b) \div W = a
        OBVIOUS
      <4> QED  BY <4>2, <4>3, <4>4, <4>5
    <3>4. q - (m + 1) * W = p - m * W
      BY <3>1, <3>2
    <3>5. it[m + 1][c] = it[m][Following(c)]
      <4>1. \A b \in Nat : it[m + 1][b] = it[m][g[b]]
        BY <1>3, <3>2
      <4>2. it[m + 1][c] = it[m][g[c]]
        BY <2>1, <4>1
      <4>3. g[c] = Following(c)
        BY <1>2, <2>1
      <4> QED  BY <4>2, <4>3
    <3>6. clean(c, q) = it[m + 1][c] + (q - (m + 1) * W) * Minute
      BY <3>3
    <3>7. adv(c, q) = it[m][Following(c)] + (p - m * W) * Minute
      BY <2>1, <2>3, <3>1, <3>2
    <3> QED  BY <3>4, <3>5, <3>6, <3>7
  <2> QED  BY <2>2, <2>3
<1>7. PICK f : f = [c \in Nat |-> [r \in Nat |-> adv(c, r)]]
  OBVIOUS
<1>8. ASSUME NEW c \in Nat, NEW r \in Nat
      PROVE  f[c][r] = IF r = 0 THEN c
                       ELSE IF r <= Available(c) THEN c + r * Minute
                       ELSE f[Following(c)][r - Available(c)]
  <2>1. f[c][r] = adv(c, r)
    BY <1>7
  <2>2. CASE r # 0 /\ ~(r <= Available(c))
    <3>1. PICK q \in Nat \ {0} : q = r - Available(c)
      BY <1>5, <2>2
    <3>2. PICK e \in Nat : e = Following(c) /\ AtOpening(e)
      BY FollowingOpens
    <3>3. f[e][q] = adv(e, q)
      BY <1>7
    <3>4. adv(c, r) = clean(e, q)
      BY <2>2, <3>1, <3>2
    <3>5. clean(e, q) = adv(e, q)
      BY <1>6, <3>2
    <3> QED  BY <2>1, <2>2, <3>1, <3>2, <3>3, <3>4, <3>5
  <2> QED  BY <2>1, <2>2
<1> HIDE DEF adv, clean, whole
<1>9. f = [c \in Nat |->
             [r \in Nat |->
                IF r = 0 THEN c
                ELSE IF r <= Available(c) THEN c + r * Minute
                ELSE f[nextBusinessInstant(nextDay(c))][r - Available(c)]]]
  <2>1. \A c \in Nat : f[c] = [r \in Nat |->
                                  IF r = 0 THEN c
                                  ELSE IF r <= Available(c) THEN c + r * Minute
                                  ELSE f[nextBusinessInstant(nextDay(c))][r - Available(c)]]
    <3> SUFFICES ASSUME NEW c \in Nat
                 PROVE  f[c] = [r \in Nat |->
                                  IF r = 0 THEN c
                                  ELSE IF r <= Available(c) THEN c + r * Minute
                                  ELSE f[nextBusinessInstant(nextDay(c))][r - Available(c)]]
      OBVIOUS
    <3>1. f[c] = [r \in Nat |-> adv(c, r)]
      BY <1>7
    <3>2. \A r \in Nat : f[c][r] = IF r = 0 THEN c
                                  ELSE IF r <= Available(c) THEN c + r * Minute
                                  ELSE f[nextBusinessInstant(nextDay(c))][r - Available(c)]
      BY <1>8 DEF Following
    <3> QED  BY <3>1, <3>2
  <2>2. f = [c \in Nat |-> f[c]]
    BY <1>7
  <2> QED  BY <2>1, <2>2
<1>10. Advance = [c \in Nat |->
             [r \in Nat |->
                IF r = 0 THEN c
                ELSE IF r <= Available(c) THEN c + r * Minute
                ELSE Advance[nextBusinessInstant(nextDay(c))][r - Available(c)]]]
  BY <1>9, Zenon DEF Advance
<1>11. ASSUME NEW c \in Nat, NEW r \in Nat
       PROVE  Advance[c][r] = IF r = 0 THEN c
                              ELSE IF r <= Available(c) THEN c + r * Minute
                              ELSE Advance[Following(c)][r - Available(c)]
  <2>1. PICK h : h = Advance
    OBVIOUS
  <2>2. h = [b \in Nat |->
             [q \in Nat |->
                IF q = 0 THEN b
                ELSE IF q <= Available(b) THEN b + q * Minute
                ELSE h[nextBusinessInstant(nextDay(b))][q - Available(b)]]]
    BY <1>10, <2>1
  <2>3. h[c] = [q \in Nat |->
                IF q = 0 THEN c
                ELSE IF q <= Available(c) THEN c + q * Minute
                ELSE h[nextBusinessInstant(nextDay(c))][q - Available(c)]]
    BY <2>2
  <2> QED  BY <2>1, <2>3 DEF Following
<1> QED  BY <1>11

(* The minutes of a whole number of them.                                      *)
LEMMA Times ==
    /\ \A a \in Nat : a * Minute \in Nat /\ (a + 1) * Minute = a * Minute + Minute
    /\ \A a, b \in Nat : a <= b => a * Minute <= b * Minute /\ (b - a) * Minute = b * Minute - a * Minute
<1>1. PICK M \in Nat \ {0} : M = Minute
  BY Minutes
<1>2. ASSUME NEW a \in Nat  PROVE a * M \in Nat /\ (a + 1) * M = a * M + M
  OBVIOUS
<1>3. ASSUME NEW a \in Nat, NEW b \in Nat, a <= b
      PROVE  a * M <= b * M /\ (b - a) * M = b * M - a * M
  <2>1. PICK k \in Nat : k = b - a
    BY <1>3
  <2>2. b = a + k
    BY <2>1
  <2>3. (a + k) * M = a * M + k * M /\ k * M \in Nat /\ a * M \in Nat
    OBVIOUS
  <2>4. b * M = a * M + k * M
    BY <2>2, <2>3
  <2> QED  BY <2>1, <2>3, <2>4
<1> QED  BY <1>1, <1>2, <1>3

(* How the open instants of a stretch are counted.                             *)
LEMMA Counts ==
    ASSUME NEW s \in Nat, NEW t \in Nat, s <= t
    PROVE  /\ OpenBetween(s, t) \in Nat
           /\ (\A u \in Nat : s <= u /\ u < t => ~IsOpen(u)) => OpenBetween(s, t) = 0
           /\ (\A u \in Nat : s <= u /\ u < t => IsOpen(u)) => OpenBetween(s, t) = t - s
<1>1. PICK S : S = {u \in s..(t - 1) : IsOpen(u)}
  OBVIOUS
<1>2. IsFiniteSet(s..(t - 1)) /\ Cardinality(s..(t - 1)) = t - s
  <2>1. s \in Int /\ t - 1 \in Int
    OBVIOUS
  <2>2. IsFiniteSet(s..(t - 1))
    BY <2>1, FS_Interval
  <2>3. Cardinality(s..(t - 1)) = IF s > t - 1 THEN 0 ELSE (t - 1) - s + 1
    BY <2>1, FS_Interval
  <2> QED  BY <2>2, <2>3
<1>3. S \subseteq s..(t - 1) /\ OpenBetween(s, t) = Cardinality(S)
  BY <1>1 DEF OpenBetween
<1>4. IsFiniteSet(S) /\ Cardinality(S) \in Nat
  BY <1>2, <1>3, FS_Subset, FS_CardinalityType
<1>5. ASSUME \A u \in Nat : s <= u /\ u < t => ~IsOpen(u)  PROVE Cardinality(S) = 0
  <2>1. \A u \in s..(t - 1) : u \in Nat /\ s <= u /\ u < t
    OBVIOUS
  <2>2. S = {}
    BY <1>1, <1>5, <2>1
  <2> QED  BY <2>2, FS_EmptySet
<1>6. ASSUME \A u \in Nat : s <= u /\ u < t => IsOpen(u)  PROVE Cardinality(S) = t - s
  <2>1. \A u \in s..(t - 1) : u \in Nat /\ s <= u /\ u < t
    OBVIOUS
  <2>2. S = s..(t - 1)
    BY <1>1, <1>6, <2>1
  <2> QED  BY <1>2, <2>2
<1> QED  BY <1>3, <1>4, <1>5, <1>6

LEMMA CountsAdd ==
    ASSUME NEW s \in Nat, NEW m \in Nat, NEW t \in Nat, s <= m, m <= t
    PROVE  OpenBetween(s, t) = OpenBetween(s, m) + OpenBetween(m, t)
<1>1. PICK A : A = {u \in s..(m - 1) : IsOpen(u)}
  OBVIOUS
<1>2. PICK B : B = {u \in m..(t - 1) : IsOpen(u)}
  OBVIOUS
<1>3. A \cup B = {u \in s..(t - 1) : IsOpen(u)} /\ A \cap B = {}
  <2>1. \A u : u \in s..(t - 1) <=> u \in s..(m - 1) \/ u \in m..(t - 1)
    OBVIOUS
  <2>2. \A u : ~(u \in s..(m - 1) /\ u \in m..(t - 1))
    OBVIOUS
  <2> QED  BY <1>1, <1>2, <2>1, <2>2
<1>4. IsFiniteSet(A) /\ IsFiniteSet(B)
  <2>1. IsFiniteSet(s..(m - 1)) /\ IsFiniteSet(m..(t - 1))
    BY FS_Interval
  <2>2. A \subseteq s..(m - 1) /\ B \subseteq m..(t - 1)
    BY <1>1, <1>2
  <2> QED  BY <2>1, <2>2, FS_Subset
<1>5. Cardinality(A \cup B) = Cardinality(A) + Cardinality(B) - Cardinality(A \cap B)
  BY <1>4, FS_Union
<1>6. Cardinality(A) \in Nat /\ Cardinality(B) \in Nat /\ Cardinality(A \cap B) = 0
  BY <1>3, <1>4, FS_CardinalityType, FS_EmptySet
<1>7. /\ OpenBetween(s, t) = Cardinality(A \cup B)
      /\ OpenBetween(s, m) = Cardinality(A) /\ OpenBetween(m, t) = Cardinality(B)
  BY <1>1, <1>2, <1>3 DEF OpenBetween
<1> QED  BY <1>5, <1>6, <1>7

(* A day that is open: until it closes, and from its closing to the next opening. *)
LEMMA OpenStretch ==
    ASSUME NEW c \in Nat, IsOpen(c)
    PROVE  \E e \in Nat :
              /\ e = endOfBusinessDay(c) /\ c < e
              /\ \A u \in Nat : c <= u /\ u < e => IsOpen(u) /\ endOfBusinessDay(u) = e
              /\ endOfBusinessDay(e) = e
              /\ e <= Following(c)
              /\ \A u \in Nat : e <= u /\ u < Following(c) => ~IsOpen(u)
<1>1. PICK n, x \in Nat : n = DayOf(c) /\ x < Day /\ c = Midnight(n) + x
  BY TimeOfDay
<1>2. PICK m \in Nat : m = Midnight(n)
  BY Midnights
<1>3. PICK S, E, D \in Nat : S = BUSINESS_START /\ E = BUSINESS_END /\ D = Day /\ S < E /\ E < D
  BY Hours
<1>4. OpenDay(n) /\ S <= x /\ x < E /\ endOfBusinessDay(c) = m + E
  <2>1. c = m + x /\ x < D
    BY <1>1, <1>2, <1>3
  <2>2. /\ endOfBusinessDay(m + x) = m + E
        /\ IsOpen(m + x) <=> OpenDay(n) /\ S <= x /\ x < E
    BY <1>1, <1>2, <1>3, DayHours
  <2> QED  BY <2>1, <2>2
<1>5. PICK e \in Nat : e = m + E
  OBVIOUS
<1>6. \A y \in Nat : y < D => /\ endOfBusinessDay(m + y) = m + E
                              /\ IsOpen(m + y) <=> OpenDay(n) /\ S <= y /\ y < E
  BY <1>1, <1>2, <1>3, DayHours
<1>7. ASSUME NEW u \in Nat, c <= u, u < e  PROVE IsOpen(u) /\ endOfBusinessDay(u) = e
  <2>1. PICK y \in Nat : y = u - m
    BY <1>1, <1>2, <1>7
  <2>2. u = m + y /\ S <= y /\ y < E /\ y < D
    BY <1>1, <1>2, <1>3, <1>4, <1>5, <1>7, <2>1
  <2> QED  BY <1>4, <1>5, <1>6, <2>2
<1>8. endOfBusinessDay(e) = e
  BY <1>3, <1>5, <1>6
<1>9. PICK d \in Nat : d = nextDay(c) /\ d = m + D + S
  <2>1. Midnight(n + 1) = m + D
    BY <1>2, <1>3, Midnights
  <2>2. nextDay(c) = Midnight(n + 1) + S
    BY <1>1, <1>3, DayHours
  <2> QED  BY <2>1, <2>2
<1>10. PICK f : f = Following(c)
  OBVIOUS
<1>11. f \in Nat /\ d <= f /\ \A u \in Nat : d <= u /\ u < f => ~IsOpen(u)
  BY <1>9, <1>10, NextOpen DEF Following
<1>12. e <= f
  BY <1>3, <1>5, <1>9, <1>11
<1>13. ASSUME NEW u \in Nat, e <= u, u < f  PROVE ~IsOpen(u)
  <2>1. CASE d <= u
    BY <1>11, <1>13, <2>1
  <2>2. CASE u < d /\ u < m + D
    <3>1. PICK y \in Nat : y = u - m
      BY <1>5, <1>13
    <3>2. u = m + y /\ E <= y /\ y < D
      BY <1>5, <1>13, <2>2, <3>1
    <3> QED  BY <1>6, <3>2
  <2>3. CASE u < d /\ m + D <= u
    <3>1. PICK y \in Nat : y = u - (m + D)
      BY <2>3
    <3>2. u = (m + D) + y /\ y < S /\ y < D
      BY <1>3, <1>9, <2>3, <3>1
    <3>3. Midnight(n + 1) = m + D /\ n + 1 \in Nat
      BY <1>2, <1>3, Midnights
    <3>4. IsOpen(u) <=> OpenDay(n + 1) /\ S <= y /\ y < E
      BY <1>3, <3>2, <3>3, DayHours
    <3> QED  BY <3>2, <3>4
  <2> QED  BY <2>1, <2>2, <2>3
<1>14. c < e
  BY <1>1, <1>2, <1>4, <1>5
<1> QED  BY <1>4, <1>5, <1>7, <1>8, <1>10, <1>12, <1>13, <1>14

(* What a day gives, in whole minutes.                                          *)
LEMMA DayGives ==
    ASSUME NEW c \in Nat, NEW e \in Nat, e = endOfBusinessDay(c), c <= e
    PROVE  \E more \in 0..(Minute - 1) :
              Available(c) \in Nat /\ e = c + Available(c) * Minute + more
<1>1. PICK M \in Nat \ {0} : M = Minute
  BY Minutes
<1>2. PICK k \in Nat : k = e - c
  OBVIOUS
<1>3. PICK q \in Nat : q = k \div M
  OBVIOUS
<1>4. PICK more \in 0..(M - 1) : more = k % M
  OBVIOUS
<1>5. k = M * q + more
  BY <1>3, <1>4
<1>6. M * q = q * M
  OBVIOUS
<1>7. Available(c) = q
  BY <1>1, <1>2, <1>3 DEF Available
<1>8. PICK z \in Nat : z = q * M
  OBVIOUS
<1>9. e = c + z + more
  BY <1>2, <1>5, <1>6, <1>8
<1> QED  BY <1>1, <1>4, <1>7, <1>8, <1>9

(* What a deadline r minutes after c must be, `more' instants of the day of c left over. *)
Due(c, r, more) ==
    LET due == Advance[c][r] IN
    /\ due \in Nat /\ c + r * Minute <= due
    /\ OpenBetween(c, due) = r * Minute + more
    /\ due <= Advance[c][r + 1]
    /\ IsOpen(due) \/ due = endOfBusinessDay(due)

LEMMA FirstDay ==
    ASSUME NEW c \in Nat, IsOpen(c), NEW r \in Nat, r <= Available(c)
    PROVE  Due(c, r, 0)
<1>1. PICK e \in Nat :
              /\ e = endOfBusinessDay(c) /\ c < e
              /\ \A u \in Nat : c <= u /\ u < e => IsOpen(u) /\ endOfBusinessDay(u) = e
              /\ endOfBusinessDay(e) = e /\ e <= Following(c)
  BY OpenStretch
<1>2. PICK M \in Nat \ {0} : M = Minute
  BY Minutes
<1>3. PICK A \in Nat : A = Available(c) /\ c + A * M <= e
  <2>1. PICK more \in 0..(Minute - 1) : Available(c) \in Nat /\ e = c + Available(c) * Minute + more
    BY <1>1, DayGives
  <2>2. PICK A \in Nat : A = Available(c)
    BY <2>1
  <2>3. PICK z \in Nat : z = A * M
    BY <1>2
  <2>4. e = c + z + more /\ more \in Nat
    BY <1>2, <2>1, <2>2, <2>3
  <2> QED  BY <2>2, <2>3, <2>4
<1>4. PICK z, a \in Nat : z = r * M /\ a = A * M
  <2>1. r * M \in Nat /\ A * M \in Nat
    BY <1>2, <1>3, Times
  <2> QED  BY <2>1
<1>5. z <= a /\ (r + 1) * M = z + M
  BY <1>2, <1>3, <1>4, Times
<1>6. PICK due \in Nat : due = c + z
  OBVIOUS
<1>7. Advance[c][r] = due
  <2>1. Advance[c][r] = IF r = 0 THEN c ELSE IF r <= Available(c) THEN c + r * Minute
                        ELSE Advance[Following(c)][r - Available(c)]
    BY AdvanceIs
  <2>2. CASE r = 0
    <3>1. z = 0
      BY <1>2, <1>4, <2>2
    <3> QED  BY <1>6, <2>1, <2>2, <3>1
  <2>3. CASE r # 0
    BY <1>2, <1>4, <1>6, <2>1, <2>3
  <2> QED  BY <2>2, <2>3
<1>8. c <= due /\ due <= e
  BY <1>3, <1>4, <1>5, <1>6
<1>9. OpenBetween(c, due) = z
  <2>1. \A u \in Nat : c <= u /\ u < due => IsOpen(u)
    BY <1>1, <1>8
  <2>2. OpenBetween(c, due) = due - c
    BY <1>8, <2>1, Counts
  <2> QED  BY <1>6, <2>2
<1>10. IsOpen(due) \/ due = endOfBusinessDay(due)
  <2>1. due < e \/ due = e
    BY <1>8
  <2> QED  BY <1>1, <1>8, <2>1
<1>11. due <= Advance[c][r + 1]
  <2>1. PICK k \in Nat : k = r + 1 /\ k * Minute = z + M
    <3>1. r + 1 \in Nat /\ (r + 1) * Minute = z + M
      BY <1>2, <1>5
    <3> QED  BY <3>1
  <2>2. Advance[c][k] = IF k = 0 THEN c ELSE IF k <= Available(c) THEN c + k * Minute
                        ELSE Advance[Following(c)][k - Available(c)]
    BY AdvanceIs
  <2>3. CASE k <= A
    <3>1. Advance[c][k] = c + (z + M)
      BY <1>3, <2>1, <2>2, <2>3
    <3> QED  BY <1>6, <2>1, <3>1
  <2>4. CASE ~(k <= A)
    <3>1. r = A /\ k - A = 1 /\ k # 0
      <4>1. r <= A
        BY <1>3
      <4> QED  BY <2>1, <2>4, <4>1
    <3>2. PICK f \in Nat : f = Following(c) /\ AtOpening(f)
      BY FollowingOpens
    <3>3. Advance[c][k] = Advance[f][1]
      BY <1>3, <2>2, <2>4, <3>1, <3>2
    <3>4. Available(f) \in Nat /\ 1 <= Available(f)
      BY <3>2, OpeningHour, Minutes
    <3>5. Advance[f][1] = IF 1 = 0 THEN f ELSE IF 1 <= Available(f) THEN f + 1 * Minute
                          ELSE Advance[Following(f)][1 - Available(f)]
      BY AdvanceIs
    <3>6. Advance[f][1] = f + M
      BY <1>2, <3>4, <3>5
    <3> QED  BY <1>1, <1>8, <2>1, <3>2, <3>3, <3>6
  <2> QED  BY <2>3, <2>4
<1> QED  BY <1>2, <1>4, <1>6, <1>7, <1>9, <1>10, <1>11 DEF Due

LEMMA LaterDays ==
    ASSUME NEW c \in Nat, IsOpen(c), NEW r \in Nat, NEW A \in Nat, A = Available(c), r > A,
           NEW more \in Nat, endOfBusinessDay(c) = c + A * Minute + more,
           Due(Following(c), r - A, 0)
    PROVE  Due(c, r, more)
<1>1. PICK e \in Nat :
              /\ e = endOfBusinessDay(c) /\ c < e
              /\ \A u \in Nat : c <= u /\ u < e => IsOpen(u)
              /\ e <= Following(c)
              /\ \A u \in Nat : e <= u /\ u < Following(c) => ~IsOpen(u)
  BY OpenStretch
<1>2. PICK M \in Nat \ {0} : M = Minute
  BY Minutes
<1>3. PICK f \in Nat : f = Following(c)
  BY FollowingOpens
<1>4. PICK q \in Nat : q = r - A /\ q # 0
  OBVIOUS
<1>5. PICK z, a, y \in Nat : z = r * M /\ a = A * M /\ y = q * M
  <2>1. r * M \in Nat /\ A * M \in Nat /\ q * M \in Nat
    BY <1>2, <1>4, Times
  <2> QED  BY <2>1
<1>6. y = z - a
  BY <1>2, <1>4, <1>5, Times
<1>7. PICK due \in Nat :
           /\ due = Advance[f][q] /\ f + y <= due /\ OpenBetween(f, due) = y
           /\ due <= Advance[f][q + 1]
           /\ IsOpen(due) \/ due = endOfBusinessDay(due)
  <2>1. Due(f, q, 0)
    BY <1>3, <1>4
  <2>2. y + 0 = y
    OBVIOUS
  <2> QED  BY <1>2, <1>5, <2>1, <2>2 DEF Due
<1>8. Advance[c][r] = due
  <2>1. Advance[c][r] = IF r = 0 THEN c ELSE IF r <= Available(c) THEN c + r * Minute
                        ELSE Advance[Following(c)][r - Available(c)]
    BY AdvanceIs
  <2>2. r # 0 /\ ~(r <= Available(c))
    OBVIOUS
  <2> QED  BY <1>3, <1>4, <1>7, <2>1, <2>2
<1>9. Advance[c][r + 1] = Advance[f][q + 1]
  <2>1. /\ r + 1 \in Nat
        /\ Advance[c][r + 1] = IF r + 1 = 0 THEN c ELSE IF r + 1 <= Available(c) THEN c + (r + 1) * Minute
                               ELSE Advance[Following(c)][r + 1 - Available(c)]
    <3>1. PICK k \in Nat : k = r + 1
      OBVIOUS
    <3>2. Advance[c][k] = IF k = 0 THEN c ELSE IF k <= Available(c) THEN c + k * Minute
                          ELSE Advance[Following(c)][k - Available(c)]
      BY AdvanceIs
    <3> QED  BY <3>1, <3>2
  <2>2. r + 1 # 0 /\ ~(r + 1 <= Available(c)) /\ r + 1 - A = q + 1
    BY <1>4
  <2> QED  BY <1>3, <2>1, <2>2
<1>10. e = c + a + more
  BY <1>1, <1>2, <1>5
<1>11. c <= e /\ e <= f /\ f <= due
  BY <1>1, <1>3, <1>7
<1>12. OpenBetween(c, e) = e - c
  BY <1>1, Counts
<1>13. OpenBetween(e, f) = 0
  BY <1>1, <1>3, Counts
<1>14. OpenBetween(c, due) = z + more
  <2>1. OpenBetween(c, due) = OpenBetween(c, e) + OpenBetween(e, due)
    BY <1>11, CountsAdd
  <2>2. OpenBetween(e, due) = OpenBetween(e, f) + OpenBetween(f, due)
    BY <1>11, CountsAdd
  <2> QED  BY <1>6, <1>7, <1>10, <1>12, <1>13, <2>1, <2>2
<1>15. c + z <= due
  BY <1>6, <1>7, <1>10, <1>11
<1> QED  BY <1>2, <1>5, <1>7, <1>8, <1>9, <1>14, <1>15 DEF Due

(* From the opening of a day, by induction on the minutes: a whole day is taken off them *)
(* at each turn.                                                                      *)
LEMMA FromOpening ==
    \A r \in Nat : \A c : AtOpening(c) => Due(c, r, 0)
<1> DEFINE T == {n \in Nat : \A r \in Nat : r <= n => \A c : AtOpening(c) => Due(c, r, 0)}
<1>1. ASSUME NEW r \in Nat, NEW c, AtOpening(c),
             \A q \in Nat : q < r => \A b : AtOpening(b) => Due(b, q, 0)
      PROVE  Due(c, r, 0)
  <2>1. c \in Nat /\ IsOpen(c) /\ Available(c) = DayMinutes /\ endOfBusinessDay(c) = c + DayMinutes * Minute
    BY <1>1, OpeningHour
  <2>2. PICK W \in Nat \ {0} : W = DayMinutes
    BY Minutes
  <2>3. CASE r <= W
    BY <2>1, <2>2, <2>3, FirstDay
  <2>4. CASE r > W
    <3>1. PICK q \in Nat : q = r - W /\ q < r
      BY <2>2, <2>4
    <3>2. AtOpening(Following(c))
      BY <2>1, FollowingOpens
    <3>3. Due(Following(c), q, 0)
      BY <1>1, <3>1, <3>2
    <3>4. PICK z \in Nat : z = W * Minute
      BY <2>2, Minutes
    <3>5. c + z = c + z + 0
      BY <2>1
    <3>6. endOfBusinessDay(c) = c + W * Minute + 0 /\ W = Available(c)
      BY <2>1, <2>2, <3>4, <3>5
    <3> QED  BY <2>1, <2>4, <3>1, <3>3, <3>6, LaterDays
  <2> QED  BY <2>2, <2>3, <2>4
<1>2. 0 \in T
  <2>1. ASSUME NEW r \in Nat, r <= 0, NEW c, AtOpening(c)  PROVE Due(c, r, 0)
    <3>1. \A q \in Nat : q < r => \A b : AtOpening(b) => Due(b, q, 0)
      BY <2>1
    <3> QED  BY <1>1, <2>1, <3>1
  <2> QED  BY <2>1
<1>3. ASSUME NEW n \in Nat, n \in T  PROVE n + 1 \in T
  <2>1. ASSUME NEW r \in Nat, r <= n + 1, NEW c, AtOpening(c)  PROVE Due(c, r, 0)
    <3>1. \A q \in Nat : q < r => q <= n
      BY <2>1
    <3>2. \A q \in Nat : q < r => \A b : AtOpening(b) => Due(b, q, 0)
      BY <1>3, <3>1
    <3> QED  BY <1>1, <2>1, <3>2
  <2> QED  BY <2>1
<1>4. Nat \subseteq T
  <2> HIDE DEF T
  <2> QED  BY <1>2, <1>3, EveryNumber
<1>5. \A n \in Nat : n \in T /\ n <= n
  BY <1>4
<1> QED  BY <1>5

(* From any start: the opening that follows it is open already, or opens a day.          *)
LEMMA FromStart ==
    ASSUME NEW s \in Nat, NEW r \in Nat
    PROVE  LET c == nextBusinessInstant(s) IN
           /\ c \in Nat /\ s <= c /\ OpenBetween(s, c) = 0
           /\ \E more \in Nat : more < Minute /\ Due(c, r, more)
<1>1. PICK c : c = nextBusinessInstant(s)
  OBVIOUS
<1>2. c \in Nat /\ s <= c /\ IsOpen(c) /\ \A u \in Nat : s <= u /\ u < c => ~IsOpen(u)
  BY <1>1, NextOpen
<1>3. OpenBetween(s, c) = 0
  BY <1>2, Counts
<1>4. PICK e \in Nat : e = endOfBusinessDay(c) /\ c < e
  BY <1>2, OpenStretch
<1>5. PICK more \in 0..(Minute - 1) : Available(c) \in Nat /\ e = c + Available(c) * Minute + more
  BY <1>2, <1>4, DayGives
<1>6. Minute \in Nat \ {0} /\ more \in Nat /\ more < Minute /\ 0 \in Nat /\ 0 < Minute
  BY <1>5, Minutes
<1>7. CASE r <= Available(c)
  <2>1. Due(c, r, 0)
    BY <1>2, <1>7, FirstDay
  <2> QED  BY <1>1, <1>2, <1>3, <1>6, <2>1
<1>8. CASE r > Available(c)
  <2>1. PICK A \in Nat : A = Available(c)
    BY <1>5
  <2>2. endOfBusinessDay(c) = c + A * Minute + more
    BY <1>4, <1>5, <2>1
  <2>3. r - A \in Nat /\ AtOpening(Following(c))
    BY <1>2, <1>8, <2>1, FollowingOpens
  <2>4. Due(Following(c), r - A, 0)
    BY <2>3, FromOpening
  <2>5. Due(c, r, more)
    BY <1>2, <1>6, <1>8, <2>1, <2>2, <2>4, LaterDays
  <2> QED  BY <1>1, <1>2, <1>3, <1>6, <2>5
<1>9. r <= Available(c) \/ r > Available(c)
  BY <1>5
<1> QED  BY <1>7, <1>8, <1>9

(* What a deadline is due, for any start and any target: addBusinessMinutes of sla.ts.    *)
LEMMA DeadlineIs ==
    ASSUME NEW s \in Nat, NEW r \in Nat
    PROVE  LET due == addBusinessMinutes(s, r)
               open == OpenBetween(s, due)
           IN  /\ due \in Nat
               /\ r * Minute <= open
               /\ open < (r + 1) * Minute
               /\ s + r * Minute <= due
               /\ due <= addBusinessMinutes(s, r + 1)
               /\ IsOpen(due) \/ due = endOfBusinessDay(due)
<1>1. PICK c \in Nat : c = nextBusinessInstant(s) /\ s <= c /\ OpenBetween(s, c) = 0
  BY FromStart
<1>2. PICK more \in Nat : more < Minute /\ Due(c, r, more)
  BY <1>1, FromStart
<1>3. PICK M, z \in Nat : M = Minute /\ z = r * Minute /\ (r + 1) * Minute = z + M
  <2>1. Minute \in Nat /\ r * Minute \in Nat /\ (r + 1) * Minute = r * Minute + Minute
    BY Times, Minutes
  <2> QED  BY <2>1
<1>4. PICK due \in Nat :
           /\ due = Advance[c][r] /\ c + z <= due /\ OpenBetween(c, due) = z + more
           /\ due <= Advance[c][r + 1]
           /\ IsOpen(due) \/ due = endOfBusinessDay(due)
  BY <1>2, <1>3 DEF Due
<1>5. due = addBusinessMinutes(s, r) /\ due <= addBusinessMinutes(s, r + 1)
  BY <1>1, <1>4 DEF addBusinessMinutes
<1>6. PICK open \in Nat : open = OpenBetween(s, due) /\ open = z + more
  <2>1. c <= due
    BY <1>1, <1>3, <1>4
  <2>2. OpenBetween(s, due) = OpenBetween(s, c) + OpenBetween(c, due)
    BY <1>1, <2>1, CountsAdd
  <2> QED  BY <1>1, <1>2, <1>3, <1>4, <2>2
<1>7. z <= open /\ open < z + M /\ s + z <= due
  BY <1>1, <1>2, <1>3, <1>4, <1>6
<1> QED  BY <1>3, <1>4, <1>5, <1>6, <1>7

-----------------------------------------------------------------------------
(* A request of the run asks for a start and for a target, each within its bound.         *)
AskedFits == asked \in [start : 0..MaxStart, minutes : 0..MaxMinutes]

LEMMA AskedHolds == SlaSpec => []AskedFits
<1>1. SlaInit => AskedFits
  BY CalendarAssumption DEF SlaInit, AskedFits
<1>2. AskedFits /\ [Lengthen]_asked => AskedFits'
  BY CalendarAssumption DEF AskedFits, Lengthen
<1> QED  BY <1>1, <1>2, PTL DEF SlaSpec

(* A deadline leaves the open minutes of its target, less than one of them apart, and      *)
(* grows with the target: addBusinessMinutes, for any calendar, start and target.           *)
THEOREM DeadlinesLeaveTheirMinutes == SlaSpec => []DeadlineLeavesItsMinutes
<1>1. AskedFits => DeadlineLeavesItsMinutes
  <2> SUFFICES ASSUME AskedFits  PROVE DeadlineLeavesItsMinutes
    OBVIOUS
  <2>1. asked.start \in Nat /\ asked.minutes \in Nat
    BY CalendarAssumption DEF AskedFits
  <2> QED  BY <2>1, DeadlineIs DEF DeadlineLeavesItsMinutes
<1> QED  BY <1>1, AskedHolds, PTL

(* What the engine takes for granted of the calendar, CalendarSound of            *)
(* TransitionEngine, the calendar of sla.ts gives: addBusinessMinutes.             *)
THEOREM DeadlinesAreNeverEarly ==
    \A t, m \in Nat : /\ addBusinessMinutes(t, m) \in Nat
                      /\ addBusinessMinutes(t, m) >= t + m * Minute
<1> SUFFICES ASSUME NEW t \in Nat, NEW m \in Nat
             PROVE  /\ addBusinessMinutes(t, m) \in Nat
                    /\ addBusinessMinutes(t, m) >= t + m * Minute
  OBVIOUS
<1>1. PICK due \in Nat : due = addBusinessMinutes(t, m) /\ t + m * Minute <= due
  BY DeadlineIs
<1>2. PICK z \in Nat : z = m * Minute
  BY Minutes, Times
<1> QED  BY <1>1, <1>2

-----------------------------------------------------------------------------
USE SubmissionAssumption, SubmissionNull

LEMMA Phases ==
    \A x \in Creation : /\ x.phase = "idle" <=> x \in Idle
                        /\ x.phase = "received" <=> x \in Received
                        /\ x.phase = "checked" <=> x \in Checked
                        /\ x.phase = "begun" <=> x \in Begun
                        /\ x.phase = "numbered" <=> x \in Numbered
                        /\ x \in Idle \/ x \in Received \/ x \in Checked \/ x \in Begun \/ x \in Numbered
BY DEF Creation, Idle, Received, Checked, Begun, Numbered

LEMMA Disjoint ==
    \A x : /\ x \in Idle => x \notin Received \cup Checked \cup Begun \cup Numbered
           /\ x \in Received => x \notin Checked \cup Begun \cup Numbered
           /\ x \in Checked => x \notin Begun \cup Numbered
           /\ x \in Begun => x \notin Numbered
BY DEF Creation, Idle, Received, Checked, Begun, Numbered

(* What the form has under way and what it gave birth to can be counted.         *)
LEMMA FormCounted ==
    ASSUME SubmissionTyped
    PROVE  /\ IsFiniteSet(InFlight) /\ Cardinality(InFlight) \in Nat
           /\ IsFiniteSet(ByForm) /\ Cardinality(ByForm) \in Nat
<1>1. InFlight \subseteq FormCalls /\ ByForm \subseteq stored
  BY DEF InFlight, ByForm
<1>2. IsFiniteSet(InFlight) /\ IsFiniteSet(ByForm)
  BY <1>1, FS_Subset DEF SubmissionTyped
<1> QED  BY <1>2, FS_CardinalityType

(* A form that has something under way is not between two steps.                 *)
LEMMA NotSubmitting ==
    ASSUME SubmissionInv, form.phase = "editing", Step \notin {"description", "review"}
    PROVE  ~submitting
BY DEF SubmissionInv, SentAsHeld

LEMMA SubmissionStarts == SubmissionInit => SubmissionInv
<1> SUFFICES ASSUME SubmissionInit  PROVE SubmissionInv
  OBVIOUS
<1> USE DEF SubmissionInit
<1>1. catalog \in Catalog
  BY CatalogsAssumption DEF Catalog
<1>2. form \in FormState
  BY DEF FormState, Impacts
<1>3. call \in [Callers -> Creation] /\ \A c \in Callers : call[c] \in Idle
  BY DEF Creation, Idle
<1>4. IsFiniteSet(stored) /\ Cardinality(stored) = 0
  BY FS_EmptySet
<1>5. SubmissionTyped
  BY <1>1, <1>2, <1>3, <1>4 DEF SubmissionTyped
<1>6. NumbersFollow
  <2>1. ASSUME NEW day \in 1..MaxDay  PROVE NumberedTo(day, counter[day])
    <3>1. StoredOn(day) = {} /\ counter[day] = 0
      BY <2>1 DEF StoredOn
    <3>2. {r.ref[2] : r \in StoredOn(day)} = 1..0
      BY <3>1
    <3>3. 0 < Limit
      BY LimitAssumption
    <3> QED  BY <1>4, <3>1, <3>2, <3>3 DEF NumberedTo
  <2> QED  BY <1>3, <2>1, Disjoint DEF NumbersFollow
<1>7. ByForm = {} /\ InFlight = {} /\ ~submitting
  BY DEF ByForm, InFlight, submitting
<1>8. SentOnce
  BY <1>7, FS_EmptySet DEF SentOnce
<1> QED  BY <1>3, <1>5, <1>6, <1>7, <1>8 DEF SubmissionInv, ChoicesShown, SentAsHeld, Agreed

(* What is kept while only the form changes, and stays open; while it is being sent, *)
(* only the description does.                                                *)
LEMMA FormEdited ==
    ASSUME SubmissionInv, form.phase = "editing", form' \in FormState, form'.phase = "editing",
           form'.seen = form.seen, form'.current <=> form.current, form'.refused = form.refused,
           submitting => /\ form'.category = form.category /\ form'.impact = form.impact
                         /\ form'.bug = form.bug /\ form'.stepIdx = form.stepIdx,
           ChoicesShown', UNCHANGED <<catalog, call, counter, today, stored, left, lost, again>>
    PROVE  SubmissionInv'
<1> USE DEF SubmissionInv
<1>1. SubmissionTyped'
  BY DEF SubmissionTyped
<1>2. NumbersFollow'
  BY DEF NumbersFollow, NumberedTo, StoredOn
<1>3. InFlight' = InFlight /\ ByForm' = ByForm /\ (submitting' <=> submitting)
  BY DEF InFlight, ByForm, submitting
<1>4. SentOnce'
  BY <1>3 DEF SentOnce
<1>5. SentAsHeld'
  <2>1. InFlight # {} => submitting
    BY DEF submitting
  <2>2. submitting => Step' = Step
    BY DEF Step, Steps, isBug
  <2> QED  BY <1>3, <2>1, <2>2 DEF SentAsHeld, Dto
<1>6. Agreed'
  BY <1>3 DEF Agreed, ShowsTheCatalog
<1> QED  BY <1>1, <1>2, <1>4, <1>5, <1>6

LEMMA CategoryStepKeeps == ASSUME SubmissionInv, CategoryStep  PROVE SubmissionInv'
<1> USE DEF SubmissionInv
<1>1. PICK c \in Categories : form.seen.category[c].state = "active" /\ Edit(onCategoryChange(c))
  BY DEF CategoryStep
<1>2. form.phase = "editing" /\ form \in FormState /\ ChoicesShown
  BY DEF CategoryStep, On, SubmissionTyped
<1>3. form.stepIdx = 1
  <2>1. Steps[form.stepIdx] = "category" /\ form.stepIdx \in 1..5
    BY <1>2 DEF CategoryStep, On, Step, FormState
  <2> QED  BY <1>2, <2>1 DEF ChoicesShown, Steps
<1>4. EMPTY_BUG \in Bug /\ EMPTY_BUG.product = NULL /\ ~EMPTY_BUG.filled /\ EMPTY_BUG # NULL
  <2>1. EMPTY_BUG \in Bug
    BY DEF EMPTY_BUG, Bug
  <2> QED  BY <2>1 DEF EMPTY_BUG
<1>5. PICK asks \in BOOLEAN : asks <=> form.seen.category[c].requiresBugDetails
  OBVIOUS
<1>6. form' = [form EXCEPT !.category = c,
                           !.bug = IF ~asks THEN NULL ELSE IF @ = NULL THEN EMPTY_BUG ELSE @]
  BY <1>1, <1>5 DEF Edit, onCategoryChange
<1>7. /\ form' \in FormState /\ form'.phase = "editing" /\ form'.seen = form.seen
      /\ (form'.current <=> form.current) /\ form'.refused = form.refused
      /\ form'.category = c /\ c # NULL /\ form'.stepIdx = 1
      /\ form'.bug = IF ~asks THEN NULL ELSE IF form.bug = NULL THEN EMPTY_BUG ELSE form.bug
  BY <1>2, <1>3, <1>4, <1>6 DEF FormState
<1>8. isBug' <=> asks
  BY <1>5, <1>7 DEF isBug
<1>9. ChoicesShown'
  BY <1>1, <1>2, <1>4, <1>7, <1>8 DEF ChoicesShown
<1>10. UNCHANGED <<catalog, call, counter, today, stored, left, lost, again>>
  BY <1>1 DEF Edit
<1>11. ~submitting
  BY <1>2, NotSubmitting DEF CategoryStep, On
<1> QED  BY <1>2, <1>7, <1>9, <1>10, <1>11, FormEdited

LEMMA BugStepKeeps == ASSUME SubmissionInv, BugStep  PROVE SubmissionInv'
<1> USE DEF SubmissionInv
<1>1. form.phase = "editing" /\ form \in FormState /\ ChoicesShown
  BY DEF BugStep, On, SubmissionTyped
<1>2. isBug /\ form.bug \in Bug /\ form.bug # NULL
  <2>1. Steps[form.stepIdx] = "bug" /\ form.stepIdx \in 1..5
    BY <1>1 DEF BugStep, On, Step, FormState
  <2>2. isBug
    BY <1>1, <2>1 DEF ChoicesShown, Steps
  <2> QED  BY <1>1, <2>2 DEF ChoicesShown, FormState
<1>3. PICK b \in Bug : /\ Edit([form EXCEPT !.bug = b])
                       /\ b.product # form.bug.product =>
                             b.product \in Products /\ form.seen.product[b.product].state = "active"
                       /\ b.filled => b.product # NULL
  <2>1. CASE \E p \in Products : /\ form.seen.product[p].state = "active"
                                 /\ Edit([form EXCEPT !.bug.product = p, !.bug.filled = TRUE])
    <3>1. PICK p \in Products : /\ form.seen.product[p].state = "active"
                                /\ Edit([form EXCEPT !.bug.product = p, !.bug.filled = TRUE])
      BY <2>1
    <3> DEFINE b == [form.bug EXCEPT !.product = p, !.filled = TRUE]
    <3>2. b \in Bug /\ b.product = p /\ p # NULL
      BY <1>2 DEF Bug
    <3>3. [form EXCEPT !.bug.product = p, !.bug.filled = TRUE] = [form EXCEPT !.bug = b]
      BY <1>1, <1>2 DEF FormState, Bug
    <3> QED  BY <3>1, <3>2, <3>3
  <2>2. CASE Edit([form EXCEPT !.bug.isBlocking = ~@])
    <3> DEFINE b == [form.bug EXCEPT !.isBlocking = ~@]
    <3>1. b \in Bug /\ b.product = form.bug.product /\ (b.filled <=> form.bug.filled)
      BY <1>2 DEF Bug
    <3>2. [form EXCEPT !.bug.isBlocking = ~@] = [form EXCEPT !.bug = b]
      BY <1>1, <1>2 DEF FormState, Bug
    <3> QED  BY <1>1, <1>2, <2>2, <3>1, <3>2 DEF ChoicesShown
  <2>3. CASE Edit([form EXCEPT !.bug.environment = TRUE])
    <3> DEFINE b == [form.bug EXCEPT !.environment = TRUE]
    <3>1. b \in Bug /\ b.product = form.bug.product /\ (b.filled <=> form.bug.filled)
      BY <1>2 DEF Bug
    <3>2. [form EXCEPT !.bug.environment = TRUE] = [form EXCEPT !.bug = b]
      BY <1>1, <1>2 DEF FormState, Bug
    <3> QED  BY <1>1, <1>2, <2>3, <3>1, <3>2 DEF ChoicesShown
  <2> QED  BY <2>1, <2>2, <2>3 DEF BugStep
<1>4. /\ form' \in FormState /\ form'.phase = "editing" /\ form'.seen = form.seen
      /\ (form'.current <=> form.current) /\ form'.refused = form.refused
      /\ form'.category = form.category /\ form'.stepIdx = form.stepIdx /\ form'.bug = b
  BY <1>1, <1>3 DEF FormState, Edit
<1>5. isBug'
  BY <1>2, <1>4 DEF isBug
<1>6. ChoicesShown'
  BY <1>1, <1>2, <1>3, <1>4, <1>5 DEF ChoicesShown
<1>7. ~submitting
  BY <1>1, NotSubmitting DEF BugStep, On
<1> QED  BY <1>1, <1>3, <1>4, <1>6, <1>7, FormEdited DEF Edit

LEMMA OtherEditsKeep ==
    ASSUME SubmissionInv, DescriptionStep \/ ImpactStep \/ goNext \/ goBack  PROVE SubmissionInv'
<1> USE DEF SubmissionInv
<1>1. form.phase = "editing" /\ form \in FormState /\ ChoicesShown
  BY DEF DescriptionStep, ImpactStep, goNext, goBack, On, SubmissionTyped
<1>2. form.stepIdx \in 1..5 /\ (isBug \/ form.stepIdx <= 4)
  BY <1>1 DEF ChoicesShown, FormState
<1>3. PICK described \in BOOLEAN, impact \in Impacts, idx \in 1..5 :
          /\ Edit([form EXCEPT !.described = described, !.impact = impact, !.stepIdx = idx])
          /\ isBug \/ idx <= 4
          /\ submitting => impact = form.impact /\ idx = form.stepIdx
  <2>1. CASE DescriptionStep
    <3>1. [form EXCEPT !.described = TRUE] =
              [form EXCEPT !.described = TRUE, !.impact = form.impact, !.stepIdx = form.stepIdx]
      BY <1>1 DEF FormState
    <3> QED  BY <1>1, <1>2, <2>1, <3>1 DEF DescriptionStep, FormState
  <2>2. CASE ImpactStep
    <3>1. PICK i \in Impacts : Edit([form EXCEPT !.impact = i])
      BY <2>2 DEF ImpactStep, Impacts
    <3>2. [form EXCEPT !.impact = i] =
              [form EXCEPT !.described = form.described, !.impact = i, !.stepIdx = form.stepIdx]
      BY <1>1 DEF FormState
    <3>3. ~submitting
      BY <1>1, <2>2, NotSubmitting DEF ImpactStep, On
    <3> QED  BY <1>1, <1>2, <3>1, <3>2, <3>3 DEF FormState
  <2>3. CASE goNext
    <3>1. form.stepIdx + 1 \in 1..5 /\ (isBug \/ form.stepIdx + 1 <= 4)
      BY <1>2, <2>3 DEF goNext, Step, Steps
    <3>2. [form EXCEPT !.stepIdx = @ + 1] =
              [form EXCEPT !.described = form.described, !.impact = form.impact, !.stepIdx = form.stepIdx + 1]
      BY <1>1 DEF FormState
    <3> QED  BY <1>1, <2>3, <3>1, <3>2 DEF goNext, FormState
  <2>4. CASE goBack
    <3>1. form.stepIdx - 1 \in 1..5 /\ (isBug \/ form.stepIdx - 1 <= 4)
      BY <1>2, <2>4 DEF goBack
    <3>2. [form EXCEPT !.stepIdx = @ - 1] =
              [form EXCEPT !.described = form.described, !.impact = form.impact, !.stepIdx = form.stepIdx - 1]
      BY <1>1 DEF FormState
    <3> QED  BY <1>1, <2>4, <3>1, <3>2 DEF goBack, FormState
  <2> QED  BY <2>1, <2>2, <2>3, <2>4
<1>4. /\ form' \in FormState /\ form'.phase = "editing" /\ form'.seen = form.seen
      /\ (form'.current <=> form.current) /\ form'.refused = form.refused
      /\ form'.category = form.category /\ form'.stepIdx = idx /\ form'.bug = form.bug
      /\ form'.impact = impact
  BY <1>1, <1>3 DEF FormState, Edit
<1>5. isBug' <=> isBug
  BY <1>4 DEF isBug
<1>6. ChoicesShown'
  BY <1>1, <1>3, <1>4, <1>5 DEF ChoicesShown
<1> QED  BY <1>1, <1>3, <1>4, <1>6, FormEdited DEF Edit

LEMMA RedirectedKeeps == ASSUME SubmissionInv, Redirected  PROVE SubmissionInv'
<1> USE DEF SubmissionInv
<1>1. /\ form.phase = "leaving" /\ form \in FormState /\ form' = [form EXCEPT !.phase = "done"]
      /\ UNCHANGED <<catalog, call, counter, today, stored, left, lost, again>>
  BY DEF Redirected, Edit, SubmissionTyped
<1>2. /\ form' \in FormState /\ form'.phase = "done" /\ form'.seen = form.seen
      /\ (form'.current <=> form.current) /\ form'.refused = form.refused
      /\ form'.category = form.category /\ form'.impact = form.impact
      /\ form'.bug = form.bug /\ form'.stepIdx = form.stepIdx
  BY <1>1 DEF FormState
<1>3. SubmissionTyped' /\ NumbersFollow'
  BY <1>1, <1>2 DEF SubmissionTyped, NumbersFollow, NumberedTo, StoredOn
<1>4. InFlight' = InFlight /\ ByForm' = ByForm /\ submitting
  BY <1>1 DEF InFlight, ByForm, submitting
<1>5. SentOnce'
  BY <1>1, <1>2, <1>4 DEF SentOnce
<1>6. SentAsHeld'
  BY <1>1, <1>2, <1>4 DEF SentAsHeld, Dto, Step, Steps, isBug
<1>7. ChoicesShown'
  BY <1>1, <1>2 DEF ChoicesShown, isBug
<1>8. Agreed'
  BY <1>1, <1>2, <1>4 DEF Agreed, ShowsTheCatalog
<1> QED  BY <1>3, <1>5, <1>6, <1>7, <1>8

LEMMA NewRequestPageKeeps == ASSUME SubmissionInv, NewRequestPage  PROVE SubmissionInv'
<1> USE DEF SubmissionInv
<1>1. PICK categories \in BOOLEAN, products \in BOOLEAN :
          form' = [form EXCEPT !.phase = "editing", !.seen = Seen(categories, products), !.current = TRUE]
  BY DEF NewRequestPage
<1>2. /\ form.phase = "closed" /\ form \in FormState /\ catalog \in Catalog
      /\ UNCHANGED <<catalog, call, counter, today, stored, lost, again>>
  BY DEF NewRequestPage, SubmissionTyped
<1>3. /\ form.category = NULL /\ form.bug = NULL /\ form.stepIdx = 1
      /\ form.refused = NULL /\ ByForm = {} /\ InFlight = {} /\ ~submitting
  BY <1>2 DEF Agreed, SentAsHeld, submitting
<1>4. PICK seen \in Catalog :
          /\ seen = Seen(categories, products)
          /\ \A k \in Categories :
                seen.category[k].state = "active" => seen.category[k] = catalog.category[k]
          /\ \A p \in Products :
                seen.product[p].state = "active" => seen.product[p] = catalog.product[p]
  <2> DEFINE row(k) == IF categories THEN catalog.category[k]
                       ELSE [catalog.category[k] EXCEPT !.state = "removed"]
             line(p) == IF products THEN catalog.product[p]
                        ELSE [catalog.product[p] EXCEPT !.state = "removed"]
             seen == [category |-> [k \in Categories |-> row(k)], product |-> [p \in Products |-> line(p)]]
  <2>1. \A k \in Categories :
           row(k) \in Category /\ (row(k).state = "active" => row(k) = catalog.category[k])
    BY <1>2 DEF Catalog, Category
  <2>2. \A p \in Products :
           line(p) \in Product /\ (line(p).state = "active" => line(p) = catalog.product[p])
    BY <1>2 DEF Catalog, Product
  <2>3. seen = Seen(categories, products)
    BY DEF Seen
  <2> HIDE DEF row, line
  <2>4. seen \in Catalog
    BY <2>1, <2>2 DEF Catalog
  <2> QED  BY <2>1, <2>2, <2>3, <2>4
<1>5. /\ form' \in FormState /\ form'.phase = "editing" /\ form'.seen = seen
      /\ form'.category = NULL /\ form'.bug = NULL /\ form'.stepIdx = 1 /\ form'.refused = NULL
  BY <1>1, <1>2, <1>3, <1>4 DEF FormState
<1>6. SubmissionTyped' /\ NumbersFollow'
  BY <1>2, <1>5 DEF SubmissionTyped, NumbersFollow, NumberedTo, StoredOn
<1>7. InFlight' = InFlight /\ ByForm' = ByForm /\ ~submitting'
  BY <1>2, <1>3, <1>5 DEF InFlight, ByForm, submitting
<1>8. SentOnce' /\ SentAsHeld'
  BY <1>2, <1>3, <1>5, <1>7 DEF SentOnce, SentAsHeld
<1>9. ~isBug'
  BY <1>5 DEF isBug
<1>10. ChoicesShown'
  BY <1>5, <1>9 DEF ChoicesShown
<1>11. \A c \in FormCalls : call'[c] \notin Checked \cup Begun \cup Numbered
  BY <1>2, <1>3, Phases, Disjoint DEF InFlight, SubmissionTyped
<1>12. ShowsTheCatalog'
  BY <1>2, <1>4, <1>5 DEF ShowsTheCatalog
<1>13. Agreed'
  BY <1>3, <1>5, <1>7, <1>11, <1>12 DEF Agreed, Tolerated
<1> QED  BY <1>6, <1>8, <1>10, <1>13

LEMMA EditsKeep ==
    ASSUME SubmissionInv, (\E k \in Categories : EditCategory(k)) \/ (\E p \in Products : EditProduct(p))
    PROVE  SubmissionInv'
<1> USE DEF SubmissionInv
<1>1. catalog \in Catalog /\ form \in FormState
  BY DEF SubmissionTyped
<1>2. catalog' \in Catalog /\ form' = [form EXCEPT !.current = FALSE]
      /\ UNCHANGED <<call, counter, today, stored, lost, again>>
  BY <1>1 DEF EditCategory, EditProduct, Catalog
<1>3. /\ form' \in FormState /\ ~form'.current /\ form'.phase = form.phase /\ form'.seen = form.seen
      /\ form'.category = form.category /\ form'.bug = form.bug /\ form'.stepIdx = form.stepIdx
      /\ form'.impact = form.impact /\ form'.refused = form.refused
  BY <1>1, <1>2 DEF FormState
<1>4. SubmissionTyped' /\ NumbersFollow'
  BY <1>2, <1>3 DEF SubmissionTyped, NumbersFollow, NumberedTo, StoredOn
<1>5. InFlight' = InFlight /\ ByForm' = ByForm /\ (submitting' <=> submitting)
  BY <1>2, <1>3 DEF InFlight, ByForm, submitting
<1>6. isBug' <=> isBug
  BY <1>3 DEF isBug
<1>9. SentOnce' /\ SentAsHeld'
  BY <1>2, <1>3, <1>5, <1>6 DEF SentOnce, SentAsHeld, Dto, Step, Steps
<1>7. ChoicesShown'
  BY <1>3, <1>6 DEF ChoicesShown
<1>8. Agreed'
  BY <1>3, <1>5 DEF Agreed
<1> QED  BY <1>4, <1>7, <1>8, <1>9

LEMMA SubmitKeeps ==
    ASSUME SubmissionInv, NEW c \in Callers, submitRequestAction(c)  PROVE SubmissionInv'
<1> USE DEF SubmissionInv
<1>1. /\ form.phase \in {"editing", "leaving"} /\ form \in FormState /\ createRequestSchema
      /\ c \in FormCalls /\ call[c] \in Idle
      /\ form' = [form EXCEPT !.refused = NULL]
      /\ call' = Called(c, Dto(form.category, form.impact, form.bug))
      /\ UNCHANGED <<catalog, counter, today, stored, lost>>
  BY Phases DEF submitRequestAction, SubmissionTyped
<1>2. form.category # NULL /\ (form.bug # NULL => form.bug.filled)
  BY <1>1 DEF createRequestSchema, Valid
<1>3. /\ form' \in FormState /\ form'.phase = form.phase /\ form'.seen = form.seen
      /\ form'.category = form.category /\ form'.bug = form.bug /\ form'.stepIdx = form.stepIdx
      /\ form'.impact = form.impact /\ form'.refused = NULL /\ (form'.current <=> form.current)
  BY <1>1 DEF FormState
<1>4. PICK dto \in SentDto : dto = Dto(form.category, form.impact, form.bug)
  BY <1>1, <1>2 DEF Dto, SentDto, FormState
<1>5. /\ call' \in [Callers -> Creation] /\ call'[c] \in Received /\ call'[c].dto = dto
      /\ \A d \in Callers \ {c} : call'[d] = call[d]
  <2>1. [phase |-> "received", dto |-> dto] \in Received
    BY DEF Received
  <2>2. Received \subseteq Creation
    BY DEF Creation
  <2> QED  BY <1>1, <1>4, <2>1, <2>2 DEF Called, SubmissionTyped
<1>6. /\ Step \in {"description", "review"} /\ again' \in Nat /\ again' >= again
      /\ submitting => again' = again + 1
  BY <1>1 DEF submitRequestAction, sendsBy, SubmissionTyped
<1>7. SubmissionTyped'
  BY <1>1, <1>3, <1>5, <1>6 DEF SubmissionTyped
<1>8. NumbersFollow'
  BY <1>1, <1>5, Disjoint DEF NumbersFollow, NumberedTo, StoredOn
<1>9. InFlight' = InFlight \cup {c} /\ c \notin InFlight /\ ByForm' = ByForm /\ submitting'
  BY <1>1, <1>5, Phases, Disjoint, SubmissionAssumption DEF InFlight, ByForm, submitting, SubmissionTyped, Creation
<1>10. SentOnce'
  <2>1. PICK F : F = InFlight
    OBVIOUS
  <2>2. Cardinality(F \cup {c}) = Cardinality(F) + 1
    BY <1>9, <2>1, FormCounted, FS_AddElement
  <2>3. Cardinality(InFlight') = Cardinality(InFlight) + 1
    BY <1>9, <2>1, <2>2
  <2>4. lost \in Nat /\ again \in Nat /\ Cardinality(InFlight) \in Nat /\ Cardinality(ByForm) \in Nat
    BY FormCounted DEF SubmissionTyped
  <2>5. Cardinality(ByForm) + Cardinality(InFlight) <= lost + again + IF submitting THEN 1 ELSE 0
    BY <1>1 DEF SentOnce
  <2> QED  BY <1>1, <1>6, <1>9, <2>3, <2>4, <2>5 DEF SentOnce
<1>11. isBug' <=> isBug
  BY <1>3 DEF isBug
<1>12. SentAsHeld'
  <2>1. Dto(form.category, form.impact, form.bug)' = dto
    BY <1>3, <1>4 DEF Dto
  <2>2. \A d \in InFlight' : call'[d].dto = dto
    BY <1>4, <1>5, <1>9, SubmissionAssumption DEF SentAsHeld, InFlight
  <2>3. Step' = Step
    BY <1>3, <1>11 DEF Step, Steps
  <2> QED  BY <1>1, <1>2, <1>3, <1>6, <2>1, <2>2, <2>3 DEF SentAsHeld
<1>13. ChoicesShown'
  BY <1>1, <1>3, <1>11 DEF ChoicesShown
<1>14. Agreed'
  BY <1>1, <1>3, <1>5, <1>9, Disjoint, SubmissionAssumption DEF Agreed, ShowsTheCatalog, Tolerated
<1> QED  BY <1>7, <1>8, <1>10, <1>12, <1>13, <1>14

(* A creation moves on, without a word to its caller yet.                      *)
LEMMA CallMoves ==
    ASSUME SubmissionInv, NEW c \in Callers, NEW now \in Creation,
           call' = [call EXCEPT ![c] = now],
           UNCHANGED <<catalog, form, counter, today, stored, lost, again>>,
           c \in FormCalls => call[c] \notin Idle /\ now \notin Idle /\ now.dto = call[c].dto,
           now \in Numbered =>
               /\ now.number = counter[now.day] + 1
               /\ \A d \in Callers \ {c} : call[d] \in Numbered => call[d].day # now.day,
           c \in FormCalls /\ form.phase # "closed" /\ form.current /\ now \in Checked \cup Begun \cup Numbered =>
               (now.details <=> now.dto.bug # NULL)
    PROVE  SubmissionInv'
<1> USE DEF SubmissionInv
<1>1. /\ call' \in [Callers -> Creation] /\ call'[c] = now
      /\ \A d \in Callers \ {c} : call'[d] = call[d]
  BY DEF SubmissionTyped
<1>2. SubmissionTyped'
  BY <1>1 DEF SubmissionTyped
<1>3. NumbersFollow'
  BY <1>1 DEF NumbersFollow, NumberedTo, StoredOn
<1>4. InFlight' = InFlight /\ ByForm' = ByForm /\ (submitting' <=> submitting)
  BY <1>1, Phases, SubmissionAssumption DEF InFlight, ByForm, submitting, SubmissionTyped
<1>5. isBug' <=> isBug
  BY DEF isBug
<1>6. SentOnce'
  BY <1>4 DEF SentOnce
<1>7. SentAsHeld'
  <2>1. \A d \in InFlight : call'[d].dto = call[d].dto
    BY <1>1, SubmissionAssumption DEF InFlight
  <2> QED  BY <1>4, <1>5, <2>1 DEF SentAsHeld, Dto, Step, Steps
<1>8. ChoicesShown'
  BY <1>5 DEF ChoicesShown
<1>9. Agreed'
  <2>1. \A d \in FormCalls : d = c \/ call'[d] = call[d]
    BY <1>1, SubmissionAssumption
  <2> QED  BY <1>1, <1>4, <2>1 DEF Agreed, ShowsTheCatalog
<1> QED  BY <1>2, <1>3, <1>6, <1>7, <1>8, <1>9

LEMMA PostKeeps == ASSUME SubmissionInv, NEW c \in Callers, Post(c)  PROVE SubmissionInv'
<1> USE DEF SubmissionInv
<1> DEFINE details(p) == [EMPTY_BUG EXCEPT !.product = p, !.filled = TRUE, !.environment = TRUE]
<1>1. PICK k \in Categories, p \in Products, filled \in BOOLEAN :
          call' = Called(c, Dto(k, "BLOCAGE", IF filled THEN details(p) ELSE NULL))
  BY DEF Post
<1>2. details(p) \in Bug
  BY DEF EMPTY_BUG, Bug
<1>3. Dto(k, "BLOCAGE", IF filled THEN details(p) ELSE NULL) \in SentDto
  BY <1>2 DEF Dto, SentDto, Impacts
<1>4. PICK now \in Received : call' = [call EXCEPT ![c] = now]
  BY <1>1, <1>3 DEF Called, Received
<1>5. now \in Creation /\ now \notin Checked \cup Begun \cup Numbered
  BY Disjoint DEF Creation
<1>6. c \notin FormCalls /\ UNCHANGED <<catalog, form, counter, today, stored, lost, again>>
  BY DEF Post
<1> QED  BY <1>4, <1>5, <1>6, CallMoves

LEMMA BeginKeeps == ASSUME SubmissionInv, NEW c \in Callers, BeginTransaction(c)  PROVE SubmissionInv'
<1> USE DEF SubmissionInv
<1>1. /\ call[c] \in Checked /\ call \in [Callers -> Creation] /\ today \in 1..MaxDay
      /\ UNCHANGED <<catalog, form, counter, today, stored, lost, again>>
  BY Phases DEF BeginTransaction, SubmissionTyped
<1> DEFINE next == [phase |-> "begun", dto |-> call[c].dto, details |-> call[c].details, day |-> today]
<1>2. PICK now \in Begun : /\ call' = [call EXCEPT ![c] = now] /\ now.dto = call[c].dto
                           /\ (now.details <=> call[c].details)
  <2>1. next \in Begun
    BY <1>1 DEF Checked, Begun
  <2> QED  BY <2>1 DEF BeginTransaction
<1>3. now \in Creation /\ now \notin Idle \cup Numbered /\ call[c] \notin Idle
  BY <1>1, Disjoint DEF Creation
<1>4. c \in FormCalls /\ form.phase # "closed" /\ form.current => (now.details <=> now.dto.bug # NULL)
  BY <1>1, <1>2 DEF Agreed
<1> QED  BY <1>1, <1>2, <1>3, <1>4, CallMoves

LEMMA TakeReferenceKeeps == ASSUME SubmissionInv, NEW c \in Callers, TakeReference(c)  PROVE SubmissionInv'
<1> USE DEF SubmissionInv
<1>1. /\ call[c] \in Begun /\ call \in [Callers -> Creation]
      /\ UNCHANGED <<catalog, form, counter, today, stored, lost, again>>
  BY Phases DEF TakeReference, SubmissionTyped
<1>2. PICK day \in 1..MaxDay : day = call[c].day
  BY <1>1 DEF Begun
<1> DEFINE next == [phase |-> "numbered", dto |-> call[c].dto, details |-> call[c].details,
                    day |-> call[c].day, number |-> counter[call[c].day] + 1]
<1>3. PICK now \in Numbered :
          /\ call' = [call EXCEPT ![c] = now] /\ now.dto = call[c].dto
          /\ (now.details <=> call[c].details) /\ now.day = day /\ now.number = counter[day] + 1
  <2>1. counter[day] + 1 \in Nat
    BY DEF SubmissionTyped
  <2>2. next \in Numbered
    BY <1>1, <1>2, <2>1 DEF Begun, Numbered
  <2> QED  BY <1>2, <2>2 DEF TakeReference, NextNumber
<1>4. now \in Creation /\ now \notin Idle /\ call[c] \notin Idle
  BY <1>1, Disjoint DEF Creation
<1>5. \A d \in Callers \ {c} : call[d] \in Numbered => call[d].day # now.day
  BY <1>1, <1>2, <1>3, Phases DEF TakeReference
<1>6. c \in FormCalls /\ form.phase # "closed" /\ form.current => (now.details <=> now.dto.bug # NULL)
  BY <1>1, <1>3 DEF Agreed
<1> QED  BY <1>1, <1>3, <1>4, <1>5, <1>6, CallMoves

(* What the form has under way is what it holds, and what it holds is as the       *)
(* catalogue has it.                                                         *)
LEMMA HeldIsSent ==
    ASSUME SubmissionInv, NEW c \in InFlight
    PROVE  /\ form.phase # "closed" /\ ChoicesShown
           /\ call[c].dto.bug = form.bug /\ call[c].dto.category = form.category
           /\ form.category \in Categories /\ (form.bug # NULL => form.bug.filled /\ form.bug \in Bug)
           /\ form.current => /\ form.seen.category[form.category] = catalog.category[form.category]
                              /\ form.bug # NULL => form.seen.product[form.bug.product]
                                                       = catalog.product[form.bug.product]
<1> USE DEF SubmissionInv
<1>1. /\ form.phase # "closed" /\ form.category # NULL /\ (form.bug # NULL => form.bug.filled)
      /\ call[c].dto = Dto(form.category, form.impact, form.bug) /\ form \in FormState
  BY DEF SentAsHeld, SubmissionTyped
<1>2. form.category \in Categories /\ (form.bug # NULL => form.bug \in Bug)
  BY <1>1 DEF FormState
<1>3. /\ form.seen.category[form.category].state = "active"
      /\ form.bug # NULL => /\ form.bug.product \in Products
                            /\ form.seen.product[form.bug.product].state = "active"
  BY <1>1, <1>2 DEF ChoicesShown, Bug
<1> QED  BY <1>1, <1>2, <1>3 DEF Agreed, ShowsTheCatalog, Dto

LEMMA CheckPasses ==
    ASSUME SubmissionInv, NEW c \in Callers, call[c].phase = "received",
           CategoryRefusal(call[c].dto) = NULL, CheckCategory(c)
    PROVE  SubmissionInv'
<1> USE DEF SubmissionInv
<1>1. /\ call[c] \in Received /\ call \in [Callers -> Creation] /\ catalog \in Catalog
      /\ UNCHANGED <<catalog, form, counter, today, stored, lost, again>>
  BY Phases DEF CheckCategory, SubmissionTyped
<1>2. call[c].dto \in SentDto /\ call[c].dto.category \in Categories
  BY <1>1 DEF Received, SentDto
<1>3. PICK asks \in BOOLEAN : asks = catalog.category[call[c].dto.category].requiresBugDetails
  BY <1>1, <1>2 DEF Catalog, Category
<1>4. PICK now \in Checked :
          call' = [call EXCEPT ![c] = now] /\ now.dto = call[c].dto /\ (now.details <=> asks)
  <2> DEFINE next == [phase |-> "checked", dto |-> call[c].dto, details |-> asks]
  <2>1. next \in Checked
    BY <1>2 DEF Checked
  <2>2. call' = [call EXCEPT ![c] = next]
    BY <1>3 DEF CheckCategory
  <2> QED  BY <2>1, <2>2
<1>5. now \in Creation /\ now \notin Idle \cup Numbered /\ call[c] \notin Idle
  BY <1>1, <1>4, Disjoint DEF Creation
<1>6. c \in FormCalls /\ form.phase # "closed" /\ form.current => (now.details <=> now.dto.bug # NULL)
  <2> SUFFICES ASSUME c \in FormCalls, form.phase # "closed", form.current
               PROVE  asks <=> call[c].dto.bug # NULL
    BY <1>4
  <2>1. c \in InFlight
    BY DEF InFlight
  <2> QED  BY <1>2, <1>3, <2>1, HeldIsSent DEF isBug, ChoicesShown
<1> QED  BY <1>1, <1>4, <1>5, <1>6, CallMoves

(* A call of the form gets its answer.                                        *)
LEMMA AnsweredIsCounted ==
    ASSUME SubmissionInv, NEW c \in FormCalls, call[c] \notin Idle,
           call' \in [Callers -> Creation], call'[c] \in Idle, \A d \in Callers \ {c} : call'[d] = call[d],
           form'.category = form.category, form'.impact = form.impact, form'.bug = form.bug,
           form'.stepIdx = form.stepIdx, form'.seen = form.seen, again' = again,
           form'.phase \in {form.phase, "leaving"},
           \/ ByForm' = ByForm /\ lost' = lost /\ form'.phase = form.phase
           \/ /\ Cardinality(ByForm') = Cardinality(ByForm) + 1
              /\ lost' = lost + 1 \/ (lost' = lost /\ form'.phase \in {"leaving", "done"})
    PROVE  SentOnce' /\ SentAsHeld' /\ form.phase # "closed"
<1> USE DEF SubmissionInv
<1>1. c \in InFlight /\ InFlight' = InFlight \ {c}
  BY Phases, SubmissionAssumption DEF InFlight, SubmissionTyped
<1>2. /\ submitting /\ form.phase # "closed"
      /\ form'.phase \in {"leaving", "done"} => submitting' \/ form'.phase = "done"
  BY <1>1 DEF submitting, SentAsHeld
<1>3. SentOnce'
  <2>1. PICK F : F = InFlight
    OBVIOUS
  <2>2. Cardinality(F \ {c}) = Cardinality(F) - 1
    BY <1>1, <2>1, FormCounted, FS_RemoveElement
  <2>3. Cardinality(InFlight') = Cardinality(InFlight) - 1
    BY <1>1, <2>1, <2>2
  <2>4. lost \in Nat /\ again \in Nat /\ Cardinality(InFlight) \in Nat /\ Cardinality(ByForm) \in Nat
    BY FormCounted DEF SubmissionTyped
  <2>5. Cardinality(ByForm) + Cardinality(InFlight) <= lost + again + 1
    BY <1>2, <2>4 DEF SentOnce
  <2>6. PICK now \in {0, 1} : now = IF submitting' \/ form'.phase = "done" THEN 1 ELSE 0
    OBVIOUS
  <2>7. Cardinality(ByForm') + Cardinality(InFlight') <= lost' + again' + now
    BY <1>2, <2>3, <2>4, <2>5, <2>6
  <2> QED  BY <2>6, <2>7 DEF SentOnce
<1>4. SentAsHeld'
  <2>1. Step' = Step /\ Step \in {"description", "review"}
    BY <1>2 DEF Step, Steps, isBug, SentAsHeld
  <2>2. \A d \in InFlight' : d \in InFlight /\ call'[d].dto = call[d].dto
    BY <1>1, SubmissionAssumption DEF InFlight
  <2> QED  BY <1>1, <1>2, <2>1, <2>2 DEF SentAsHeld, Dto
<1> QED  BY <1>2, <1>3, <1>4

(* The caller hears of a refusal, nothing is stored.                           *)
LEMMA RefusedIsRolledBack ==
    ASSUME SubmissionInv, NEW c \in Callers, call[c] \notin Idle,
           NEW refusal \in Refusal, AnswerCall(c, refusal),
           UNCHANGED <<catalog, counter, today, stored, lost, again>>,
           c \in FormCalls /\ form.current => refusal \in Tolerated
    PROVE  SubmissionInv'
<1> USE DEF SubmissionInv
<1>1. refusal # NULL
  BY DEF Refusal
<1>2. /\ call' \in [Callers -> Creation] /\ call'[c] \in Idle
      /\ call'[c] \notin Checked \cup Begun \cup Numbered
      /\ \A d \in Callers \ {c} : call'[d] = call[d]
  <2>1. [phase |-> "idle"] \in Idle
    BY DEF Idle
  <2> QED  BY <2>1, Disjoint DEF AnswerCall, SubmissionTyped, Creation
<1>3. NumbersFollow'
  <2>1. \A d \in Callers : call'[d] \in Numbered => d # c /\ call[d] = call'[d] /\ call[d] \in Numbered
    BY <1>2
  <2>2. \A day \in 1..MaxDay : NumberedTo(day, counter[day])'
    BY DEF NumbersFollow, NumberedTo, StoredOn
  <2> QED  BY <2>1, <2>2 DEF NumbersFollow
<1>4. ByForm' = ByForm
  BY DEF ByForm
<1>5. CASE c \notin FormCalls
  <2>1. form' = form /\ InFlight' = InFlight /\ (submitting' <=> submitting)
    BY <1>2, <1>5, SubmissionAssumption DEF AnswerCall, InFlight, submitting
  <2>2. SubmissionTyped' /\ SentOnce'
    BY <1>2, <1>4, <2>1 DEF SubmissionTyped, SentOnce
  <2>3. \A d \in FormCalls : call'[d] = call[d]
    BY <1>2, <1>5, SubmissionAssumption
  <2>4. SentAsHeld' /\ ChoicesShown'
    BY <2>1, <2>3 DEF SentAsHeld, ChoicesShown, isBug, Dto, InFlight, Step, Steps
  <2>5. Agreed'
    BY <1>4, <2>1, <2>3 DEF Agreed, ShowsTheCatalog
  <2> QED  BY <1>3, <2>2, <2>4, <2>5
<1>6. CASE c \in FormCalls
  <2>1. form \in FormState /\ form' = [form EXCEPT !.refused = refusal]
    BY <1>1, <1>6 DEF AnswerCall, SubmissionTyped
  <2>2. /\ form' \in FormState /\ form'.phase = form.phase /\ form'.seen = form.seen
        /\ form'.category = form.category /\ form'.bug = form.bug /\ form'.stepIdx = form.stepIdx
        /\ form'.impact = form.impact /\ form'.refused = refusal /\ (form'.current <=> form.current)
    BY <2>1 DEF FormState
  <2>3. SubmissionTyped'
    BY <1>2, <2>2 DEF SubmissionTyped
  <2>4. SentOnce' /\ SentAsHeld' /\ form.phase # "closed"
    BY <1>2, <1>4, <1>6, <2>2, AnsweredIsCounted
  <2>5. isBug' <=> isBug
    BY <2>2 DEF isBug
  <2>6. ChoicesShown'
    BY <2>2, <2>5 DEF ChoicesShown
  <2>7. Agreed'
    <3>1. ASSUME form.current, NEW d \in FormCalls, call'[d] \in Checked \cup Begun \cup Numbered
          PROVE  call'[d].details <=> call'[d].dto.bug # NULL
      <4>1. call'[d] = call[d]
        BY <1>2, <3>1, SubmissionAssumption
      <4> QED  BY <2>4, <3>1, <4>1 DEF Agreed
    <3> QED  BY <1>4, <1>6, <2>2, <2>4, <3>1 DEF Agreed, ShowsTheCatalog
  <2> QED  BY <1>3, <2>3, <2>4, <2>6, <2>7
<1> QED  BY <1>5, <1>6

LEMMA CheckCategoryKeeps == ASSUME SubmissionInv, NEW c \in Callers, CheckCategory(c)  PROVE SubmissionInv'
<1> USE DEF SubmissionInv
<1> DEFINE dto == call[c].dto
<1>1. /\ call[c] \in Received /\ call[c] \notin Idle /\ call[c].phase = "received"
      /\ UNCHANGED <<catalog, counter, today, stored, lost, again>>
  BY Phases, Disjoint DEF CheckCategory, SubmissionTyped
<1>2. CASE CategoryRefusal(dto) = NULL
  BY <1>1, <1>2, CheckPasses
<1>3. CASE CategoryRefusal(dto) # NULL
  <2>1. PICK refusal \in Refusal : refusal = CategoryRefusal(dto)
    BY <1>3 DEF CategoryRefusal, Refusal
  <2>2. AnswerCall(c, refusal)
    BY <1>3, <2>1 DEF CheckCategory
  <2>3. ~(c \in FormCalls /\ form.current)
    <3> SUFFICES ASSUME c \in FormCalls, form.current  PROVE FALSE
      OBVIOUS
    <3>1. c \in InFlight
      BY <1>1 DEF InFlight
    <3>2. /\ catalog.category[dto.category].state = "active"
          /\ catalog.category[dto.category].requiresBugDetails <=> dto.bug # NULL
      BY <3>1, HeldIsSent DEF ChoicesShown, isBug
    <3> QED  BY <1>3, <3>2 DEF CategoryRefusal
  <2> QED  BY <1>1, <2>1, <2>2, <2>3, RefusedIsRolledBack
<1> QED  BY <1>2, <1>3

(* A number that outgrows its digits is cut to one already borne.               *)
LEMMA FitsItsDigits ==
    ASSUME SubmissionInv, NEW c \in Callers, call[c] \in Numbered,
           ~ \E r \in stored : r.ref = Reference(call[c].day, call[c].number)
    PROVE  call[c].number < Limit
<1> USE DEF SubmissionInv
<1> DEFINE day == call[c].day
           n == call[c].number
<1>1. /\ n \in Nat /\ day \in 1..MaxDay /\ n = counter[day] + 1 /\ counter[day] < Limit
      /\ counter[day] \in Nat /\ Limit \in Nat
      /\ {r.ref[2] : r \in StoredOn(day)} = 1..counter[day]
  BY LimitAssumption DEF NumbersFollow, NumberedTo, Numbered, SubmissionTyped
<1> HIDE DEF n
<1>2. SUFFICES ASSUME n = Limit  PROVE FALSE
  BY <1>1 DEF n
<1>3. Lpad(n) = Limit \div Base /\ Lpad(n) \in 1..counter[day]
  BY <1>1, <1>2, LimitAssumption DEF Lpad
<1>4. PICK r \in StoredOn(day) : r.ref[2] = Lpad(n)
  BY <1>1, <1>3
<1>5. r \in stored /\ r \in Stored /\ r.ref[1] = day
  BY <1>4 DEF StoredOn, SubmissionTyped
<1>6. r.ref = <<r.ref[1], r.ref[2]>>
  BY <1>5 DEF Stored
<1> QED  BY <1>4, <1>5, <1>6 DEF Reference, n

(* A creation is committed: its request is the next one of its day.             *)
LEMMA Committed ==
    ASSUME SubmissionInv, NEW c \in Callers, call[c] \in Numbered,
           ~ \E r \in stored : r.ref = Reference(call[c].day, call[c].number),
           NEW new, new = [ref |-> Reference(call[c].day, call[c].number), by |-> c,
                           dto |-> call[c].dto, details |-> call[c].details],
           stored' = stored \cup {new},
           counter' = [counter EXCEPT ![call[c].day] = call[c].number],
           call' = [call EXCEPT ![c] = [phase |-> "idle"]], today' = today
    PROVE  /\ new \in Stored /\ new \notin stored /\ NumbersFollow'
           /\ call' \in [Callers -> Creation] /\ call'[c] \in Idle
           /\ call'[c] \notin Checked \cup Begun \cup Numbered
           /\ \A d \in Callers \ {c} : call'[d] = call[d]
           /\ counter' \in [1..MaxDay -> Nat] /\ IsFiniteSet(stored')
<1> USE DEF SubmissionInv
<1>1. PICK day \in 1..MaxDay, n \in Nat : day = call[c].day /\ n = call[c].number
  BY DEF Numbered
<1>2. /\ n = counter[day] + 1 /\ n < Limit /\ Lpad(n) = n
      /\ counter[day] \in Nat /\ counter \in [1..MaxDay -> Nat]
  BY <1>1, FitsItsDigits DEF NumbersFollow, Lpad, SubmissionTyped
<1>3. new = [ref |-> <<day, n>>, by |-> c, dto |-> call[c].dto, details |-> call[c].details]
  BY <1>1, <1>2 DEF Reference
<1>4. new \in Stored /\ new.ref[1] = day /\ new.ref[2] = n /\ new \notin stored
  <2>1. call[c].dto \in SentDto /\ call[c].details \in BOOLEAN
    BY DEF Numbered
  <2>2. <<day, n>> \in (1..MaxDay) \X Nat
    OBVIOUS
  <2>3. new \in Stored /\ new.ref = <<day, n>>
    BY <1>3, <2>1, <2>2 DEF Stored
  <2>4. Reference(call[c].day, call[c].number) = <<day, n>>
    BY <1>1, <1>2 DEF Reference
  <2> QED  BY <2>3, <2>4
<1>5. /\ call' \in [Callers -> Creation] /\ call'[c] \in Idle
           /\ call'[c] \notin Checked \cup Begun \cup Numbered
      /\ \A d \in Callers \ {c} : call'[d] = call[d]
  <2>1. [phase |-> "idle"] \in Idle
    BY DEF Idle
  <2> QED  BY <2>1, Disjoint DEF SubmissionTyped, Creation
<1>6. /\ counter' \in [1..MaxDay -> Nat] /\ counter'[day] = n
      /\ \A d \in (1..MaxDay) \ {day} : counter'[d] = counter[d]
  BY <1>1, <1>2
<1>7. IsFiniteSet(stored')
  BY FS_AddElement DEF SubmissionTyped
<1>8. NumberedTo(day, counter[day])'
  <2>1. StoredOn(day)' = StoredOn(day) \cup {new} /\ new \notin StoredOn(day)
    BY <1>4 DEF StoredOn
  <2>2. IsFiniteSet(StoredOn(day))
    <3>1. StoredOn(day) \subseteq stored
      BY DEF StoredOn
    <3> QED  BY <3>1, FS_Subset DEF SubmissionTyped
  <2>3. Cardinality(StoredOn(day)) = counter[day] /\ {r.ref[2] : r \in StoredOn(day)} = 1..counter[day]
    BY DEF NumbersFollow, NumberedTo
  <2>4. Cardinality(StoredOn(day)') = n
    <3>1. PICK T : T = StoredOn(day)
      OBVIOUS
    <3>2. Cardinality(T \cup {new}) = Cardinality(T) + 1
      BY <2>1, <2>2, <3>1, FS_AddElement
    <3> QED  BY <1>2, <2>1, <2>3, <3>1, <3>2
  <2>5. {r.ref[2] : r \in StoredOn(day)}' = 1..n
    <3>1. {r.ref[2] : r \in StoredOn(day)}' = {r.ref[2] : r \in StoredOn(day)} \cup {n}
      BY <1>4, <2>1
    <3>2. 1..n = 1..counter[day] \cup {n}
      BY <1>2
    <3> QED  BY <2>3, <3>1, <3>2
  <2> QED  BY <1>2, <1>6, <2>4, <2>5 DEF NumberedTo
<1>9. ASSUME NEW d \in (1..MaxDay) \ {day}  PROVE NumberedTo(d, counter[d])'
  <2>1. StoredOn(d)' = StoredOn(d)
    BY <1>4 DEF StoredOn
  <2> QED  BY <1>6, <2>1 DEF NumbersFollow, NumberedTo
<1>10. \A d \in Callers : call'[d] \in Numbered =>
          d # c /\ call[d] = call'[d] /\ call[d] \in Numbered /\ call[d].day \in (1..MaxDay) \ {day}
  BY <1>1, <1>5 DEF NumbersFollow, Numbered
<1>11. NumbersFollow'
  BY <1>6, <1>8, <1>9, <1>10 DEF NumbersFollow
<1> QED  BY <1>4, <1>5, <1>6, <1>7, <1>11

LEMMA CommitKeeps ==
    ASSUME SubmissionInv, NEW c \in Callers, call[c] \in Numbered,
           ~ \E r \in stored : r.ref = Reference(call[c].day, call[c].number),
           NEW new, new = [ref |-> Reference(call[c].day, call[c].number), by |-> c,
                           dto |-> call[c].dto, details |-> call[c].details],
           stored' = stored \cup {new},
           counter' = [counter EXCEPT ![call[c].day] = call[c].number],
           \/ AnswerCall(c, NULL) /\ lost' = lost
           \/ AnswerCall(c, "NO_ANSWER") /\ lost' = IF c \in FormCalls THEN lost + 1 ELSE lost,
           UNCHANGED <<catalog, today, again>>
    PROVE  SubmissionInv'
<1> USE DEF SubmissionInv
<1>1. call' = [call EXCEPT ![c] = [phase |-> "idle"]]
  BY DEF AnswerCall
<1>2. /\ new \in Stored /\ new \notin stored /\ NumbersFollow'
      /\ call' \in [Callers -> Creation] /\ call'[c] \in Idle
      /\ call'[c] \notin Checked \cup Begun \cup Numbered
      /\ \A d \in Callers \ {c} : call'[d] = call[d]
      /\ counter' \in [1..MaxDay -> Nat] /\ IsFiniteSet(stored')
  BY <1>1, Committed
<1>3. new.by = c /\ new.dto = call[c].dto /\ (new.details <=> call[c].details)
  OBVIOUS
<1>4. CASE c \notin FormCalls
  <2>1. form' = form /\ lost' = lost /\ ByForm' = ByForm
    BY <1>3, <1>4 DEF AnswerCall, ByForm
  <2>2. \A d \in FormCalls : call'[d] = call[d]
    BY <1>2, <1>4, SubmissionAssumption
  <2>3. InFlight' = InFlight /\ (submitting' <=> submitting)
    BY <2>1, <2>2 DEF InFlight, submitting
  <2>4. SubmissionTyped' /\ SentOnce'
    BY <1>2, <2>1, <2>3 DEF SubmissionTyped, SentOnce
  <2>5. SentAsHeld' /\ ChoicesShown'
    BY <2>1, <2>2, <2>3 DEF SentAsHeld, ChoicesShown, isBug, Dto, InFlight, Step, Steps
  <2>6. Agreed'
    BY <2>1, <2>2 DEF Agreed, ShowsTheCatalog
  <2> QED  BY <1>2, <2>4, <2>5, <2>6
<1>5. CASE c \in FormCalls
  <2>1. form \in FormState /\ lost \in Nat /\ call[c] \notin Idle /\ form.phase # "closed"
    <3>1. call[c] \notin Idle
      BY Disjoint
    <3>2. c \in InFlight
      BY <1>5, <3>1, Phases DEF InFlight, SubmissionTyped
    <3> QED  BY <3>1, <3>2 DEF SentAsHeld, SubmissionTyped
  <2>2. \/ form' = [form EXCEPT !.phase = IF @ = "editing" THEN "leaving" ELSE @] /\ lost' = lost
        \/ form' = [form EXCEPT !.refused = "NO_ANSWER"] /\ lost' = lost + 1
    BY <1>5 DEF AnswerCall
  <2>3. /\ form' \in FormState /\ form'.seen = form.seen
        /\ form'.category = form.category /\ form'.bug = form.bug /\ form'.stepIdx = form.stepIdx
        /\ form'.impact = form.impact /\ form'.refused \in {form.refused, "NO_ANSWER"}
        /\ (form'.current <=> form.current)
        /\ \/ form'.phase \in {"leaving", "done"} /\ form'.phase \in {form.phase, "leaving"} /\ lost' = lost
           \/ form'.phase = form.phase /\ lost' = lost + 1
    <3>1. CASE form' = [form EXCEPT !.phase = IF @ = "editing" THEN "leaving" ELSE @] /\ lost' = lost
      BY <2>1, <3>1 DEF FormState
    <3>2. CASE form' = [form EXCEPT !.refused = "NO_ANSWER"] /\ lost' = lost + 1
      BY <2>1, <3>2 DEF FormState, Refusal
    <3> QED  BY <2>2, <3>1, <3>2
  <2>4. /\ ByForm' = ByForm \cup {new} /\ new \notin ByForm /\ IsFiniteSet(ByForm)
    BY <1>2, <1>3, <1>5, FormCounted DEF ByForm
  <2>5. Cardinality(ByForm') = Cardinality(ByForm) + 1
    <3>1. PICK T : T = ByForm
      OBVIOUS
    <3>2. Cardinality(T \cup {new}) = Cardinality(T) + 1
      BY <2>4, <3>1, FS_AddElement
    <3> QED  BY <2>4, <3>1, <3>2
  <2>6. SubmissionTyped'
    BY <1>2, <2>1, <2>3 DEF SubmissionTyped
  <2>7. SentOnce' /\ SentAsHeld'
    BY <1>2, <1>5, <2>1, <2>3, <2>5, AnsweredIsCounted
  <2>8. isBug' <=> isBug
    BY <2>3 DEF isBug
  <2>9. ChoicesShown'
    BY <2>1, <2>3, <2>8 DEF ChoicesShown
  <2>10. Agreed'
    <3>1. form'.phase # "closed"
      BY <2>1, <2>3
    <3>2. ASSUME form'.current
          PROVE  /\ ShowsTheCatalog' /\ form'.refused \in Tolerated
                 /\ \A r \in ByForm : r.dto.bug # NULL <=> r.details
                 /\ new.dto.bug # NULL <=> new.details
      BY <1>3, <1>5, <2>1, <2>3, <3>2 DEF Agreed, Tolerated, ShowsTheCatalog
    <3>3. ASSUME form.current, NEW d \in FormCalls, call'[d] \in Checked \cup Begun \cup Numbered
          PROVE  call'[d].details <=> call'[d].dto.bug # NULL
      <4>1. call'[d] = call[d]
        BY <1>2, <3>3, SubmissionAssumption
      <4> QED  BY <2>1, <3>3, <4>1 DEF Agreed
    <3> QED  BY <2>3, <2>4, <3>1, <3>2, <3>3 DEF Agreed
  <2> QED  BY <1>2, <2>6, <2>7, <2>9, <2>10
<1> QED  BY <1>4, <1>5

LEMMA InsertKeeps == ASSUME SubmissionInv, NEW c \in Callers, Insert(c)  PROVE SubmissionInv'
<1> USE DEF SubmissionInv
<1> DEFINE dto == call[c].dto
           ref == Reference(call[c].day, call[c].number)
           taken == \E r \in stored : r.ref = ref
           refusal == IF taken THEN "INTERNAL_ERROR"
                      ELSE IF call[c].details THEN BugRefusal(dto) ELSE NULL
           new == [ref |-> ref, by |-> c, dto |-> dto, details |-> call[c].details]
<1>1. call[c] \in Numbered /\ call[c] \notin Idle /\ UNCHANGED <<catalog, today, again>>
  BY Phases, Disjoint DEF Insert, SubmissionTyped
<1>2. refusal \in Refusal \cup {NULL}
  BY DEF BugRefusal, Refusal
<1>3. c \in FormCalls /\ form.current => refusal \in Tolerated
  <2> SUFFICES ASSUME c \in FormCalls, form.current, call[c].details, ~taken
               PROVE  BugRefusal(dto) \in Tolerated
    BY DEF Tolerated
  <2>1. c \in InFlight
    BY <1>1, Phases DEF InFlight, SubmissionTyped
  <2>2. form.phase # "closed" /\ dto.bug = form.bug /\ dto.bug # NULL
    BY <1>1, <2>1, HeldIsSent DEF Agreed
  <2>3. catalog.product[dto.bug.product].state = "active"
    BY <2>1, <2>2, HeldIsSent DEF ChoicesShown
  <2> QED  BY <2>3 DEF BugRefusal, Tolerated
<1> HIDE DEF refusal
<1>4. CASE refusal = NULL /\ stored' = stored \cup {new}
           /\ counter' = [counter EXCEPT ![call[c].day] = call[c].number]
           /\ \/ AnswerCall(c, NULL) /\ lost' = lost
              \/ AnswerCall(c, "NO_ANSWER") /\ lost' = IF c \in FormCalls THEN lost + 1 ELSE lost
  <2>1. ~taken
    BY <1>4 DEF refusal
  <2> HIDE DEF ref, dto
  <2>2. PICK r : r = new
    OBVIOUS
  <2> QED  BY <1>1, <1>4, <2>1, <2>2, CommitKeeps DEF ref, dto
<1>5. CASE refusal # NULL /\ UNCHANGED counter /\ AnswerCall(c, refusal) /\ UNCHANGED <<stored, lost>>
  BY <1>1, <1>2, <1>3, <1>5, RefusedIsRolledBack
<1>6. CASE UNCHANGED counter /\ AnswerCall(c, "INTERNAL_ERROR") /\ UNCHANGED <<stored, lost>>
  <2>1. "INTERNAL_ERROR" \in Refusal \cap Tolerated
    BY DEF Refusal, Tolerated
  <2> QED  BY <1>1, <1>6, <2>1, RefusedIsRolledBack
<1>7. \/ refusal = NULL /\ stored' = stored \cup {new}
           /\ counter' = [counter EXCEPT ![call[c].day] = call[c].number]
           /\ (\/ AnswerCall(c, NULL) /\ lost' = lost
               \/ AnswerCall(c, "NO_ANSWER") /\ lost' = IF c \in FormCalls THEN lost + 1 ELSE lost)
      \/ refusal # NULL /\ UNCHANGED counter /\ AnswerCall(c, refusal) /\ UNCHANGED <<stored, lost>>
      \/ UNCHANGED counter /\ AnswerCall(c, "INTERNAL_ERROR") /\ UNCHANGED <<stored, lost>>
  BY DEF Insert, refusal
<1> QED  BY <1>4, <1>5, <1>6, <1>7

LEMMA SubmissionStepKeeps == SubmissionInv /\ [SubmissionNext]_submissionVars => SubmissionInv'
<1> SUFFICES ASSUME SubmissionInv, [SubmissionNext]_submissionVars  PROVE SubmissionInv'
  OBVIOUS
<1>1. CASE UNCHANGED submissionVars
  <2> USE <1>1 DEF SubmissionInv, submissionVars
  <2>1. SubmissionTyped' /\ NumbersFollow'
    BY DEF SubmissionTyped, NumbersFollow, NumberedTo, StoredOn
  <2>2. SentOnce' /\ ChoicesShown' /\ SentAsHeld'
    BY DEF SentOnce, ChoicesShown, SentAsHeld, ByForm, isBug, Dto, InFlight, submitting, Step, Steps
  <2>3. Agreed'
    BY DEF Agreed, ByForm, ShowsTheCatalog
  <2> QED  BY <2>1, <2>2, <2>3
<1>2. ASSUME NEW c \in Callers,
             \/ submitRequestAction(c) \/ Post(c) \/ CheckCategory(c)
             \/ BeginTransaction(c) \/ TakeReference(c) \/ Insert(c)
      PROVE  SubmissionInv'
  BY <1>2, SubmitKeeps, PostKeeps, CheckCategoryKeeps, BeginKeeps, TakeReferenceKeeps, InsertKeeps
<1>3. CASE (\E k \in Categories : EditCategory(k)) \/ (\E p \in Products : EditProduct(p))
  BY <1>3, EditsKeep
<1>4. CASE NewRequestPage \/ CategoryStep \/ BugStep \/ Redirected
  BY <1>4, NewRequestPageKeeps, CategoryStepKeeps, BugStepKeeps, RedirectedKeeps
<1>5. CASE DescriptionStep \/ ImpactStep \/ goNext \/ goBack
  BY <1>5, OtherEditsKeep
<1>6. CASE NextDay
  <2> USE <1>6 DEF SubmissionInv, NextDay
  <2>1. SubmissionTyped' /\ NumbersFollow'
    <3>1. today' \in 1..MaxDay
      BY DEF SubmissionTyped
    <3>2. SubmissionTyped'
      BY <3>1 DEF SubmissionTyped
    <3> QED  BY <3>2 DEF NumbersFollow, NumberedTo, StoredOn
  <2>2. SentOnce' /\ ChoicesShown' /\ SentAsHeld'
    BY DEF SentOnce, ChoicesShown, SentAsHeld, ByForm, isBug, Dto, InFlight, submitting, Step, Steps
  <2>3. Agreed'
    BY DEF Agreed, ByForm, ShowsTheCatalog
  <2> QED  BY <2>1, <2>2, <2>3
<1> QED  BY <1>1, <1>2, <1>3, <1>4, <1>5, <1>6 DEF SubmissionNext

LEMMA SubmissionKeeps == SubmissionSpec => []SubmissionInv
BY SubmissionStarts, SubmissionStepKeeps, PTL DEF SubmissionSpec

(* create and next_public_request_reference: the requests of a day bear the      *)
(* numbers from 1 on, whatever creations overlap, are rolled back or wait for      *)
(* each other across midnight, the day being that of the start of the transaction;  *)
(* none is created once the numbers outgrow their digits.                       *)
THEOREM NumbersHaveNoGap == SubmissionSpec => []ReferencesWithoutGap
<1>1. SubmissionInv => ReferencesWithoutGap
  <2> SUFFICES ASSUME SubmissionInv, NEW day \in 1..MaxDay
               PROVE  /\ {r.ref[2] : r \in StoredOn(day)} = 1..Cardinality(StoredOn(day))
                      /\ Cardinality(StoredOn(day)) < Limit
    BY DEF ReferencesWithoutGap
  <2> QED  BY DEF SubmissionInv, NumbersFollow, NumberedTo
<1> QED  BY <1>1, SubmissionKeeps, PTL

(* createRequestSchema and onCategoryChange against create and                   *)
(* createInTransaction: with the catalogue it was opened on, a form is refused      *)
(* nothing it cannot show, and what is stored has details if it sent some.         *)
THEOREM FormAndServerAgree == SubmissionSpec => []FormAgreesWithServer
<1>1. SubmissionInv => FormAgreesWithServer
  <2> SUFFICES ASSUME SubmissionInv, form.seen # NULL, form.current
               PROVE  /\ form.refused \in Tolerated
                      /\ \A r \in ByForm : r.dto.bug # NULL <=> r.details
    BY DEF FormAgreesWithServer, Tolerated, ByForm
  <2> QED  BY DEF SubmissionInv, Agreed
<1> QED  BY <1>1, SubmissionKeeps, PTL

(* onSubmit and the buttons `submitting` disables: the requests of a form are one, one *)
(* more per lost answer, one more each time Enter sent it while it was being sent,   *)
(* whatever the other callers do and whatever is refused and sent again.          *)
THEOREM TheButtonSendsOnce == SubmissionSpec => []ButtonSendsOnce
<1>1. SubmissionInv => ButtonSendsOnce
  <2> SUFFICES ASSUME SubmissionInv  PROVE Cardinality(ByForm) <= 1 + lost + again
    BY DEF ButtonSendsOnce, ByForm
  <2>1. /\ Cardinality(ByForm) \in Nat /\ Cardinality(InFlight) \in Nat
        /\ lost \in Nat /\ again \in Nat
    BY FormCounted DEF SubmissionInv, SubmissionTyped
  <2> QED  BY <2>1 DEF SubmissionInv, SentOnce
<1> QED  BY <1>1, SubmissionKeeps, PTL
=============================================================================
