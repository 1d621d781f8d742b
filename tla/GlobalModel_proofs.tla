------------------------ MODULE GlobalModel_proofs ------------------------
(***************************************************************************)
(* Proofs about GlobalModel: type correctness, and for any numbers of      *)
(* aggregate requests, models and chunks what the file, the descriptor and *)
(* a download have to do with each other.                                  *)
(*                                                                         *)
(* What the properties say of requests that do not overlap rests on        *)
(* Orderly: the one request in the handler owns the temporary file, the    *)
(* file at the output path is never the temporary one and is whole, and    *)
(* every descriptor in circulation has the digest of a whole model, also   *)
(* one that was replaced since.                                            *)
(***************************************************************************)
EXTENDS GlobalModel, FiniteSetTheorems, SequenceTheorems, TLAPS

\* Every creation of a file belongs to one request.
Creating == {a \in Aggregators : At(a, "create")}
Counted == Len(inode) + Cardinality(Creating) <= saves

\* The names lead to files that exist, and so do the open files of the requests.
Named == {temporary, output} \subseteq (1 .. Len(inode)) \cup {NoFile}
Opened ==
    \A a \in Aggregators :
        /\ InHandler(a) => aggregator[a].model \in Models
        /\ At(a, "create") => aggregator[a].at = 0
        /\ At(a, "write") => /\ aggregator[a].inode \in 1 .. Len(inode)
                             /\ aggregator[a].at < Size[aggregator[a].model]
        /\ (At(a, "digest") \/ At(a, "stat")) => output # NoFile

\* One request at a time.
Alone == \A a, b \in Aggregators : InHandler(a) /\ InHandler(b) => a = b

\* The request writes the file at the temporary path, from its beginning on.
Saving ==
    \A a \in Aggregators :
        /\ At(a, "write") =>
               /\ temporary = aggregator[a].inode
               /\ inode[temporary] = [i \in 1 .. aggregator[a].at |-> aggregator[a].model]
        /\ At(a, "replace") =>
               temporary # NoFile /\ inode[temporary] = Whole(aggregator[a].model)
        /\ (At(a, "stat") \/ At(a, "publish")) => aggregator[a].digest = inode[output]
        /\ At(a, "publish") => aggregator[a].bytes = Len(inode[output]) /\ output # NoFile

\* The published file is whole and no longer written.
Complete == output # NoFile => output # temporary /\ IsWhole(inode[output])

\* The descriptor belongs to it, unless a request has replaced the file and not yet
\* published the new descriptor.
Replaced == \E a \in Aggregators : At(a, "digest") \/ At(a, "stat") \/ At(a, "publish")
Described ==
    ~Replaced => IF global = NoFile
                 THEN output = NoFile
                 ELSE /\ output # NoFile
                      /\ inode[output] = global.digest
                      /\ Len(inode[output]) = global.bytes

\* Descriptors, published or held by the download, are of whole models.
Announced(d) == d # NoFile => IsWhole(d.digest)
Circulating ==
    /\ Announced(global)
    /\ Announced(handler.descriptor)
    /\ Announced(client.descriptor)

Orderly == Alone /\ Saving /\ Complete /\ Described /\ Circulating

Verifying == Reading("verify") => client.descriptor # NoFile

IInv ==
    /\ TypeOK
    /\ Counted
    /\ Named
    /\ Opened
    /\ Verifying
    /\ ~overlapped => Orderly
    /\ DownloadIsWhole
-----------------------------------------------------------------------------
\* Sizes and contents

\* There is a largest model.
LEMMA LargestModel == \E m \in Models : \A q \in Models : Size[m] >= Size[q]
<1> DEFINE Without(k) == \E M \in SUBSET Models :
                            /\ M # {} /\ IsFiniteSet(M) /\ Cardinality(M) = k
                            /\ ~\E m \in M : \A q \in M : Size[m] >= Size[q]
           W == {k \in Nat : Without(k)}
<1>1. W = {}
  <2> SUFFICES ASSUME W # {}
               PROVE  FALSE
    OBVIOUS
  <2>1. PICK k \in W : \A n \in W : ~(<<n, k>> \in OpToRel(<, Nat))
    BY NatLessThanWellFounded, WFMin
  <2>2. \A n \in Nat : Without(n) => n >= k
    <3> DEFINE V(n) == Without(n)
    <3>1. \A n \in Nat : V(n) <=> n \in W
      OBVIOUS
    <3> HIDE DEF V, W
    <3>2. k \in Nat
      BY DEF W
    <3>3. \A n \in Nat : V(n) => ~(n < k)
      BY <2>1, <3>1, <3>2 DEF OpToRel
    <3>4. \A n \in Nat : V(n) => n >= k
      BY <3>2, <3>3
    <3> QED
      BY <3>4 DEF V
  <2>3. PICK M \in SUBSET Models :
            /\ M # {} /\ IsFiniteSet(M) /\ Cardinality(M) = k
            /\ ~\E m \in M : \A q \in M : Size[m] >= Size[q]
    BY <2>1
  <2>4. PICK x \in M : TRUE
    BY <2>3
  <2>5. /\ IsFiniteSet(M \ {x}) /\ Cardinality(M \ {x}) = k - 1 /\ k - 1 \in Nat
    <3>1. IsFiniteSet(M \ {x}) /\ Cardinality(M \ {x}) = Cardinality(M) - 1
      BY <2>3, <2>4, FS_RemoveElement
    <3>2. Cardinality(M \ {x}) \in Nat
      BY <3>1, FS_CardinalityType
    <3> QED
      BY <2>3, <3>1, <3>2
  <2>6. \A m \in M : Size[m] \in Nat
    BY ModelsAssumption
  <2>7. CASE M \ {x} = {}
    BY <2>3, <2>4, <2>6, <2>7
  <2>8. CASE M \ {x} # {}
    <3>1. ~Without(k - 1)
      BY <2>2, <2>5
    <3>2. PICK m \in M \ {x} : \A q \in M \ {x} : Size[m] >= Size[q]
      BY <2>5, <2>8, <3>1
    <3>3. CASE Size[m] >= Size[x]
      BY <2>3, <3>2, <3>3
    <3>4. CASE ~(Size[m] >= Size[x])
      BY <2>3, <2>4, <2>6, <3>2, <3>4
    <3> QED
      BY <3>3, <3>4
  <2> QED
    BY <2>7, <2>8
<1>2. \A k \in Nat : ~Without(k)
  BY <1>1
<1>3. Cardinality(Models) \in Nat
  BY ModelsAssumption, FS_CardinalityType
<1> QED
  BY <1>2, <1>3, ModelsAssumption

\* MaxSize is the size of that one.
LEMMA SizesBounded == MaxSize \in Nat /\ \A m \in Models : Size[m] \in 1 .. MaxSize
<1> DEFINE S == {Size[m] : m \in Models}
<1>1. \A m \in Models : Size[m] \in Nat \ {0}
  BY ModelsAssumption
<1>2. \E x \in S : \A y \in S : x >= y
  BY LargestModel
<1>3. Max(S) \in S /\ \A y \in S : Max(S) >= y
  BY <1>2 DEF Max
<1> QED
  BY <1>1, <1>3 DEF MaxSize

\* The larger of two positions.
LEMMA MaxOfTwo ==
    ASSUME NEW x \in Nat, NEW y \in Nat
    PROVE  Max({x, y}) = IF x >= y THEN x ELSE y
<1>1. \E u \in {x, y} : \A v \in {x, y} : u >= v
  OBVIOUS
<1>2. Max({x, y}) \in {x, y} /\ \A v \in {x, y} : Max({x, y}) >= v
  BY <1>1 DEF Max
<1> QED
  BY <1>2

\* Contents are the sequences of chunks up to the largest size.
Chunks == Models \cup {Hole}

\* That is what membership of Contents amounts to.
LEMMA ContentsAre ==
    ASSUME NEW c
    PROVE  c \in Contents <=> c \in Seq(Chunks) /\ Len(c) <= MaxSize
<1>1. c \in Contents <=> \E n \in 0 .. MaxSize : c \in [1 .. n -> Chunks]
  BY DEF Contents, Chunks
<1>2. ASSUME NEW n \in 0 .. MaxSize, c \in [1 .. n -> Chunks]
      PROVE  c \in Seq(Chunks) /\ Len(c) <= MaxSize
  <2>1. n \in Nat /\ n <= MaxSize
    BY SizesBounded
  <2>2. c \in Seq(Chunks) /\ Len(c) = n
    BY <1>2, <2>1
  <2> QED
    BY <2>1, <2>2
<1>3. ASSUME c \in Seq(Chunks), Len(c) <= MaxSize
      PROVE  Len(c) \in 0 .. MaxSize /\ c \in [1 .. Len(c) -> Chunks]
  BY <1>3, LenProperties, SizesBounded
<1> QED
  BY <1>1, <1>2, <1>3

\* The empty file.
LEMMA EmptyContent == <<>> \in Contents /\ Len(<<>>) = 0
<1>1. <<>> \in Seq(Chunks) /\ Len(<<>>) = 0
  BY EmptySeq
<1>2. Len(<<>>) <= MaxSize
  BY <1>1, SizesBounded
<1> QED
  BY <1>1, <1>2, ContentsAre

\* A file is no longer than the largest model.
LEMMA LengthOfContent ==
    ASSUME NEW c \in Contents
    PROVE  Len(c) \in 0 .. MaxSize
BY ContentsAre, SizesBounded, LenProperties

\* A function on an initial segment of the positions is content.
LEMMA SegmentIsContent ==
    ASSUME NEW n \in 0 .. MaxSize, NEW c \in [1 .. n -> Chunks]
    PROVE  c \in Contents /\ Len(c) = n
<1>1. n \in Nat
  BY SizesBounded
<1>2. c \in Seq(Chunks) /\ Len(c) = n
  BY <1>1
<1> QED
  BY <1>2, ContentsAre, SizesBounded

\* A whole model is content of its size.
LEMMA WholeIsContent ==
    ASSUME NEW m \in Models
    PROVE  Whole(m) \in Contents /\ Len(Whole(m)) = Size[m]
<1>1. Size[m] \in 0 .. MaxSize
  BY SizesBounded
<1>2. Whole(m) \in [1 .. Size[m] -> Chunks]
  BY DEF Whole, Chunks
<1> QED
  BY <1>1, <1>2, SegmentIsContent

\* A write within the largest size leaves content,
LEMMA WrittenIsContent ==
    ASSUME NEW c \in Contents, NEW i \in 1 .. MaxSize, NEW m \in Models
    PROVE  Written(c, i, m) \in Contents
<1> DEFINE n == Max({i, Len(c)})
<1>1. Len(c) \in 0 .. MaxSize /\ MaxSize \in Nat
  BY LengthOfContent, SizesBounded
<1>2. n \in 0 .. MaxSize
  BY <1>1, MaxOfTwo
<1>3. \A j \in 1 .. Len(c) : c[j] \in Chunks
  BY ContentsAre, ElementOfSeq
<1>4. Written(c, i, m) \in [1 .. n -> Chunks]
  BY <1>1, <1>2, <1>3 DEF Written, Chunks
<1> HIDE DEF n
<1> QED
  BY <1>2, <1>4, SegmentIsContent

\* and one at the end of a prefix of a model a longer prefix.
LEMMA WrittenAtEnd ==
    ASSUME NEW n \in 0 .. MaxSize, NEW m \in Models, n + 1 <= MaxSize
    PROVE  Written([j \in 1 .. n |-> m], n + 1, m) = [j \in 1 .. n + 1 |-> m]
<1> DEFINE c == [j \in 1 .. n |-> m]
<1>1. n \in Nat /\ n + 1 \in Nat
  BY SizesBounded
<1>2. Len(c) = n
  <2>1. c \in [1 .. n -> Chunks]
    BY DEF Chunks
  <2> HIDE DEF c
  <2> QED
    BY <2>1, SegmentIsContent
<1>3. \A j \in 1 .. n : c[j] = m
  OBVIOUS
<1> HIDE DEF c
<1>4. Max({n + 1, Len(c)}) = n + 1
  BY <1>1, <1>2, MaxOfTwo
<1>5. Written(c, n + 1, m) =
          [j \in 1 .. n + 1 |-> IF j = n + 1 THEN m ELSE IF j <= Len(c) THEN c[j] ELSE Hole]
  BY <1>4 DEF Written
<1>6. \A j \in 1 .. n + 1 :
          (IF j = n + 1 THEN m ELSE IF j <= Len(c) THEN c[j] ELSE Hole) = m
  BY <1>1, <1>2, <1>3
<1>7. Written(c, n + 1, m) = [j \in 1 .. n + 1 |-> m]
  BY <1>5, <1>6
<1> QED
  BY <1>7 DEF c

-----------------------------------------------------------------------------
\* What all steps of the server have in common

Locals == [pc : {"idle", "create", "write", "replace", "digest", "stat", "publish"},
           model : Models \cup {0}, inode : Inodes \cup {NoFile}, at : 0 .. MaxSize,
           digest : Contents, bytes : 0 .. MaxSize]

\* The files, one by one.
LEMMA FilesTyped ==
    ASSUME TypeOK
    PROVE  /\ inode \in Seq(Contents)
           /\ Len(inode) \in Nat
           /\ \A i \in 1 .. Len(inode) : inode[i] \in Contents /\ Len(inode[i]) \in 0 .. MaxSize
<1>1. inode \in Seq(Contents)
  BY DEF TypeOK
<1>2. Len(inode) \in Nat
  BY <1>1, LenProperties
<1>3. ASSUME NEW i \in 1 .. Len(inode)
      PROVE  inode[i] \in Contents /\ Len(inode[i]) \in 0 .. MaxSize
  BY <1>1, ElementOfSeq, LengthOfContent
<1> QED
  BY <1>1, <1>2, <1>3

\* No name of a file is NoFile.
LEMMA NamesAreFiles ==
    ASSUME IInv
    PROVE  \A i \in 1 .. Len(inode) : i \in Inodes /\ i # NoFile
BY FilesTyped, NoFileAssumption, BoundsAssumption DEF IInv, TypeOK, Inodes

\* Sets of requests can be counted.
LEMMA CreatingCounted ==
    ASSUME NEW S \in SUBSET Aggregators
    PROVE  IsFiniteSet(S) /\ Cardinality(S) \in Nat
BY AggregatorsAssumption, FS_Subset, FS_CardinalityType

\* The download and its properties are not touched by a step of the server.
LEMMA ServerKeeps ==
    ASSUME IInv, AggregatorOnly, inode' \in Seq(Contents),
           aggregator' \in [Aggregators -> Locals], global' \in Descriptor \cup {NoFile},
           saves' \in 0 .. MaxSaves, overlapped' \in BOOLEAN, overlapped => overlapped',
           Counted', Named', Opened', ~overlapped' => Orderly'
    PROVE  IInv'
<1>1. UNCHANGED <<client, handler, expired, destination, online>>
  BY DEF AggregatorOnly, clientVars
<1>2. Len(inode') \in Nat /\ Len(inode') <= MaxSaves
  <2> DEFINE B == Creating'
  <2>1. B \in SUBSET Aggregators
    BY DEF Creating
  <2>2. Len(inode') + Cardinality(B) <= saves'
    BY DEF Counted
  <2> HIDE DEF B
  <2>3. Cardinality(B) \in Nat /\ Len(inode') \in Nat
    BY <2>1, CreatingCounted, LenProperties
  <2> QED
    BY <2>2, <2>3, BoundsAssumption
<1>3. {temporary', output'} \subseteq Inodes \cup {NoFile}
  BY <1>2, BoundsAssumption DEF Named, Inodes
<1>4. TypeOK'
  BY <1>1, <1>2, <1>3 DEF IInv, TypeOK, Locals
<1>5. Verifying' /\ DownloadIsWhole'
  BY <1>1 DEF IInv, TypeOK, Verifying, Reading, DownloadIsWhole
<1> QED
  BY <1>4, <1>5 DEF IInv

\* Nor is the server by a step of the download.
LEMMA ClientKeeps ==
    ASSUME IInv, UNCHANGED serverVars,
           client' \in [pc : {"idle", "refresh", "request", "await", "reconnect", "verify"},
                        descriptor : Descriptor \cup {NoFile}, part : Contents,
                        attempt : 1 .. Attempts],
           handler' \in [pc : {"none", "lookup", "read"}, descriptor : Descriptor \cup {NoFile}],
           online' \in BOOLEAN, expired' \in BOOLEAN, destination' \in Contents \cup {NoFile},
           Verifying', DownloadIsWhole',
           ~overlapped => Announced(handler'.descriptor) /\ Announced(client'.descriptor)
    PROVE  IInv'
<1>1. UNCHANGED <<inode, temporary, output, aggregator, global, saves, overlapped>>
  BY DEF serverVars, fileVars
<1>2. TypeOK'
  BY <1>1 DEF IInv, TypeOK
<1>3. Counted' /\ Named'
  BY <1>1 DEF IInv, Counted, Creating, At, Named
<1>4. Opened'
  BY <1>1 DEF IInv, Opened, InHandler, At
<1>5. ASSUME ~overlapped'
      PROVE  Orderly'
  <2>1. Orderly
    BY <1>1, <1>5 DEF IInv
  <2>2. Alone' /\ Saving' /\ Complete'
    BY <1>1, <2>1 DEF Orderly, Alone, Saving, Complete, InHandler, At
  <2>3. Described'
    BY <1>1, <2>1 DEF Orderly, Described, Replaced, At
  <2>4. Circulating'
    BY <1>1, <1>5, <2>1 DEF Orderly, Circulating, Announced
  <2> QED
    BY <2>2, <2>3, <2>4 DEF Orderly
<1> QED
  BY <1>2, <1>3, <1>4, <1>5 DEF IInv

\* One request moves on, the others stay where they are.
OneMoves(a) ==
    /\ aggregator' \in [Aggregators -> Locals]
    /\ \A b \in Aggregators \ {a} : aggregator'[b] = aggregator[b]

\* An update of the locals of one request is such a move.
LEMMA Moves ==
    ASSUME IInv, NEW a \in Aggregators, NEW R \in Locals,
           aggregator' = [aggregator EXCEPT ![a] = R]
    PROVE  OneMoves(a) /\ aggregator'[a] = R
BY DEF IInv, TypeOK, Locals, OneMoves

\* Unless one begins to create its file, nothing is counted.
LEMMA CountedKept ==
    ASSUME IInv, NEW a \in Aggregators, OneMoves(a), aggregator'[a].pc # "create",
           Len(inode') = Len(inode), saves' = saves
    PROVE  Counted'
<1> DEFINE A == Creating
           B == Creating'
<1>1. B \in SUBSET A /\ A \in SUBSET Aggregators
  BY DEF Creating, At, OneMoves
<1>2. Len(inode) + Cardinality(A) <= saves
  BY DEF IInv, Counted
<1> HIDE DEF A, B
<1>3. /\ Cardinality(A) \in Nat /\ Cardinality(B) \in Nat /\ Cardinality(B) <= Cardinality(A)
  BY <1>1, CreatingCounted, FS_Subset
<1>4. Len(inode) \in Nat /\ saves \in Nat
  BY FilesTyped DEF IInv, TypeOK
<1>5. Len(inode') + Cardinality(B) <= saves'
  BY <1>2, <1>3, <1>4
<1> QED
  BY <1>5 DEF Counted, B

\* In an orderly server the others are idle,
LEMMA OthersIdle ==
    ASSUME Orderly, NEW a \in Aggregators, InHandler(a), OneMoves(a)
    PROVE  \A b \in Aggregators : aggregator'[b].pc # "idle" => b = a
BY DEF Orderly, Alone, InHandler, OneMoves

\* so that the order of things is a matter of the one that moves.
LEMMA OrderlyByOne ==
    ASSUME NEW a \in Aggregators, \A b \in Aggregators : aggregator'[b].pc # "idle" => b = a,
           aggregator'[a].pc = "write" =>
               /\ temporary' = aggregator'[a].inode
               /\ inode'[temporary'] = [i \in 1 .. aggregator'[a].at |-> aggregator'[a].model],
           aggregator'[a].pc = "replace" =>
               temporary' # NoFile /\ inode'[temporary'] = Whole(aggregator'[a].model),
           aggregator'[a].pc \in {"stat", "publish"} => aggregator'[a].digest = inode'[output'],
           aggregator'[a].pc = "publish" =>
               aggregator'[a].bytes = Len(inode'[output']) /\ output' # NoFile,
           aggregator'[a].pc \notin {"digest", "stat", "publish"} =>
               IF global' = NoFile
               THEN output' = NoFile
               ELSE /\ output' # NoFile
                    /\ inode'[output'] = global'.digest
                    /\ Len(inode'[output']) = global'.bytes,
           Complete', Circulating'
    PROVE  Orderly'
<1>1. Alone'
  BY DEF Alone, InHandler
<1>2. Saving'
  <2> SUFFICES ASSUME NEW b \in Aggregators, b = a
               PROVE  /\ aggregator'[b].pc = "write" =>
                             /\ temporary' = aggregator'[b].inode
                             /\ inode'[temporary'] =
                                    [i \in 1 .. aggregator'[b].at |-> aggregator'[b].model]
                      /\ aggregator'[b].pc = "replace" =>
                             temporary' # NoFile /\ inode'[temporary'] = Whole(aggregator'[b].model)
                      /\ aggregator'[b].pc \in {"stat", "publish"} =>
                             aggregator'[b].digest = inode'[output']
                      /\ aggregator'[b].pc = "publish" =>
                             aggregator'[b].bytes = Len(inode'[output']) /\ output' # NoFile
    BY DEF Saving, At
  <2> QED
    OBVIOUS
<1>3. Described'
  BY DEF Described, Replaced, At
<1> QED
  BY <1>1, <1>2, <1>3 DEF Orderly

-----------------------------------------------------------------------------
\* The aggregate handler

\* A request at rest.
LEMMA IdleTyped == Idle \in Locals
<1> DEFINE e == <<>>
<1>1. e \in Contents /\ 0 \in 0 .. MaxSize
  BY EmptyContent, SizesBounded
<1>2. Idle = [pc |-> "idle", model |-> 0, inode |-> NoFile, at |-> 0, digest |-> e, bytes |-> 0]
  BY DEF Idle
<1> HIDE DEF e
<1> QED
  BY <1>1, <1>2 DEF Locals

\* A request comes in.  If another is in progress the two overlap.
LEMMA AggregateStep ==
    ASSUME IInv, NEW a \in Aggregators, NEW m \in Models, Aggregate(a, m)
    PROVE  IInv'
<1> DEFINE R == [Idle EXCEPT !.pc = "create", !.model = m]
<1>1. /\ aggregator[a].pc = "idle" /\ saves' = saves + 1 /\ saves < MaxSaves
      /\ overlapped' = (overlapped \/ \E b \in Aggregators \ {a} : InHandler(b))
      /\ UNCHANGED <<inode, temporary, output, global>> /\ AggregatorOnly
      /\ aggregator' = [aggregator EXCEPT ![a] = R]
  BY DEF Aggregate, At, fileVars
<1>2. R \in Locals /\ R.pc = "create" /\ R.model = m /\ R.at = 0
  <2>1. Idle.at = 0
    BY DEF Idle
  <2> QED
    BY <2>1, IdleTyped DEF Locals
<1> HIDE DEF R
<1>3. OneMoves(a) /\ aggregator'[a] = R
  BY <1>1, <1>2, Moves
<1>4. Counted'
  <2> DEFINE A == Creating
             B == Creating'
  <2>1. B = A \cup {a} /\ A \in SUBSET Aggregators /\ a \notin A
    BY <1>1, <1>2, <1>3 DEF Creating, At, OneMoves
  <2>2. Len(inode) + Cardinality(A) <= saves
    BY DEF IInv, Counted
  <2> HIDE DEF A, B
  <2>3. Cardinality(B) = Cardinality(A) + 1 /\ Cardinality(A) \in Nat
    BY <2>1, CreatingCounted, FS_AddElement
  <2>4. Len(inode) \in Nat /\ saves \in Nat
    BY FilesTyped DEF IInv, TypeOK
  <2>5. Len(inode') + Cardinality(B) <= saves'
    BY <1>1, <2>2, <2>3, <2>4
  <2> QED
    BY <2>5 DEF Counted, B
<1>5. Named'
  BY <1>1 DEF IInv, Named
<1>6. Opened'
  BY <1>1, <1>2, <1>3 DEF IInv, Opened, InHandler, At, OneMoves
<1>7. ASSUME ~overlapped'
      PROVE  Orderly'
  <2>1. Orderly /\ \A b \in Aggregators : aggregator[b].pc = "idle"
    BY <1>1, <1>7 DEF IInv, InHandler
  <2>2. \A b \in Aggregators : aggregator'[b].pc # "idle" => b = a
    BY <1>3, <2>1 DEF OneMoves
  <2>3. Complete' /\ Circulating'
    BY <1>1, <2>1 DEF Orderly, Complete, Circulating, Announced, AggregatorOnly, clientVars
  <2>4. IF global' = NoFile
        THEN output' = NoFile
        ELSE /\ output' # NoFile
             /\ inode'[output'] = global'.digest
             /\ Len(inode'[output']) = global'.bytes
    BY <1>1, <2>1 DEF Orderly, Described, Replaced, At
  <2> QED
    BY <1>2, <1>3, <2>2, <2>3, <2>4, OrderlyByOne
<1>8. saves' \in 0 .. MaxSaves /\ overlapped' \in BOOLEAN
  BY <1>1, BoundsAssumption DEF IInv, TypeOK
<1> QED
  BY <1>1, <1>3, <1>4, <1>5, <1>6, <1>7, <1>8, ServerKeeps DEF IInv, TypeOK, OneMoves

\* The temporary file is created or truncated; the published file is another one.
LEMMA CreateStep ==
    ASSUME IInv, NEW a \in Aggregators, Create(a)
    PROVE  IInv'
<1> DEFINE r == aggregator[a]
           R == [r EXCEPT !.pc = "write", !.inode = temporary']
<1>1. /\ r.pc = "create" /\ UNCHANGED <<output, global, saves, overlapped>> /\ AggregatorOnly
      /\ aggregator' = [aggregator EXCEPT ![a].pc = "write", ![a].inode = temporary']
  BY DEF Create, At
<1>2. r \in Locals /\ r.model \in Models /\ r.at = 0
  BY <1>1 DEF IInv, TypeOK, Locals, Opened, InHandler, At
<1>3. Len(inode) \in Nat /\ inode \in Seq(Contents) /\ saves \in Nat
  BY FilesTyped DEF IInv, TypeOK
<1>4. /\ inode' \in Seq(Contents)
      /\ Len(inode') \in {Len(inode), Len(inode) + 1}
      /\ temporary' \in 1 .. Len(inode') /\ inode'[temporary'] = <<>>
      /\ \A i \in 1 .. Len(inode) : i # temporary => inode'[i] = inode[i] /\ i # temporary'
  <2>1. CASE temporary = NoFile
    <3>1. inode' = Append(inode, <<>>) /\ temporary' = Len(inode')
      BY <2>1 DEF Create
    <3>2. /\ inode' \in Seq(Contents) /\ Len(inode') = Len(inode) + 1
          /\ \A i \in 1 .. Len(inode) : inode'[i] = inode[i]
          /\ inode'[Len(inode) + 1] = <<>>
      BY <1>3, <3>1, AppendProperties, EmptyContent
    <3> QED
      BY <1>3, <3>1, <3>2
  <2>2. CASE temporary # NoFile
    <3>1. inode' = [inode EXCEPT ![temporary] = <<>>] /\ temporary' = temporary
      BY <2>2 DEF Create
    <3>2. temporary \in 1 .. Len(inode)
      BY <2>2 DEF IInv, Named
    <3>3. /\ inode' \in Seq(Contents) /\ Len(inode') = Len(inode)
          /\ \A i \in 1 .. Len(inode) : inode'[i] = IF i = temporary THEN <<>> ELSE inode[i]
      BY <1>3, <3>1, <3>2, ExceptSeq, EmptyContent
    <3> QED
      BY <3>1, <3>2, <3>3
  <2> QED
    BY <2>1, <2>2
<1>5. \A i \in 1 .. Len(inode) : i \in 1 .. Len(inode')
  BY <1>3, <1>4
<1>6. Creating \in SUBSET Aggregators /\ a \in Creating /\ Creating \ {a} \in SUBSET Aggregators
  BY <1>1 DEF Creating, At
<1>7. Len(inode') + Cardinality(Creating \ {a}) <= saves
  <2>1. Cardinality(Creating \ {a}) = Cardinality(Creating) - 1 /\ Cardinality(Creating) \in Nat
    BY <1>6, CreatingCounted, FS_RemoveElement
  <2>2. Len(inode) + Cardinality(Creating) <= saves
    BY DEF IInv, Counted
  <2> QED
    BY <1>3, <1>4, <2>1, <2>2
<1>8. temporary' \in Inodes
  <2>1. Cardinality(Creating \ {a}) \in Nat
    BY <1>6, CreatingCounted
  <2>2. Len(inode') <= MaxSaves
    BY <1>3, <1>4, <1>7, <2>1, BoundsAssumption DEF IInv, TypeOK
  <2> QED
    BY <1>3, <1>4, <2>2, BoundsAssumption DEF Inodes
<1>9. /\ R \in Locals /\ R.pc = "write" /\ R.model = r.model /\ R.at = 0
      /\ R.inode = temporary'
  BY <1>2, <1>8 DEF Locals
<1>10. aggregator' = [aggregator EXCEPT ![a] = R]
  BY <1>1 DEF IInv, TypeOK
<1> HIDE DEF R
<1>11. OneMoves(a) /\ aggregator'[a] = R
  BY <1>9, <1>10, Moves
<1>12. Counted'
  <2>1. Creating' = Creating \ {a}
    BY <1>9, <1>11 DEF Creating, At, OneMoves
  <2> QED
    BY <1>1, <1>7, <2>1 DEF Counted
<1>13. Named'
  BY <1>1, <1>4, <1>5 DEF IInv, Named
<1>14. Opened'
  <2>1. R.at < Size[R.model]
    <3>1. Size[r.model] \in Nat \ {0}
      BY <1>2, ModelsAssumption
    <3> QED
      BY <1>9, <3>1
  <2> QED
    BY <1>1, <1>2, <1>4, <1>5, <1>9, <1>11, <2>1 DEF IInv, Opened, InHandler, At, OneMoves
<1>15. ASSUME ~overlapped'
       PROVE  Orderly'
  <2>1. Orderly /\ InHandler(a)
    BY <1>1, <1>15 DEF IInv, InHandler
  <2>2. \A b \in Aggregators : aggregator'[b].pc # "idle" => b = a
    BY <1>11, <2>1, OthersIdle
  <2>3. output # NoFile => inode'[output] = inode[output] /\ output # temporary'
    BY <1>4, <2>1 DEF IInv, Named, Orderly, Complete
  <2>4. Complete' /\ Circulating'
    BY <1>1, <2>1, <2>3 DEF Orderly, Complete, Circulating, Announced, AggregatorOnly, clientVars
  <2>5. ~Replaced
    BY <1>1, <2>1 DEF Replaced, Orderly, Alone, InHandler, At
  <2>6. IF global' = NoFile
        THEN output' = NoFile
        ELSE /\ output' # NoFile
             /\ inode'[output'] = global'.digest
             /\ Len(inode'[output']) = global'.bytes
    BY <1>1, <2>1, <2>3, <2>5 DEF Orderly, Described
  <2>7. [i \in 1 .. 0 |-> R.model] = <<>>
    OBVIOUS
  <2> QED
    BY <1>4, <1>9, <1>11, <2>2, <2>4, <2>6, <2>7, OrderlyByOne
<1> QED
  BY <1>1, <1>4, <1>11, <1>12, <1>13, <1>14, <1>15, ServerKeeps DEF IInv, TypeOK, OneMoves

\* A request that fails leaves the files as they are.
LEMMA QuitStep ==
    ASSUME IInv, NEW a \in Aggregators, InHandler(a), ~At(a, "create"), Quit(a),
           ~overlapped => At(a, "write") \/ At(a, "replace"),
           UNCHANGED <<fileVars, global, saves, overlapped>>, AggregatorOnly
    PROVE  IInv'
<1>1. UNCHANGED <<inode, temporary, output, global, saves, overlapped>>
  BY DEF fileVars
<1>2. OneMoves(a) /\ aggregator'[a] = Idle
  BY IdleTyped, Moves DEF Quit
<1>3. Idle.pc = "idle"
  BY DEF Idle
<1>4. Counted' /\ Named'
  BY <1>1, <1>2, <1>3, CountedKept DEF IInv, Named
<1>5. Opened'
  BY <1>1, <1>2, <1>3 DEF IInv, Opened, InHandler, At, OneMoves
<1>6. ASSUME ~overlapped'
      PROVE  Orderly'
  <2>1. Orderly /\ (At(a, "write") \/ At(a, "replace"))
    BY <1>1, <1>6 DEF IInv
  <2>2. \A b \in Aggregators : aggregator'[b].pc # "idle" => b = a
    BY <1>2, <2>1, OthersIdle
  <2>3. Complete' /\ Circulating'
    BY <1>1, <2>1 DEF Orderly, Complete, Circulating, Announced, AggregatorOnly, clientVars
  <2>4. ~Replaced
    BY <2>1 DEF Replaced, Orderly, Alone, InHandler, At
  <2>5. IF global' = NoFile
        THEN output' = NoFile
        ELSE /\ output' # NoFile
             /\ inode'[output'] = global'.digest
             /\ Len(inode'[output']) = global'.bytes
    BY <1>1, <2>1, <2>4 DEF Orderly, Described
  <2> QED
    BY <1>2, <1>3, <2>2, <2>3, <2>5, OrderlyByOne
<1> QED
  BY <1>1, <1>2, <1>4, <1>5, <1>6, ServerKeeps DEF IInv, TypeOK, OneMoves

\* The prefix of the checkpoint grows, and at the end is a whole model.
LEMMA WriteStep ==
    ASSUME IInv, NEW a \in Aggregators, Write(a)
    PROVE  IInv'
<1> DEFINE r == aggregator[a]
           i == r.at + 1
           m == r.model
           next == IF i = Size[m] THEN "replace" ELSE "write"
           R == [r EXCEPT !.at = i, !.pc = next]
<1>1. /\ r.pc = "write" /\ UNCHANGED <<temporary, output, global, saves, overlapped>>
      /\ AggregatorOnly
  BY DEF Write, At
<1>2. /\ r \in Locals /\ m \in Models /\ r.inode \in 1 .. Len(inode) /\ r.at < Size[m]
  BY <1>1 DEF IInv, TypeOK, Locals, Opened, InHandler, At
<1>3. CASE Quit(a) /\ UNCHANGED inode
  BY <1>1, <1>3, QuitStep DEF InHandler, At, fileVars
<1>4. CASE /\ inode' = [inode EXCEPT ![r.inode] = Written(@, i, m)]
           /\ aggregator' = [aggregator EXCEPT ![a].at = i, ![a].pc = next]
  <2>1. /\ MaxSize \in Nat /\ Size[m] \in 1 .. MaxSize /\ r.at \in Nat
        /\ i \in 1 .. MaxSize /\ i \in 0 .. MaxSize
    BY <1>2, SizesBounded DEF Locals
  <2>2. /\ inode' \in Seq(Contents) /\ Len(inode') = Len(inode)
        /\ \A j \in 1 .. Len(inode) : j # r.inode => inode'[j] = inode[j]
        /\ inode'[r.inode] = Written(inode[r.inode], i, m)
    <3>1. inode[r.inode] \in Contents /\ inode \in Seq(Contents)
      BY <1>2, FilesTyped DEF IInv
    <3>2. Written(inode[r.inode], i, m) \in Contents
      BY <1>2, <2>1, <3>1, WrittenIsContent
    <3>3. inode' = [inode EXCEPT ![r.inode] = Written(inode[r.inode], i, m)]
      BY <1>2, <1>4, <3>1
    <3> QED
      BY <1>2, <3>1, <3>2, <3>3, ExceptSeq
  <2>3. /\ R \in Locals /\ R.pc = next /\ R.at = i /\ R.model = m /\ R.inode = r.inode
    BY <1>2, <2>1 DEF Locals
  <2>4. aggregator' = [aggregator EXCEPT ![a] = R]
    BY <1>4 DEF IInv, TypeOK
  <2>5. next \in {"replace", "write"} /\ (next = "replace" <=> i = Size[m])
    OBVIOUS
  <2> HIDE DEF R, next
  <2>6. OneMoves(a) /\ aggregator'[a] = R
    BY <2>3, <2>4, Moves
  <2>7. Counted' /\ Named'
    BY <1>1, <2>2, <2>3, <2>5, <2>6, CountedKept DEF IInv, Named
  <2>8. Opened'
    <3>1. next = "write" => i < Size[m]
      BY <1>2, <2>1, <2>5
    <3> QED
      BY <1>1, <1>2, <2>2, <2>3, <2>5, <2>6, <3>1 DEF IInv, Opened, InHandler, At, OneMoves
  <2>9. ASSUME ~overlapped'
        PROVE  Orderly'
    <3>1. Orderly /\ InHandler(a)
      BY <1>1, <2>9 DEF IInv, InHandler
    <3>2. \A b \in Aggregators : aggregator'[b].pc # "idle" => b = a
      BY <2>6, <3>1, OthersIdle
    <3>3. temporary = r.inode /\ inode[r.inode] = [j \in 1 .. r.at |-> m]
      BY <1>1, <3>1 DEF Orderly, Saving, At
    <3>4. inode'[r.inode] = [j \in 1 .. i |-> m]
      <4>1. r.at \in 0 .. MaxSize /\ r.at + 1 <= MaxSize
        BY <2>1
      <4>2. Written([j \in 1 .. r.at |-> m], i, m) = [j \in 1 .. i |-> m]
        BY <1>2, <4>1, WrittenAtEnd
      <4>3. inode'[r.inode] = Written(inode[r.inode], i, m)
        BY <2>2
      <4> QED
        BY <3>3, <4>2, <4>3, Zenon
    <3>5. next = "replace" => inode'[r.inode] = Whole(m)
      BY <2>5, <3>4 DEF Whole
    <3>6. output # NoFile => inode'[output] = inode[output]
      BY <2>2, <3>1, <3>3 DEF IInv, Named, Orderly, Complete
    <3>7. Complete' /\ Circulating'
      BY <1>1, <3>1, <3>6 DEF Orderly, Complete, Circulating, Announced, AggregatorOnly, clientVars
    <3>8. ~Replaced
      BY <1>1, <3>1 DEF Replaced, Orderly, Alone, InHandler, At
    <3>9. IF global' = NoFile
          THEN output' = NoFile
          ELSE /\ output' # NoFile
               /\ inode'[output'] = global'.digest
               /\ Len(inode'[output']) = global'.bytes
      BY <1>1, <3>1, <3>6, <3>8 DEF Orderly, Described
    <3>10. r.inode # NoFile
      BY <1>2, NamesAreFiles
    <3> QED
      BY <1>1, <2>3, <2>5, <2>6, <3>2, <3>3, <3>4, <3>5, <3>7, <3>9, <3>10, OrderlyByOne
  <2> QED
    BY <1>1, <2>2, <2>6, <2>7, <2>8, <2>9, ServerKeeps DEF IInv, TypeOK, OneMoves
<1> QED
  BY <1>3, <1>4 DEF Write

\* The temporary file becomes the published one, whole as it is.
LEMMA ReplaceStep ==
    ASSUME IInv, NEW a \in Aggregators, Replace(a)
    PROVE  IInv'
<1> DEFINE r == aggregator[a]
           R == [r EXCEPT !.pc = "digest"]
<1>1. r.pc = "replace" /\ UNCHANGED <<global, saves, overlapped>> /\ AggregatorOnly
  BY DEF Replace, At
<1>2. CASE Quit(a) /\ UNCHANGED fileVars
  BY <1>1, <1>2, QuitStep DEF InHandler, At
<1>3. CASE /\ temporary # NoFile /\ output' = temporary /\ temporary' = NoFile
           /\ Go(a, "digest") /\ UNCHANGED inode
  <2>1. R \in Locals /\ R.pc = "digest" /\ R.model = r.model /\ r.model \in Models
    BY <1>1 DEF IInv, TypeOK, Locals, Opened, InHandler, At
  <2>2. aggregator' = [aggregator EXCEPT ![a] = R]
    BY <1>3 DEF Go, IInv, TypeOK
  <2> HIDE DEF R
  <2>3. OneMoves(a) /\ aggregator'[a] = R
    BY <2>1, <2>2, Moves
  <2>4. Counted' /\ Named'
    BY <1>1, <1>3, <2>1, <2>3, CountedKept DEF IInv, Named
  <2>5. Opened'
    BY <1>3, <2>1, <2>3 DEF IInv, Opened, InHandler, At, OneMoves
  <2>6. ASSUME ~overlapped'
        PROVE  Orderly'
    <3>1. Orderly /\ InHandler(a)
      BY <1>1, <2>6 DEF IInv, InHandler
    <3>2. \A b \in Aggregators : aggregator'[b].pc # "idle" => b = a
      BY <2>3, <3>1, OthersIdle
    <3>3. inode'[output'] = Whole(r.model)
      BY <1>1, <1>3, <3>1 DEF Orderly, Saving, At
    <3>4. Complete'
      BY <1>3, <2>1, <3>3 DEF Complete, IsWhole
    <3>5. Circulating'
      BY <1>1, <3>1 DEF Orderly, Circulating, Announced, AggregatorOnly, clientVars
    <3> QED
      BY <2>1, <2>3, <3>2, <3>4, <3>5, OrderlyByOne
  <2> QED
    BY <1>1, <1>3, <2>3, <2>4, <2>5, <2>6, ServerKeeps DEF IInv, TypeOK, OneMoves
<1> QED
  BY <1>2, <1>3 DEF Replace

\* Digest and size are of the published file,
LEMMA DigestStep ==
    ASSUME IInv, NEW a \in Aggregators, Digest(a)
    PROVE  IInv'
<1> DEFINE r == aggregator[a]
           R == [r EXCEPT !.digest = inode[output], !.pc = "stat"]
<1>1. /\ r.pc = "digest" /\ AggregatorOnly
      /\ UNCHANGED <<inode, temporary, output, global, saves, overlapped>>
      /\ aggregator' = [aggregator EXCEPT ![a].digest = inode[output], ![a].pc = "stat"]
  BY DEF Digest, At, fileVars
<1>2. inode[output] \in Contents
  BY <1>1, FilesTyped DEF IInv, Opened, Named, At
<1>3. /\ R \in Locals /\ R.pc = "stat" /\ R.digest = inode[output] /\ R.model = r.model
      /\ r.model \in Models /\ output # NoFile
  BY <1>1, <1>2 DEF IInv, TypeOK, Locals, Opened, InHandler, At
<1>4. aggregator' = [aggregator EXCEPT ![a] = R]
  BY <1>1 DEF IInv, TypeOK
<1> HIDE DEF R
<1>5. OneMoves(a) /\ aggregator'[a] = R
  BY <1>3, <1>4, Moves
<1>6. Counted' /\ Named'
  BY <1>1, <1>3, <1>5, CountedKept DEF IInv, Named
<1>7. Opened'
  BY <1>1, <1>3, <1>5 DEF IInv, Opened, InHandler, At, OneMoves
<1>8. ASSUME ~overlapped'
      PROVE  Orderly'
  <2>1. Orderly /\ InHandler(a)
    BY <1>1, <1>8 DEF IInv, InHandler
  <2>2. \A b \in Aggregators : aggregator'[b].pc # "idle" => b = a
    BY <1>5, <2>1, OthersIdle
  <2>3. Complete' /\ Circulating'
    BY <1>1, <2>1 DEF Orderly, Complete, Circulating, Announced, AggregatorOnly, clientVars
  <2> QED
    BY <1>1, <1>3, <1>5, <2>2, <2>3, OrderlyByOne
<1> QED
  BY <1>1, <1>5, <1>6, <1>7, <1>8, ServerKeeps DEF IInv, TypeOK, OneMoves

\* which nobody replaces in between,
LEMMA StatStep ==
    ASSUME IInv, NEW a \in Aggregators, Stat(a)
    PROVE  IInv'
<1> DEFINE r == aggregator[a]
           R == [r EXCEPT !.bytes = Len(inode[output]), !.pc = "publish"]
<1>1. /\ r.pc = "stat" /\ AggregatorOnly
      /\ UNCHANGED <<inode, temporary, output, global, saves, overlapped>>
      /\ aggregator' = [aggregator EXCEPT ![a].bytes = Len(inode[output]), ![a].pc = "publish"]
  BY DEF Stat, At, fileVars
<1>2. Len(inode[output]) \in 0 .. MaxSize
  BY <1>1, FilesTyped DEF IInv, Opened, Named, At
<1>3. /\ R \in Locals /\ R.pc = "publish" /\ R.digest = r.digest /\ R.model = r.model
      /\ R.bytes = Len(inode[output]) /\ r.model \in Models /\ output # NoFile
  BY <1>1, <1>2 DEF IInv, TypeOK, Locals, Opened, InHandler, At
<1>4. aggregator' = [aggregator EXCEPT ![a] = R]
  BY <1>1 DEF IInv, TypeOK
<1> HIDE DEF R
<1>5. OneMoves(a) /\ aggregator'[a] = R
  BY <1>3, <1>4, Moves
<1>6. Counted' /\ Named'
  BY <1>1, <1>3, <1>5, CountedKept DEF IInv, Named
<1>7. Opened'
  BY <1>1, <1>3, <1>5 DEF IInv, Opened, InHandler, At, OneMoves
<1>8. ASSUME ~overlapped'
      PROVE  Orderly'
  <2>1. Orderly /\ InHandler(a)
    BY <1>1, <1>8 DEF IInv, InHandler
  <2>2. \A b \in Aggregators : aggregator'[b].pc # "idle" => b = a
    BY <1>5, <2>1, OthersIdle
  <2>3. Complete' /\ Circulating'
    BY <1>1, <2>1 DEF Orderly, Complete, Circulating, Announced, AggregatorOnly, clientVars
  <2>4. r.digest = inode[output]
    BY <1>1, <2>1 DEF Orderly, Saving, At
  <2> QED
    BY <1>1, <1>3, <1>5, <2>2, <2>3, <2>4, OrderlyByOne
<1> QED
  BY <1>1, <1>5, <1>6, <1>7, <1>8, ServerKeeps DEF IInv, TypeOK, OneMoves

\* so the descriptor published belongs to it.
LEMMA PublishStep ==
    ASSUME IInv, NEW a \in Aggregators, Publish(a)
    PROVE  IInv'
<1> DEFINE r == aggregator[a]
           d == [digest |-> r.digest, bytes |-> r.bytes]
<1>1. /\ r.pc = "publish" /\ AggregatorOnly /\ global' = d /\ Quit(a)
      /\ UNCHANGED <<inode, temporary, output, saves, overlapped>>
  BY DEF Publish, At, fileVars
<1>2. d \in Descriptor /\ d.digest = r.digest /\ d.bytes = r.bytes
  BY DEF IInv, TypeOK, Descriptor
<1> HIDE DEF d
<1>3. OneMoves(a) /\ aggregator'[a] = Idle /\ Idle.pc = "idle"
  BY <1>1, IdleTyped, Moves DEF Quit, Idle
<1>4. Counted' /\ Named'
  BY <1>1, <1>3, CountedKept DEF IInv, Named
<1>5. Opened'
  BY <1>1, <1>3 DEF IInv, Opened, InHandler, At, OneMoves
<1>6. ASSUME ~overlapped'
      PROVE  Orderly'
  <2>1. Orderly /\ InHandler(a)
    BY <1>1, <1>6 DEF IInv, InHandler
  <2>2. \A b \in Aggregators : aggregator'[b].pc # "idle" => b = a
    BY <1>3, <2>1, OthersIdle
  <2>3. r.digest = inode[output] /\ r.bytes = Len(inode[output]) /\ output # NoFile
    BY <1>1, <2>1 DEF Orderly, Saving, At
  <2>4. Complete'
    BY <1>1, <2>1 DEF Orderly, Complete
  <2>5. IsWhole(d.digest)
    BY <1>2, <2>1, <2>3 DEF Orderly, Complete
  <2>6. Circulating'
    BY <1>1, <2>1, <2>5 DEF Orderly, Circulating, Announced, IsWhole, AggregatorOnly, clientVars
  <2>7. global' # NoFile
    BY <1>1, <1>2, NoFileAssumption
  <2> QED
    BY <1>1, <1>2, <1>3, <2>2, <2>3, <2>4, <2>6, <2>7, OrderlyByOne
<1> QED
  BY <1>1, <1>2, <1>3, <1>4, <1>5, <1>6, ServerKeeps DEF IInv, TypeOK, OneMoves

-----------------------------------------------------------------------------
\* The download

Client == [pc : {"idle", "refresh", "request", "await", "reconnect", "verify"},
           descriptor : Descriptor \cup {NoFile}, part : Contents, attempt : 1 .. Attempts]
Handler == [pc : {"none", "lookup", "read"}, descriptor : Descriptor \cup {NoFile}]

\* The state of a download and of a chunk request that are as they should be.
Sound(c) ==
    /\ c \in Client
    /\ c.pc = "verify" => c.descriptor # NoFile
    /\ ~overlapped => Announced(c.descriptor)
SoundRequest(h) == h \in Handler /\ (~overlapped => Announced(h.descriptor))

\* The invariant keeps download and chunk request that way.
LEMMA DownloadSound ==
    ASSUME IInv
    PROVE  /\ Sound(client) /\ SoundRequest(handler)
           /\ global \in Descriptor \cup {NoFile} /\ (~overlapped => Announced(global))
           /\ online \in BOOLEAN /\ expired \in BOOLEAN
           /\ destination \in Contents \cup {NoFile}
BY DEF IInv, TypeOK, Verifying, Reading, Orderly, Circulating, Sound, SoundRequest, Client,
       Handler

\* No download, and no request.
LEMMA NotReadingSound == Sound(NotReading) /\ SoundRequest(NoRequest)
<1> DEFINE e == <<>>
<1>1. e \in Contents /\ 1 \in 1 .. Attempts
  BY EmptyContent, BoundsAssumption
<1>2. NotReading = [pc |-> "idle", descriptor |-> NoFile, part |-> e, attempt |-> 1]
  BY DEF NotReading
<1> HIDE DEF e
<1>3. Sound(NotReading)
  BY <1>1, <1>2 DEF Sound, Client, Announced
<1> QED
  BY <1>3 DEF SoundRequest, NoRequest, Handler, Announced

\* Apart from a verified download, that is all there is to keep.
LEMMA SoundKept ==
    ASSUME IInv, UNCHANGED serverVars, Sound(client'), SoundRequest(handler'),
           online' \in BOOLEAN, expired' \in BOOLEAN, destination' \in Contents \cup {NoFile},
           destination' # NoFile /\ ~overlapped => IsWhole(destination')
    PROVE  IInv'
<1>1. overlapped' = overlapped
  BY DEF serverVars
<1>2. Verifying' /\ DownloadIsWhole'
  BY <1>1 DEF Verifying, Reading, DownloadIsWhole, IsWhole, Sound
<1> QED
  BY <1>2, ClientKeeps DEF Sound, SoundRequest, Client, Handler

\* Continue goes on with the descriptor of the chunk, or gives up.
LEMMA ContinueSound ==
    ASSUME Sound(client), NEW d \in Descriptor, ~overlapped => Announced(d),
           NEW part \in Seq(Chunks), NEW progress \in BOOLEAN
    PROVE  Sound(Continue(d, part, progress))
<1> DEFINE next == Continue(d, part, progress)
           done == [client EXCEPT !.pc = "verify", !.part = part, !.descriptor = d]
           more == [pc |-> "request", descriptor |-> d, part |-> part, attempt |-> 1]
<1>1. Len(part) \in Nat /\ d.bytes \in 0 .. MaxSize /\ MaxSize \in Nat
  BY LenProperties, SizesBounded DEF Descriptor
<1>2. ASSUME Len(part) <= d.bytes
      PROVE  Sound(done) /\ Sound(more)
  <2>1. part \in Contents
    BY <1>1, <1>2, ContentsAre
  <2>2. d # NoFile
    BY NoFileAssumption
  <2>3. 1 \in 1 .. Attempts
    BY BoundsAssumption
  <2> QED
    BY <2>1, <2>2, <2>3 DEF Sound, Client
<1>3. next = NotReading \/ (Len(part) <= d.bytes /\ next \in {done, more})
  BY <1>1 DEF Continue
<1> HIDE DEF next, done, more
<1>4. Sound(next)
  BY <1>2, <1>3, NotReadingSound
<1> QED
  BY <1>4 DEF next

\* A chunk is read from whatever file is at the output path now.
LEMMA ServeStep ==
    ASSUME IInv, Serve
    PROVE  IInv'
<1> DEFINE d == handler.descriptor
           offset == Len(client.part)
           part == client.part \o Chunk(offset)
           next == Continue(d, part, Chunk(offset) # <<>>)
<1>1. UNCHANGED serverVars /\ UNCHANGED <<destination, expired, online>> /\ handler' = NoRequest
  BY DEF Serve
<1>2. Sound(client')
  <2>1. CASE d = NoFile \/ output = NoFile \/ offset > d.bytes
    BY <2>1, NotReadingSound DEF Serve, Fail
  <2>2. CASE ~(d = NoFile \/ output = NoFile \/ offset > d.bytes)
    <3>1. client' = next \/ (next.pc = "request" /\ client' = [next EXCEPT !.pc = "refresh"])
      BY <2>2 DEF Serve
    <3>2. d \in Descriptor /\ (~overlapped => Announced(d))
      BY <2>2, DownloadSound DEF SoundRequest, Handler
    <3>3. part \in Seq(Chunks)
      <4>1. client.part \in Seq(Chunks) /\ offset \in Nat
        BY DownloadSound, ContentsAre, LenProperties DEF Sound, Client
      <4>2. inode[output] \in Contents
        BY <2>2, FilesTyped DEF IInv, Named
      <4>3. inode[output] \in Seq(Chunks) /\ Len(inode[output]) \in Nat
        BY <4>2, ContentsAre, LenProperties
      <4>4. offset < Len(inode[output]) => inode[output][offset + 1] \in Chunks
        BY <4>1, <4>3, ElementOfSeq
      <4>5. Chunk(offset) \in Seq(Chunks)
        BY <4>4 DEF Chunk
      <4> QED
        BY <4>1, <4>5, ConcatProperties
    <3>4. Sound(next)
      <4>1. Sound(client) /\ (Chunk(offset) # <<>>) \in BOOLEAN
        BY DownloadSound
      <4> HIDE DEF d, part
      <4> QED
        BY <3>2, <3>3, <4>1, ContinueSound
    <3> HIDE DEF next
    <3>5. next.pc = "request" => Sound([next EXCEPT !.pc = "refresh"])
      BY <3>4 DEF Sound, Client
    <3> QED
      BY <3>1, <3>4, <3>5
  <2> QED
    BY <2>1, <2>2
<1> QED
  BY <1>1, <1>2, NotReadingSound, DownloadSound, SoundKept DEF IInv, DownloadIsWhole

\* The destination gets what has the digest of a whole model.
LEMMA VerifyStep ==
    ASSUME IInv, Verify
    PROVE  IInv'
<1>1. /\ client.pc = "verify" /\ client' = NotReading
      /\ UNCHANGED <<handler, expired, online>> /\ UNCHANGED serverVars
      /\ destination' = IF client.part = client.descriptor.digest
                        THEN client.part ELSE destination
  BY DEF Verify, Reading
<1>2. client.part \in Contents /\ destination \in Contents \cup {NoFile}
  BY DownloadSound DEF Sound, Client
<1>3. ~overlapped => IsWhole(client.descriptor.digest)
  BY <1>1, DownloadSound DEF Sound, Announced
<1>4. destination' # NoFile /\ ~overlapped => IsWhole(destination')
  BY <1>1, <1>3 DEF IInv, DownloadIsWhole
<1> QED
  BY <1>1, <1>2, <1>4, NotReadingSound, DownloadSound, SoundKept

\* The other steps of the session and of the client touch places, deadlines and attempts.
LEMMA OtherSteps ==
    ASSUME IInv,
           \/ Expire \/ Download \/ DeadlinePasses \/ Refresh \/ Request \/ RequestFails
           \/ Lookup \/ Reconnect
    PROVE  IInv'
<1>1. UNCHANGED serverVars /\ UNCHANGED destination
  BY DEF Expire, Download, DeadlinePasses, Refresh, Request, RequestFails, Lookup, Reconnect,
         NotServed, clientVars
<1>2. online' \in BOOLEAN /\ expired' \in BOOLEAN
  BY DownloadSound
  DEF Expire, Download, DeadlinePasses, Refresh, Request, RequestFails, Lookup, Reconnect,
      NotServed, clientVars
<1>3. ASSUME NEW pc \in {"refresh", "request", "await", "reconnect"}
      PROVE  /\ Sound([client EXCEPT !.pc = pc])
             /\ Sound([client EXCEPT !.pc = pc, !.attempt = 1])
             /\ Sound([NotReading EXCEPT !.pc = pc])
             /\ client.attempt # Attempts =>
                    Sound([client EXCEPT !.pc = pc, !.attempt = @ + 1])
  <2>1. /\ Sound(client) /\ Sound(NotReading)
        /\ 1 \in 1 .. Attempts /\ client.attempt \in 1 .. Attempts
        /\ client.attempt # Attempts => client.attempt + 1 \in 1 .. Attempts
    BY DownloadSound, NotReadingSound, BoundsAssumption DEF Sound, Client
  <2>2. \A c \in Client : Sound(c) => Sound([c EXCEPT !.pc = pc])
    BY DEF Sound, Client
  <2>3. \A c \in Client, n \in 1 .. Attempts :
            Sound(c) => Sound([c EXCEPT !.pc = pc, !.attempt = n])
    BY DEF Sound, Client
  <2>4. client \in Client /\ NotReading \in Client
    BY <2>1 DEF Sound
  <2> QED
    BY <2>1, <2>2, <2>3, <2>4
<1>4. Sound(client')
  BY <1>3, DownloadSound, NotReadingSound
  DEF Expire, Download, DeadlinePasses, Refresh, Request, RequestFails, Lookup, Reconnect,
      NotServed, clientVars, Fail
<1>5. SoundRequest(handler')
  <2>1. SoundRequest([pc |-> "lookup", descriptor |-> NoFile])
    BY DEF SoundRequest, Handler, Announced
  <2>2. SoundRequest([pc |-> "read", descriptor |-> global])
    BY DownloadSound DEF SoundRequest, Handler
  <2> QED
    BY <2>1, <2>2, DownloadSound, NotReadingSound
    DEF Expire, Download, DeadlinePasses, Refresh, Request, RequestFails, Lookup, Reconnect,
        NotServed, clientVars
<1> QED
  BY <1>1, <1>2, <1>4, <1>5, DownloadSound, SoundKept DEF IInv, DownloadIsWhole

-----------------------------------------------------------------------------
\* The invariant and the theorems

\* The invariant holds initially,
LEMMA InitInvariant == Init => IInv
<1> SUFFICES ASSUME Init
             PROVE  IInv
  OBVIOUS
<1>1. inode \in Seq(Contents) /\ Len(inode) = 0
  BY EmptySeq DEF Init
<1>2. \A a \in Aggregators : aggregator[a] = Idle
  BY DEF Init
<1>3. aggregator \in [Aggregators -> Locals]
  BY IdleTyped DEF Init
<1>4. Idle.pc = "idle"
  BY DEF Idle
<1>5. client = NotReading /\ handler = NoRequest
  BY DEF Init
<1>6. Sound(client) /\ SoundRequest(handler)
  BY <1>5, NotReadingSound
<1>7. TypeOK
  <2>1. Len(inode) <= MaxSaves /\ saves \in 0 .. MaxSaves
    BY <1>1, BoundsAssumption DEF Init
  <2>2. /\ {temporary, output} \subseteq Inodes \cup {NoFile}
        /\ global \in Descriptor \cup {NoFile} /\ destination \in Contents \cup {NoFile}
        /\ {online, expired, overlapped} \subseteq BOOLEAN
    BY DEF Init
  <2> QED
    BY <1>1, <1>3, <1>6, <2>1, <2>2 DEF TypeOK, Locals, Sound, SoundRequest, Client, Handler
<1>8. Counted
  <2>1. Creating = {}
    BY <1>2, <1>4 DEF Creating, At
  <2> QED
    BY <1>1, <2>1, FS_EmptySet DEF Init, Counted
<1>9. Named /\ Verifying /\ DownloadIsWhole
  BY <1>5 DEF Init, Named, Verifying, Reading, NotReading, DownloadIsWhole
<1>10. Opened /\ Alone /\ Saving
  BY <1>2, <1>4 DEF Opened, Alone, Saving, InHandler, At
<1>11. Complete /\ Described /\ Circulating
  BY <1>5 DEF Init, Complete, Described, Circulating, Announced, NotReading, NoRequest
<1> QED
  BY <1>7, <1>8, <1>9, <1>10, <1>11 DEF IInv, Orderly

\* every step keeps it,
LEMMA NextInvariant ==
    ASSUME IInv, [Next]_vars
    PROVE  IInv'
<1>1. CASE UNCHANGED vars
  <2>1. UNCHANGED serverVars /\ UNCHANGED <<client, handler, expired, destination, online>>
    BY <1>1 DEF vars, clientVars
  <2> QED
    BY <2>1, DownloadSound, SoundKept DEF IInv, DownloadIsWhole
<1>2. ASSUME NEW a \in Aggregators, AggregatorStep(a)
      PROVE  IInv'
  BY <1>2, CreateStep, WriteStep, ReplaceStep, DigestStep, StatStep, PublishStep
  DEF AggregatorStep
<1>3. ASSUME NEW a \in Aggregators, NEW m \in Models, Aggregate(a, m)
      PROVE  IInv'
  BY <1>3, AggregateStep
<1>4. CASE Expire \/ Download \/ DeadlinePasses \/ RequestFails \/ ClientStep
  BY <1>4, OtherSteps, ServeStep, VerifyStep DEF ClientStep
<1> QED
  BY <1>1, <1>2, <1>3, <1>4 DEF Next

\* and so it holds always.
LEMMA Invariant == Spec => []IInv
BY InitInvariant, NextInvariant, PTL DEF Spec

\* Type correctness.  Files are opened before they are written and every write stays
\* within the largest model, also when requests truncate each other's file.
THEOREM ModelTypeCorrect == Spec => []TypeOK
<1>1. IInv => TypeOK
  BY DEF IInv
<1> QED
  BY <1>1, Invariant, PTL

\* While no aggregate request is in progress and none overlapped, the published
\* descriptor describes the file at the output path.
THEOREM DescriptorMatchesFileHolds == Spec => []DescriptorMatchesFile
<1>1. IInv => DescriptorMatchesFile
  <2> SUFFICES ASSUME IInv, Quiet, ~overlapped
               PROVE  IF global = NoFile
                      THEN output = NoFile
                      ELSE /\ inode[output] = global.digest
                           /\ Len(inode[output]) = global.bytes
    BY DEF DescriptorMatchesFile
  <2>1. ~Replaced /\ Described
    BY DEF IInv, Orderly, Quiet, InHandler, Replaced, At
  <2> QED
    BY <2>1 DEF Described
<1> QED
  BY <1>1, Invariant, PTL

\* Whatever is replaced between two chunks or between a chunk's two halves, a download
\* that succeeds holds one whole model.
THEOREM DownloadIsWholeHolds == Spec => []DownloadIsWhole
<1>1. IInv => DownloadIsWhole
  BY DEF IInv
<1> QED
  BY <1>1, Invariant, PTL
=============================================================================
