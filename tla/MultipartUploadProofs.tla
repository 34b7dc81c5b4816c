------------------------ MODULE MultipartUploadProofs ------------------------
(***************************************************************************)
(* A completed multipart object is whole and an abort is final, for any    *)
(* number of parts and any limit.  The invariant: until the upload is      *)
(* finished or full, the next part number is that of the next call, so     *)
(* part i carries number i; complete and abort never both have a request;  *)
(* and when complete waited, its list is 1, ..., k for the k parts stored. *)
(* From the types of the list follows that an upload is one put: R2 has    *)
(* the data of call n under number n, so the object is the list.           *)
(***************************************************************************)
EXTENDS MultipartUpload, FiniteSetTheorems, TLAPS

\* The calls 1, ..., k in order.
Whole(k) == [i \in 1..k |-> i]

OkParts == {i \in PutIds : partAnswer[i] = "ok"}

FieldsOK ==
    /\ nextPart \in Nat
    /\ finished \in BOOLEAN
    /\ uploaded \in Seq(Nat)
    /\ puts \in 0..MaxPuts
    /\ number \in [PutIds -> Nat]
    /\ part \in [PutIds -> {"none", "sent", "stored", "rejected"}]
    /\ partAnswer \in [PutIds -> {"none", "ok", "Generic", "NotSupported", "Precondition"}]
    /\ ending \in [Kinds -> {"none", "running", "dropped", "ok", "Generic", "Precondition"}]
    /\ request \in [Kinds -> {"none", "sent", "done", "rejected"}]
    /\ waited \in BOOLEAN
    /\ r2Parts \in [1..MaxParts -> Nat]

PartInv(i) ==
    /\ i > puts => part[i] = "none" /\ partAnswer[i] = "none"
    /\ part[i] # "none" => number[i] = i /\ i <= MaxParts
    /\ partAnswer[i] = "ok" => part[i] = "stored"

NumberInv ==
    /\ ~finished /\ nextPart <= MaxParts => nextPart = puts + 1
    /\ \A n \in 1..MaxParts : r2Parts[n] \in {0, n}
    /\ Range(uploaded) = OkParts

EndInv ==
    /\ ~finished => ~waited /\ \A k \in Kinds : request[k] = "none"
    /\ request["abort"] = "none" \/ request["complete"] = "none"
    /\ \A k \in Kinds : ending[k] = "ok" => request[k] = "done"
    /\ request["complete"] = "none" => ~waited /\ object = <<>>

WaitedInv ==
    waited =>
        /\ \A i \in PutIds : part[i] # "none" => partAnswer[i] = "ok"
        /\ \E k \in 0..MaxParts : /\ OkParts = 1..k
                                  /\ list = Whole(k)
                                  /\ object # <<>> => object = Whole(k)

IInv == FieldsOK /\ (\A i \in PutIds : PartInv(i)) /\ NumberInv /\ EndInv /\ WaitedInv

----------------------------------------------------------------------------
\* Ranking the numbers 1, ..., k leaves each in its place.
LEMMA InOrderInterval ==
    ASSUME NEW k \in Nat
    PROVE  InOrder(1..k) = Whole(k)
<1>1. Cardinality(1..k) = k
  BY FS_Interval
<1>2. ASSUME NEW i \in 1..k
      PROVE  (CHOOSE n \in 1..k : Cardinality({m \in 1..k : m < n}) = i - 1) = i
  <2>1. ASSUME NEW n \in 1..k PROVE Cardinality({m \in 1..k : m < n}) = n - 1
    <3>1. {m \in 1..k : m < n} = 1..(n - 1)
      OBVIOUS
    <3>2. Cardinality(1..(n - 1)) = n - 1
      BY FS_Interval
    <3>3. QED BY <3>1, <3>2
  <2>2. \A n \in 1..k : Cardinality({m \in 1..k : m < n}) = i - 1 <=> n = i
    BY <2>1
  <2>3. QED BY <2>2
<1>3. QED BY <1>1, <1>2 DEF InOrder, Whole

\* What a sequence holds after an Append.
LEMMA RangeAppend ==
    ASSUME NEW s \in Seq(Nat), NEW x \in Nat
    PROVE  Range(Append(s, x)) = Range(s) \cup {x}
<1> DEFINE t == Append(s, x)
<1>1. /\ DOMAIN s = 1..Len(s) /\ DOMAIN t = 1..(Len(s) + 1) /\ Len(s) \in Nat
      /\ \A i \in 1..Len(s) : t[i] = s[i]
      /\ t[Len(s) + 1] = x
  OBVIOUS
<1> HIDE DEF t
<1>2. \A y : (\E i \in DOMAIN t : t[i] = y) <=> y = x \/ \E i \in DOMAIN s : s[i] = y
  BY <1>1
<1>3. \A y : y \in Range(t) <=> y \in Range(s) \cup {x}
  BY <1>2 DEF Range
<1>4. Range(t) = Range(s) \cup {x}
  BY <1>3
<1>5. QED BY <1>4 DEF t

\* While nothing is finished, parts that were all answered ok are 1, ..., puts.
LEMMA AllOk ==
    ASSUME IInv, \A i \in 1..puts : partAnswer[i] = "ok"
    PROVE  OkParts = 1..puts /\ puts \in 0..MaxParts
<1>1. OkParts = 1..puts
  <2>1. /\ puts \in 0..MaxPuts /\ MaxPuts \in Nat
        /\ \A i \in PutIds : i > puts => partAnswer[i] # "ok"
    BY MaxPutsAssumption DEF IInv, FieldsOK, PartInv
  <2>2. \A i : i \in OkParts <=> i \in 1..puts
    BY <2>1 DEF OkParts, PutIds
  <2>3. QED BY <2>2
<1>2. puts # 0 => puts <= MaxParts
  BY DEF IInv, FieldsOK, PartInv, PutIds
<1>3. QED BY <1>1, <1>2, MaxPartsAssumption DEF IInv, FieldsOK

----------------------------------------------------------------------------
\* No part is uploaded in the initial states.
LEMMA InitInv == Init => IInv
<1> SUFFICES ASSUME Init PROVE IInv
  OBVIOUS
<1>1. FieldsOK
  <2>1. uploaded \in Seq(Nat) /\ waited \in BOOLEAN /\ finished \in BOOLEAN
    <3>1. uploaded = <<>> /\ waited = FALSE /\ finished = FALSE
      BY DEF Init
    <3>2. uploaded \in Seq(Nat)
      BY <3>1
    <3>3. QED BY <3>1, <3>2
  <2>2. puts \in 0..MaxPuts /\ nextPart \in Nat
    BY MaxPutsAssumption DEF Init
  <2>3. /\ number \in [PutIds -> Nat]
        /\ part \in [PutIds -> {"none", "sent", "stored", "rejected"}]
        /\ partAnswer \in [PutIds -> {"none", "ok", "Generic", "NotSupported", "Precondition"}]
    BY DEF Init
  <2>4. /\ ending \in [Kinds -> {"none", "running", "dropped", "ok", "Generic", "Precondition"}]
        /\ request \in [Kinds -> {"none", "sent", "done", "rejected"}]
        /\ r2Parts \in [1..MaxParts -> Nat]
    BY DEF Init
  <2>5. QED BY <2>1, <2>2, <2>3, <2>4 DEF FieldsOK
<1>2. Range(uploaded) = {} /\ OkParts = {}
  BY DEF Init, Range, OkParts
<1>3. QED
  BY <1>1, <1>2, MaxPartsAssumption
     DEF Init, IInv, PartInv, NumberInv, EndInv, WaitedInv, PutIds, Kinds

\* A call of put_part.
LEMMA PutPartKeeps == IInv /\ PutPart => IInv'
<1> SUFFICES ASSUME IInv, PutPart PROVE IInv'
  OBVIOUS
<1> DEFINE i == puts + 1
<1>1. /\ puts \in Nat /\ i \in PutIds /\ puts' = i
      /\ PartRefused(i) \/ PartSent(i)
      /\ part[i] = "none" /\ partAnswer[i] = "none"
  <2>1. puts \in Nat /\ i \in PutIds /\ i > puts /\ puts' = i
    BY MaxPutsAssumption DEF IInv, FieldsOK, PutPart, PutIds
  <2>2. part[i] = "none" /\ partAnswer[i] = "none"
    BY <2>1 DEF IInv, PartInv
  <2>3. PartRefused(i) \/ PartSent(i)
    BY <2>1 DEF PutPart
  <2>4. QED BY <2>1, <2>2, <2>3
<1>2. UNCHANGED <<finished, uploaded, ending, request, list, waited, r2Parts, r2State, object>>
  BY DEF PutPart, ends, r2
<1>3. CASE PartRefused(i)
  <2>1. /\ UNCHANGED <<nextPart, number, part>>
        /\ partAnswer' \in {[partAnswer EXCEPT ![i] = "Precondition"],
                            [partAnswer EXCEPT ![i] = "NotSupported"]}
        /\ finished \/ nextPart > MaxParts
    BY <1>3 DEF PartRefused
  <2>2. OkParts' = OkParts
    BY <1>1, <2>1 DEF OkParts, IInv, FieldsOK
  <2>3. FieldsOK'
    BY <1>1, <1>2, <2>1 DEF IInv, FieldsOK, PutIds
  <2>4. ASSUME NEW j \in PutIds PROVE PartInv(j)'
    <3>1. partAnswer'[j] = partAnswer[j] \/ (j = i /\ partAnswer'[j] # "ok")
      BY <1>1, <2>1 DEF IInv, FieldsOK
    <3>2. (j > i => j > puts) /\ PartInv(j) /\ (j = i => ~(j > i))
      BY <1>1 DEF IInv, PutIds
    <3>3. QED BY <1>1, <2>1, <3>1, <3>2 DEF PartInv
  <2>5. NumberInv' /\ EndInv'
    BY <1>1, <1>2, <2>1, <2>2, MaxPartsAssumption DEF IInv, FieldsOK, NumberInv, EndInv
  <2>6. WaitedInv'
    BY <1>1, <1>2, <2>1, <2>2 DEF IInv, FieldsOK, WaitedInv
  <2>7. QED BY <2>3, <2>4, <2>5, <2>6 DEF IInv
<1>4. CASE PartSent(i)
  <2>1. /\ ~finished /\ nextPart = i /\ i <= MaxParts
        /\ number' = [number EXCEPT ![i] = i] /\ nextPart' = i + 1
        /\ part' = [part EXCEPT ![i] = "sent"] /\ UNCHANGED partAnswer
    BY <1>4 DEF PartSent, IInv, NumberInv
  <2>2. OkParts' = OkParts
    BY <2>1 DEF OkParts
  <2>3. FieldsOK'
    BY <1>1, <1>2, <2>1 DEF IInv, FieldsOK, PutIds
  <2>4. \A j \in PutIds : PartInv(j)'
    BY <1>1, <2>1 DEF IInv, FieldsOK, PartInv, PutIds
  <2>5. NumberInv' /\ EndInv'
    BY <1>1, <1>2, <2>1, <2>2 DEF IInv, NumberInv, EndInv
  <2>6. WaitedInv'
    BY <1>2, <2>1 DEF IInv, EndInv, WaitedInv
  <2>7. QED BY <2>3, <2>4, <2>5, <2>6 DEF IInv
<1>5. QED BY <1>1, <1>3, <1>4

\* A part's request reaches R2, or its call is answered.
LEMMA PartKeeps ==
    ASSUME IInv, NEW i \in PutIds, R2StoresPart(i) \/ PartOk(i) \/ PartErr(i)
    PROVE  IInv'
<1>1. /\ UNCHANGED <<nextPart, finished, puts, number, ending, request, list, waited, object>>
      /\ part[i] # "none" /\ number[i] = i /\ i \in 1..MaxParts
  BY DEF R2StoresPart, PartOk, PartErr, upload, ends, r2, IInv, PartInv, PutIds
<1>2. ~waited
  BY DEF R2StoresPart, PartOk, PartErr, IInv, PartInv, WaitedInv
<1>3. WaitedInv' /\ EndInv'
  BY <1>1, <1>2 DEF WaitedInv, IInv, EndInv
<1>4. CASE R2StoresPart(i)
  <2>1. /\ UNCHANGED <<uploaded, partAnswer>> /\ part[i] = "sent"
        /\ part' \in {[part EXCEPT ![i] = "stored"], [part EXCEPT ![i] = "rejected"]}
        /\ r2Parts' \in {r2Parts, [r2Parts EXCEPT ![i] = i]}
    BY <1>1, <1>4 DEF R2StoresPart, upload
  <2>2. FieldsOK'
    <3>1. part' \in [PutIds -> {"none", "sent", "stored", "rejected"}]
      BY <2>1 DEF IInv, FieldsOK
    <3>2. r2Parts' \in [1..MaxParts -> Nat]
      BY <1>1, <2>1 DEF IInv, FieldsOK
    <3>3. QED BY <1>1, <2>1, <3>1, <3>2 DEF IInv, FieldsOK
  <2>3. ASSUME NEW j \in PutIds PROVE PartInv(j)'
    <3>1. part'[j] = part[j] \/ (j = i /\ part'[j] # "none")
      BY <2>1 DEF IInv, FieldsOK
    <3>2. PartInv(j) /\ PartInv(i)
      BY DEF IInv
    <3>3. QED BY <1>1, <2>1, <3>1, <3>2 DEF PartInv
  <2>4. NumberInv'
    BY <1>1, <2>1 DEF IInv, FieldsOK, NumberInv, OkParts
  <2>5. QED BY <1>3, <2>2, <2>3, <2>4 DEF IInv
<1>5. CASE PartOk(i)
  <2>1. /\ UNCHANGED <<part, r2Parts>> /\ part[i] = "stored"
        /\ uploaded' = Append(uploaded, i)
        /\ partAnswer' = [partAnswer EXCEPT ![i] = "ok"]
    BY <1>1, <1>5 DEF PartOk, r2
  <2>2. FieldsOK' /\ (\A j \in PutIds : PartInv(j)')
    <3>1. uploaded' \in Seq(Nat)
      BY <1>1, <2>1 DEF IInv, FieldsOK
    <3>2. FieldsOK'
      BY <1>1, <2>1, <3>1 DEF IInv, FieldsOK
    <3>3. \A j \in PutIds : PartInv(j)'
      BY <1>1, <2>1 DEF IInv, FieldsOK, PartInv, PutIds
    <3>4. QED BY <3>2, <3>3
  <2>3. OkParts' = OkParts \cup {i}
    BY <2>1 DEF IInv, FieldsOK, OkParts
  <2>4. Range(uploaded') = Range(uploaded) \cup {i}
    BY <1>1, <2>1, RangeAppend DEF IInv, FieldsOK
  <2>5. NumberInv'
    BY <1>1, <2>1, <2>3, <2>4 DEF IInv, NumberInv
  <2>6. QED BY <1>3, <2>2, <2>5 DEF IInv
<1>6. CASE PartErr(i)
  <2>1. /\ UNCHANGED <<part, r2Parts, uploaded>> /\ partAnswer[i] = "none"
        /\ partAnswer' = [partAnswer EXCEPT ![i] = "Generic"]
    BY <1>6 DEF PartErr, r2, upload
  <2>2. FieldsOK' /\ (\A j \in PutIds : PartInv(j)')
    BY <1>1, <2>1 DEF IInv, FieldsOK, PartInv, PutIds
  <2>3. OkParts' = OkParts
    BY <2>1 DEF IInv, FieldsOK, OkParts
  <2>4. NumberInv'
    BY <1>1, <2>1, <2>3 DEF IInv, NumberInv
  <2>5. QED BY <1>3, <2>2, <2>4 DEF IInv
<1>7. QED BY <1>4, <1>5, <1>6

\* The finishing calls leave the parts alone.
LEMMA PartsLeft ==
    ASSUME IInv, UNCHANGED <<nextPart, uploaded, parts, r2Parts>>,
           finished' \in BOOLEAN, finished => finished'
    PROVE  (\A i \in PutIds : PartInv(i)') /\ NumberInv' /\ OkParts' = OkParts
<1>1. OkParts' = OkParts
  BY DEF OkParts, parts
<1>2. \A i \in PutIds : PartInv(i)'
  BY DEF IInv, PartInv, parts
<1>3. NumberInv'
  BY <1>1 DEF IInv, FieldsOK, NumberInv, parts
<1>4. QED BY <1>1, <1>2, <1>3

\* complete is called: the one step that makes a list.
LEMMA CompleteKeeps == IInv /\ Complete => IInv'
<1> SUFFICES ASSUME IInv, Complete PROVE IInv'
  OBVIOUS
<1>1. /\ ~finished /\ finished' = TRUE /\ ~waited /\ object = <<>>
      /\ \A k \in Kinds : request[k] = "none"
      /\ UNCHANGED <<nextPart, uploaded, parts, r2Parts, r2State, object>>
      /\ request' = [request EXCEPT !["complete"] = "sent"]
      /\ ending' = [ending EXCEPT !["complete"] = "running"]
      /\ list' = InOrder(Range(uploaded))
      /\ waited' = \A i \in 1..puts : partAnswer[i] = "ok"
  BY DEF Complete, EndSent, r2, IInv, EndInv, Kinds
<1>2. (\A i \in PutIds : PartInv(i)') /\ NumberInv' /\ OkParts' = OkParts
  BY <1>1, PartsLeft
<1>3. FieldsOK'
  BY <1>1 DEF IInv, FieldsOK, parts, Kinds
<1>4. EndInv'
  BY <1>1 DEF IInv, FieldsOK, EndInv, Kinds
<1>5. CASE \A i \in 1..puts : partAnswer[i] = "ok"
  <2>1. OkParts = 1..puts /\ puts \in 0..MaxParts
    BY <1>5, AllOk
  <2>2. list' = Whole(puts)
    BY <1>1, <2>1, InOrderInterval DEF IInv, NumberInv
  <2>3. \A i \in PutIds : part'[i] # "none" => partAnswer'[i] = "ok"
    BY <1>1, <1>5 DEF IInv, FieldsOK, PartInv, PutIds, parts
  <2>4. QED BY <1>1, <1>2, <1>3, <1>4, <2>1, <2>2, <2>3 DEF IInv, WaitedInv, Whole
<1>6. CASE ~\A i \in 1..puts : partAnswer[i] = "ok"
  BY <1>1, <1>2, <1>3, <1>4, <1>6 DEF IInv, WaitedInv
<1>7. QED BY <1>5, <1>6

\* abort() keeps the inductive invariant.
LEMMA AbortKeeps == IInv /\ Abort => IInv'
<1> SUFFICES ASSUME IInv, Abort PROVE IInv'
  OBVIOUS
<1>1. /\ ~finished /\ finished' = TRUE /\ ~waited
      /\ \A k \in Kinds : request[k] = "none"
      /\ UNCHANGED <<nextPart, uploaded, parts, list, waited, r2Parts, r2State, object>>
      /\ request' = [request EXCEPT !["abort"] = "sent"]
      /\ ending' = [ending EXCEPT !["abort"] = "running"]
  BY DEF Abort, EndSent, r2, IInv, EndInv, Kinds
<1>2. (\A i \in PutIds : PartInv(i)') /\ NumberInv'
  BY <1>1, PartsLeft
<1>3. FieldsOK'
  BY <1>1 DEF IInv, FieldsOK, parts, Kinds
<1>4. EndInv' /\ WaitedInv'
  BY <1>1 DEF IInv, FieldsOK, EndInv, WaitedInv, Kinds
<1>5. QED BY <1>2, <1>3, <1>4 DEF IInv

\* R2 completes: what it joins is the list, since part n holds the data of call n.
LEMMA R2CompletesKeeps == IInv /\ R2Completes => IInv'
<1> SUFFICES ASSUME IInv, R2Completes PROVE IInv'
  OBVIOUS
<1>1. /\ UNCHANGED <<nextPart, finished, uploaded, parts, ending, list, waited, r2Parts>>
      /\ request["complete"] = "sent"
      /\ request' \in {[request EXCEPT !["complete"] = "done"],
                       [request EXCEPT !["complete"] = "rejected"]}
      /\ \/ object' = object
         \/ /\ object' = [i \in DOMAIN list |-> r2Parts[list[i]]]
            /\ \A i \in DOMAIN list : r2Parts[list[i]] # 0
  BY DEF R2Completes, upload
<1>2. (\A i \in PutIds : PartInv(i)') /\ NumberInv' /\ OkParts' = OkParts
  BY <1>1, PartsLeft DEF IInv, FieldsOK
<1>3. FieldsOK'
  BY <1>1 DEF IInv, FieldsOK, parts, Kinds
<1>4. EndInv'
  BY <1>1 DEF IInv, FieldsOK, EndInv, Kinds
<1>5. CASE waited
  <2>1. PICK k \in 0..MaxParts : /\ OkParts = 1..k
                                 /\ list = Whole(k)
                                 /\ object # <<>> => object = Whole(k)
    BY <1>5 DEF IInv, WaitedInv
  <2>2. object' # object => object' = Whole(k)
    <3>1. DOMAIN list = 1..k /\ \A i \in 1..k : list[i] = i
      BY <2>1 DEF Whole
    <3>2. SUFFICES ASSUME object' # object
                   PROVE  [i \in DOMAIN list |-> r2Parts[list[i]]] = [i \in 1..k |-> i]
      BY <1>1 DEF Whole
    <3>3. \A i \in 1..k : r2Parts[i] = i
      BY <1>1, <3>1, <3>2, MaxPartsAssumption DEF IInv, NumberInv
    <3>4. QED BY <3>1, <3>3
  <2>3. \A i \in PutIds : part'[i] # "none" => partAnswer'[i] = "ok"
    BY <1>1, <1>5 DEF IInv, WaitedInv, parts
  <2>4. WaitedInv'
    BY <1>1, <1>2, <2>1, <2>2, <2>3 DEF WaitedInv
  <2>5. QED BY <1>2, <1>3, <1>4, <2>4 DEF IInv
<1>6. CASE ~waited
  BY <1>1, <1>2, <1>3, <1>4, <1>6 DEF IInv, WaitedInv
<1>7. QED BY <1>5, <1>6

\* R2 aborts, and the finishing calls are answered, refused or dropped.
LEMMA AnswerKeeps ==
    ASSUME IInv,
           R2Aborts \/ \E k \in Kinds : EndRefused(k) \/ EndOk(k) \/ EndErr(k) \/ EndDropped(k)
    PROVE  IInv'
<1>1. UNCHANGED <<nextPart, finished, uploaded, parts, list, waited, r2Parts, object>>
  BY DEF R2Aborts, EndRefused, EndOk, EndErr, EndDropped, upload, r2
<1>2. (\A i \in PutIds : PartInv(i)') /\ NumberInv' /\ OkParts' = OkParts
  BY <1>1, PartsLeft DEF IInv, FieldsOK
<1>3. WaitedInv'
  BY <1>1, <1>2 DEF IInv, WaitedInv, parts
<1>4. FieldsOK'
  BY <1>1 DEF IInv, FieldsOK, parts, Kinds, R2Aborts, EndRefused, EndOk, EndErr, EndDropped
<1>5. EndInv'
  BY <1>1 DEF IInv, FieldsOK, EndInv, Kinds, R2Aborts, EndRefused, EndOk, EndErr, EndDropped
<1>6. QED BY <1>2, <1>3, <1>4, <1>5 DEF IInv

\* Every step keeps the inductive invariant.
LEMMA NextInv == IInv /\ [Next]_vars => IInv'
<1> SUFFICES ASSUME IInv, [Next]_vars PROVE IInv'
  OBVIOUS
<1>1. CASE PutPart
  BY <1>1, PutPartKeeps
<1>2. CASE \E i \in PutIds : R2StoresPart(i) \/ PartOk(i) \/ PartErr(i)
  BY <1>2, PartKeeps
<1>3. CASE Complete \/ Abort \/ R2Completes
  BY <1>3, CompleteKeeps, AbortKeeps, R2CompletesKeeps
<1>4. CASE R2Aborts \/ \E k \in Kinds : EndRefused(k) \/ EndOk(k) \/ EndErr(k) \/ EndDropped(k)
  BY <1>4, AnswerKeeps
<1>5. CASE UNCHANGED vars
  <2>1. OkParts' = OkParts /\ \A i \in PutIds : PartInv(i)'
    BY <1>5 DEF vars, parts, OkParts, IInv, PartInv
  <2>2. FieldsOK' /\ NumberInv' /\ EndInv' /\ WaitedInv'
    BY <1>5, <2>1 DEF vars, upload, parts, ends, r2, IInv, FieldsOK, NumberInv, EndInv, WaitedInv
  <2>3. QED BY <2>1, <2>2 DEF IInv
<1>6. QED BY <1>1, <1>2, <1>3, <1>4, <1>5 DEF Next

\* The inductive invariant holds in every reachable state.
THEOREM Invariance == Spec => []IInv
BY InitInv, NextInv, PTL DEF Spec

\* The object of a caller that waited for its parts holds each of them once, in
\* the order of the put_part calls, for any number of parts and any limit.
THEOREM UploadsAreWhole == Spec => []CompletedObjectIsWhole
<1>1. IInv => CompletedObjectIsWhole
  <2> SUFFICES ASSUME IInv, object # <<>>, waited
               PROVE  /\ object = [i \in 1..Len(object) |-> i]
                      /\ {i \in PutIds : partAnswer[i] = "ok"} = 1..Len(object)
    BY DEF CompletedObjectIsWhole
  <2>1. PICK k \in 0..MaxParts : OkParts = 1..k /\ object = Whole(k)
    BY DEF IInv, WaitedInv
  <2>2. Len(object) = k /\ k \in Nat
    BY <2>1, MaxPartsAssumption DEF Whole
  <2>3. QED BY <2>1, <2>2 DEF Whole, OkParts
<1>2. QED BY <1>1, Invariance, PTL

\* An upload whose abort was answered ok never becomes an object.
THEOREM AbortsAreFinal == Spec => []AbortIsFinal
<1>1. IInv => AbortIsFinal
  BY DEF IInv, EndInv, AbortIsFinal, Kinds
<1>2. QED BY <1>1, Invariance, PTL

----------------------------------------------------------------------------
(***************************************************************************)
(* The upload is one unconditional put of a selection of its parts, and    *)
(* every variable keeps its type.  The list of complete is the ascending   *)
(* enumeration of the parts answered ok, and so is the object, because R2  *)
(* has the data of call n as part n.                                       *)
(***************************************************************************)
\* How many numbers of a set are below n.
Rank(S, n) == Cardinality({m \in S : m < n})

LEMMA RanksDiffer ==
    ASSUME NEW S \in SUBSET Nat, IsFiniteSet(S), NEW n \in S
    PROVE  /\ Rank(S, n) \in 0..(Cardinality(S) - 1)
           /\ \A m \in S : m < n => Rank(S, m) < Rank(S, n)
<1> DEFINE Below(m) == {x \in S : x < m}
<1>1. Cardinality(S) \in Nat
  BY FS_CardinalityType
<1>2. ASSUME NEW m \in S PROVE IsFiniteSet(Below(m)) /\ Cardinality(Below(m)) \in Nat
  <2>1. Below(m) \in SUBSET S
    OBVIOUS
  <2>2. QED BY <2>1, FS_Subset, FS_CardinalityType
<1>3. Cardinality(Below(n)) < Cardinality(S)
  <2>1. Below(n) \in SUBSET S /\ n \notin Below(n)
    OBVIOUS
  <2>2. Below(n) # S
    BY <2>1
  <2>3. QED BY <1>1, <1>2, <2>1, <2>2, FS_Subset
<1>4. ASSUME NEW m \in S, m < n PROVE Cardinality(Below(m)) < Cardinality(Below(n))
  <2>1. Below(m) \in SUBSET Below(n) /\ m \in Below(n) /\ m \notin Below(m)
    <3>1. m \in Nat /\ n \in Nat /\ \A x \in S : x \in Nat
      OBVIOUS
    <3>2. \A x \in S : x < m => x < n
      BY <1>4, <3>1
    <3>3. Below(m) \in SUBSET Below(n)
      BY <3>2
    <3>4. m \in Below(n) /\ m \notin Below(m)
      BY <1>4, <3>1
    <3>5. QED BY <3>3, <3>4
  <2>2. Below(m) # Below(n)
    BY <2>1
  <2>3. QED BY <1>2, <2>1, <2>2, FS_Subset
<1>5. QED BY <1>1, <1>2, <1>3, <1>4 DEF Rank

\* Every place has one number of that rank: InOrder enumerates the set.
LEMMA InOrderIs ==
    ASSUME NEW S \in SUBSET Nat, IsFiniteSet(S)
    PROVE  /\ Cardinality(S) \in Nat
           /\ InOrder(S) \in Seq(S) /\ Len(InOrder(S)) = Cardinality(S)
           /\ InOrder(S) = <<>> <=> S = {}
<1> DEFINE k == Cardinality(S)
           f == [n \in S |-> Rank(S, n)]
           T == 0..(k - 1)
<1>1. k \in Nat
  BY FS_CardinalityType
<1>2. f \in Injection(S, T)
  <2>1. \A n \in S : Rank(S, n) \in T
    BY RanksDiffer
  <2>2. \A m, n \in S : m # n => Rank(S, m) # Rank(S, n)
    BY RanksDiffer
  <2>3. QED BY <2>1, <2>2 DEF Injection, IsInjective
<1>3. IsFiniteSet(T) /\ Cardinality(T) = k
  <2>1. \A j \in Nat : IsFiniteSet(0..(j - 1)) /\ Cardinality(0..(j - 1)) = j
    BY FS_Interval
  <2>2. QED BY <1>1, <2>1
<1>4. f \in Surjection(S, T)
  BY <1>2, <1>3, FS_Injection
<1>5. \A i \in 1..k : \E n \in S : Rank(S, n) = i - 1
  <2>1. \A t \in T : \E n \in S : Rank(S, n) = t
    BY <1>4 DEF Surjection
  <2>2. \A i \in 1..k : i - 1 \in T
    BY <1>1
  <2>3. QED BY <2>1, <2>2
<1>6. \A i \in 1..k : (CHOOSE n \in S : Rank(S, n) = i - 1) \in S
  BY <1>5
<1>7. InOrder(S) = [i \in 1..k |-> CHOOSE n \in S : Rank(S, n) = i - 1]
  BY DEF InOrder, Rank
<1>8. InOrder(S) \in [1..k -> S]
  BY <1>6, <1>7
<1>9. InOrder(S) \in Seq(S) /\ Len(InOrder(S)) = k
  BY <1>1, <1>8
<1>10. k = 0 <=> S = {}
  BY FS_EmptySet
<1>11. QED BY <1>1, <1>9, <1>10

\* The parts answered ok are parts of calls below the limit, so their list is
\* a selection, or empty.
LEMMA OkPartsListed ==
    ASSUME IInv
    PROVE  /\ InOrder(OkParts) \in Seq(1..MaxParts) /\ InOrder(OkParts) \in Seq(PutIds)
           /\ InOrder(OkParts) \in Selections \cup {<<>>}
<1>1. OkParts \in SUBSET (PutIds \cap 1..MaxParts)
  BY DEF IInv, PartInv, OkParts, PutIds
<1>2. IsFiniteSet(OkParts) /\ OkParts \in SUBSET Nat /\ OkParts \in SUBSET PutIds
  <2>1. IsFiniteSet(PutIds)
    BY MaxPutsAssumption, FS_Interval DEF PutIds
  <2>2. OkParts \in SUBSET PutIds /\ PutIds \subseteq Nat
    BY <1>1 DEF PutIds
  <2>3. QED BY <2>1, <2>2, FS_Subset
<1>3. /\ InOrder(OkParts) \in Seq(OkParts)
      /\ InOrder(OkParts) = <<>> <=> OkParts = {}
  BY <1>2, InOrderIs
<1>4. InOrder(OkParts) \in Seq(1..MaxParts) /\ InOrder(OkParts) \in Seq(PutIds)
  <2>1. ASSUME NEW S, NEW T, S \subseteq T, NEW s \in Seq(S) PROVE s \in Seq(T)
    BY <2>1
  <2>2. OkParts \subseteq 1..MaxParts /\ OkParts \subseteq PutIds
    BY <1>1
  <2>3. QED BY <1>3, <2>1, <2>2
<1>5. InOrder(OkParts) \in Selections \cup {<<>>}
  BY <1>2, <1>3 DEF Selections
<1>6. QED BY <1>4, <1>5

PartTypes ==
    /\ nextPart \in 1..(MaxParts + 1)
    /\ uploaded \in Seq(1..MaxParts)
    /\ number \in [PutIds -> 0..MaxParts]
    /\ r2Parts \in [1..MaxParts -> 0..MaxPuts]
    /\ r2State \in {"open", "completed", "aborted"}

ListInv ==
    /\ list \in Seq(1..MaxParts) /\ list \in Seq(PutIds)
    /\ list \in Selections \cup {<<>>}
    /\ request["complete"] = "none" => list = <<>>
    /\ request["complete"] = "done" <=> object # <<>>
    /\ object # <<>> => object = list

UInv == PartTypes /\ ListInv

\* Nothing is listed in the initial states.
LEMMA InitUploads == Init => UInv
<1> SUFFICES ASSUME Init PROVE UInv
  OBVIOUS
<1>1. uploaded \in Seq(1..MaxParts) /\ list \in Seq(1..MaxParts) /\ list \in Seq(PutIds)
  <2>1. uploaded = <<>> /\ list = <<>>
    BY DEF Init
  <2>2. QED BY <2>1
<1>2. PartTypes
  BY <1>1, MaxPartsAssumption, MaxPutsAssumption DEF Init, PartTypes
<1>3. ListInv
  BY <1>1 DEF Init, ListInv, Kinds
<1>4. QED BY <1>2, <1>3 DEF UInv

\* complete lists what was answered ok.
LEMMA CompleteLists == IInv /\ UInv /\ Complete => ListInv'
<1> SUFFICES ASSUME IInv, UInv, Complete PROVE ListInv'
  OBVIOUS
<1>1. /\ list' = InOrder(OkParts) /\ UNCHANGED object
      /\ request'["complete"] = "sent"
  BY DEF Complete, EndSent, r2, IInv, FieldsOK, NumberInv, Kinds
<1>2. request["complete"] = "none"
  BY DEF Complete, IInv, EndInv, Kinds
<1>3. QED BY <1>1, <1>2, OkPartsListed DEF ListInv, UInv

\* R2 joins the data of the calls that are listed.
LEMMA CompletedIsListed ==
    ASSUME IInv, UInv, R2Completes
    PROVE  /\ ListInv'
           /\ \/ request'["complete"] = "rejected" /\ object' = object
              \/ request'["complete"] = "done" /\ object' = list /\ list # <<>>
<1>1. /\ request["complete"] = "sent" /\ UNCHANGED list
      /\ request' \in [Kinds -> {"none", "sent", "done", "rejected"}]
      /\ \/ /\ request'["complete"] = "done" /\ list # <<>>
            /\ \A i \in DOMAIN list : r2Parts[list[i]] # 0
            /\ object' = [i \in DOMAIN list |-> r2Parts[list[i]]]
         \/ request'["complete"] = "rejected" /\ UNCHANGED object
  BY DEF R2Completes, IInv, FieldsOK, Kinds
<1>2. object' = object \/ object' = list
  <2> SUFFICES ASSUME \A i \in DOMAIN list : r2Parts[list[i]] # 0
               PROVE  [i \in DOMAIN list |-> r2Parts[list[i]]] = list
    BY <1>1
  <2>1. list \in Seq(1..MaxParts)
    BY DEF UInv, ListInv
  <2>2. \A i \in DOMAIN list : list[i] \in 1..MaxParts
    <3>1. ASSUME NEW T, NEW s \in Seq(T), NEW i \in DOMAIN s PROVE s[i] \in T
      OBVIOUS
    <3>2. QED BY <2>1, <3>1
  <2>3. \A i \in DOMAIN list : r2Parts[list[i]] = list[i]
    BY <2>2 DEF IInv, NumberInv
  <2>4. list = [i \in DOMAIN list |-> list[i]]
    BY <2>1
  <2>5. QED BY <2>3, <2>4
<1>3. object = <<>>
  BY <1>1 DEF UInv, ListInv
<1>4. CASE request'["complete"] = "rejected" /\ UNCHANGED object
  BY <1>1, <1>3, <1>4 DEF UInv, ListInv
<1>5. CASE request'["complete"] = "done"
  <2>1. object' = list /\ list # <<>>
    <3>1. CASE list # <<>> /\ object' = [i \in DOMAIN list |-> r2Parts[list[i]]]
      <4>1. list \in Seq(1..MaxParts)
        BY DEF UInv, ListInv
      <4>2. DOMAIN list # {}
        BY <3>1, <4>1
      <4>3. object' # <<>>
        BY <3>1, <4>2
      <4>4. QED BY <1>2, <1>3, <3>1, <4>3
    <3>2. QED BY <1>1, <1>5, <3>1
  <2>2. QED BY <1>1, <1>5, <2>1 DEF UInv, ListInv
<1>6. QED BY <1>1, <1>4, <1>5

\* The other steps leave the list and the object alone.
LEMMA ListKept ==
    ASSUME ListInv, UNCHANGED <<list, object>>, request'["complete"] = request["complete"]
    PROVE  ListInv'
BY DEF ListInv

\* Every step keeps the types of the parts, and the list.
LEMMA NextUploads == IInv /\ UInv /\ [Next]_vars => UInv'
<1> SUFFICES ASSUME IInv, UInv, [Next]_vars PROVE UInv'
  OBVIOUS
<1>0. PartTypes /\ ListInv
  BY DEF UInv
<1>1. CASE PutPart
  <2> DEFINE i == puts'
  <2>1. /\ UNCHANGED <<uploaded, list, object, request, r2Parts, r2State>>
        /\ PartRefused(i) \/ PartSent(i)
    BY <1>1 DEF PutPart, ends, r2
  <2>2. nextPart' \in 1..(MaxParts + 1) /\ number' \in [PutIds -> 0..MaxParts]
    <3>1. CASE PartRefused(i)
      BY <1>0, <3>1 DEF PartRefused, PartTypes
    <3>2. CASE PartSent(i)
      <4>1. nextPart \in 1..MaxParts
        BY <1>0, <3>2, MaxPartsAssumption DEF PartSent, PartTypes
      <4>2. nextPart' \in 1..(MaxParts + 1)
        BY <3>2, <4>1, MaxPartsAssumption DEF PartSent
      <4>3. nextPart \in 0..MaxParts /\ number' = [number EXCEPT ![i] = nextPart]
        BY <3>2, <4>1, MaxPartsAssumption DEF PartSent
      <4>4. number' \in [PutIds -> 0..MaxParts]
        BY <1>0, <4>3 DEF PartTypes
      <4>5. QED BY <4>2, <4>4
    <3>3. QED BY <2>1, <3>1, <3>2
  <2>3. QED BY <1>0, <2>1, <2>2, ListKept DEF UInv, PartTypes
<1>2. CASE \E i \in PutIds : R2StoresPart(i) \/ PartOk(i) \/ PartErr(i)
  <2>1. PICK i \in PutIds : R2StoresPart(i) \/ PartOk(i) \/ PartErr(i)
    BY <1>2
  <2>2. number[i] = i /\ i \in 1..MaxParts
    BY <2>1 DEF R2StoresPart, PartOk, PartErr, IInv, PartInv, PutIds
  <2>3. UNCHANGED <<nextPart, number, list, object, request, r2State>>
    BY <2>1 DEF R2StoresPart, PartOk, PartErr, upload, ends, r2
  <2>4. uploaded' \in Seq(1..MaxParts)
    <3>1. uploaded' = uploaded \/ uploaded' = Append(uploaded, i)
      BY <2>1, <2>2 DEF R2StoresPart, PartOk, PartErr, upload
    <3>2. ASSUME NEW T, NEW s \in Seq(T), NEW x \in T PROVE Append(s, x) \in Seq(T)
      OBVIOUS
    <3>3. QED BY <1>0, <2>2, <3>1, <3>2 DEF PartTypes
  <2>5. r2Parts' \in [1..MaxParts -> 0..MaxPuts]
    <3>1. r2Parts' = r2Parts \/ r2Parts' = [r2Parts EXCEPT ![i] = i]
      BY <2>1, <2>2 DEF R2StoresPart, PartOk, PartErr, r2
    <3>2. QED BY <1>0, <3>1, MaxPutsAssumption DEF PartTypes, PutIds
  <2>6. QED BY <1>0, <2>3, <2>4, <2>5, ListKept DEF UInv, PartTypes
<1>3. CASE Complete
  BY <1>0, <1>3, CompleteLists DEF Complete, r2, parts, UInv, PartTypes
<1>4. CASE R2Completes
  BY <1>0, <1>4, CompletedIsListed DEF R2Completes, upload, parts, UInv, PartTypes
<1>5. CASE Abort \/ R2Aborts
  <2>1. request'["complete"] = request["complete"]
    BY <1>5 DEF Abort, EndSent, R2Aborts, IInv, FieldsOK, Kinds
  <2>2. QED BY <1>0, <1>5, <2>1, ListKept
            DEF Abort, R2Aborts, upload, parts, r2, UInv, PartTypes
<1>6. CASE \E k \in Kinds : EndRefused(k) \/ EndOk(k) \/ EndErr(k) \/ EndDropped(k)
  <2>1. UNCHANGED <<upload, parts, request, list, r2>>
    BY <1>6 DEF EndRefused, EndOk, EndErr, EndDropped
  <2>2. QED BY <1>0, <2>1, ListKept DEF upload, parts, r2, UInv, PartTypes
<1>7. CASE UNCHANGED vars
  BY <1>0, <1>7, ListKept DEF vars, upload, parts, ends, r2, UInv, PartTypes
<1>8. QED BY <1>1, <1>2, <1>3, <1>4, <1>5, <1>6, <1>7 DEF Next

\* Both invariants hold in every reachable state.
LEMMA UploadInvariance == Spec => []UInv
BY Invariance, InitUploads, NextUploads, PTL DEF Spec

\* Every variable of the upload keeps its type: no part number passes the limit,
\* and the object is made of put_part calls, for any number of calls.
THEOREM UploadTypes == Spec => []UploadTypeOK
<1>1. IInv /\ UInv => UploadTypeOK
  <2> SUFFICES ASSUME IInv, UInv PROVE UploadTypeOK
    OBVIOUS
  <2>1. object \in Seq(PutIds)
    <3>1. CASE object = <<>>
      BY <3>1
    <3>2. CASE object # <<>>
      BY <3>2 DEF UInv, ListInv
    <3>3. QED BY <3>1, <3>2
  <2>2. QED BY <2>1 DEF IInv, FieldsOK, UInv, PartTypes, ListInv, UploadTypeOK
<1>2. QED BY <1>1, Invariance, UploadInvariance, PTL

----------------------------------------------------------------------------
\* No list is made before complete is called: the put is not yet called.
LEMMA InitPut == Init => Promise!Init
BY DEF Init, Put, PutRequest, PutAnswer, Promise!Init

\* complete with parts is the call of the put; without, it is invisible.
LEMMA CompleteIsCall ==
    ASSUME IInv, UInv, Complete
    PROVE  [Promise!Next]_Promise!store
<1>1. /\ request["complete"] = "none" /\ object' = object
      /\ request'["complete"] = "sent" /\ ending'["complete"] = "running"
  BY DEF Complete, EndSent, r2, IInv, FieldsOK, EndInv, Kinds
<1>2. CASE list' = <<>>
  BY <1>1, <1>2 DEF Put, PutRequest, PutAnswer, Promise!store
<1>3. CASE list' # <<>>
  <2>1. list' \in Selections
    BY <1>3, CompleteLists DEF ListInv
  <2>2. Overwrite' \in Promise!AllCalls
    <3>1. Overwrite' = Promise!Put("overwrite", "object", list')
      BY DEF Overwrite, Promise!Put
    <3>2. QED BY <2>1, <3>1 DEF Promise!AllCalls, Promise!Calls
  <2>3. Promise!Call("upload", Overwrite')
    BY <1>1, <1>3 DEF Put, PutRequest, PutAnswer, Promise!Call
  <2>4. QED BY <2>2, <2>3 DEF Promise!Next
<1>4. QED BY <1>2, <1>3

\* R2 completing the upload is the put taking effect.
LEMMA CompletedIsApplied ==
    ASSUME IInv, UInv, R2Completes
    PROVE  [Promise!Next]_Promise!store
<1>1. request["complete"] = "sent" /\ UNCHANGED <<list, ending>> /\ object = <<>>
  BY DEF R2Completes, UInv, ListInv
<1>2. CASE request'["complete"] = "rejected" /\ object' = object
  BY <1>1, <1>2 DEF Put, PutRequest, PutAnswer, Promise!store, Overwrite
<1>3. CASE request'["complete"] = "done" /\ object' = list /\ list # <<>>
  <2>1. Promise!Apply("upload")
    BY <1>1, <1>3 DEF Put, PutRequest, PutAnswer, Promise!Apply, Promise!Condition, Overwrite
  <2>2. QED BY <2>1 DEF Promise!Next
<1>4. QED BY <1>2, <1>3, CompletedIsListed

\* What complete is told, the caller of the put is told.
LEMMA EndIsAnswer ==
    ASSUME IInv, UInv, NEW k \in Kinds,
           EndRefused(k) \/ EndOk(k) \/ EndErr(k) \/ EndDropped(k)
    PROVE  [Promise!Next]_Promise!store
<1>1. UNCHANGED <<request, list, object>>
  BY DEF EndRefused, EndOk, EndErr, EndDropped, r2
<1>2. CASE ending'["complete"] = ending["complete"]
  BY <1>1, <1>2 DEF Put, PutRequest, PutAnswer, Promise!store, Overwrite
<1>3. CASE ~Put
  BY <1>1, <1>3 DEF Put, PutRequest, PutAnswer, Promise!store
<1>4. CASE /\ ending'["complete"] # ending["complete"]
           /\ Put
  <2>1. k = "complete" /\ ending'[k] # ending[k]
    BY <1>4 DEF EndRefused, EndOk, EndErr, EndDropped, IInv, FieldsOK, Kinds
  <2>2. Overwrite \in Promise!AllCalls
    <3>1. Overwrite = Promise!Put("overwrite", "object", list)
      BY DEF Overwrite, Promise!Put
    <3>2. list \in Selections
      BY <1>4 DEF Put, UInv, ListInv
    <3>3. QED BY <3>1, <3>2 DEF Promise!AllCalls, Promise!Calls
  <2>3. Overwrite # None /\ Overwrite' = Overwrite
    BY <1>1, <2>2, NoPutAssumption DEF Overwrite
  <2>4. CASE ending["complete"] \in {"running", "dropped"} /\ ending'["complete"] = "ok"
    <3>1. request["complete"] = "done"
      BY <2>1, <2>4 DEF EndRefused, EndOk, EndErr, EndDropped, IInv, FieldsOK, Kinds
    <3>2. Promise!Answer("upload")
      BY <1>1, <1>4, <2>3, <2>4, <3>1 DEF Put, PutRequest, PutAnswer, Promise!Answer, Promise!Told
    <3>3. QED BY <3>2 DEF Promise!Next
  <2>5. CASE /\ ending["complete"] \in {"running", "dropped"}
             /\ ending'["complete"] \in {"Generic", "Precondition"}
    <3>1. Promise!Answer("upload")
      BY <1>1, <1>4, <2>3, <2>5 DEF Put, PutRequest, PutAnswer, Promise!Answer, Promise!Told
    <3>2. QED BY <3>1 DEF Promise!Next
  <2>6. CASE /\ ending["complete"] \in {"running", "dropped"}
             /\ ending'["complete"] = "dropped"
    BY <1>1, <1>4, <2>6 DEF Put, PutRequest, PutAnswer, Promise!store, Overwrite
  <2>7. CASE /\ ending["complete"] \in {"none", "Generic"}
             /\ ending'["complete"] = "Precondition"
    BY <1>1, <1>4, <2>7 DEF Put, PutRequest, PutAnswer, Promise!store, Overwrite
  <2>8. QED
    BY <2>1, <2>4, <2>5, <2>6, <2>7
       DEF EndRefused, EndOk, EndErr, EndDropped, MayCall, IInv, FieldsOK, Kinds
<1>5. QED BY <1>2, <1>3, <1>4

\* Every step of the upload is one of the conditional store, or invisible to it.
LEMMA NextIsPut == IInv /\ UInv /\ [Next]_vars => [Promise!Next]_Promise!store
<1> SUFFICES ASSUME IInv, UInv, [Next]_vars PROVE [Promise!Next]_Promise!store
  OBVIOUS
<1>1. CASE Complete
  BY <1>1, CompleteIsCall
<1>2. CASE R2Completes
  BY <1>2, CompletedIsApplied
<1>3. CASE \E k \in Kinds : EndRefused(k) \/ EndOk(k) \/ EndErr(k) \/ EndDropped(k)
  BY <1>3, EndIsAnswer
<1>4. ASSUME \/ PutPart \/ Abort \/ R2Aborts \/ UNCHANGED vars
             \/ \E i \in PutIds : R2StoresPart(i) \/ PartOk(i) \/ PartErr(i)
      PROVE  UNCHANGED Promise!store
  <2>1. UNCHANGED <<list, object>>
    BY <1>4 DEF PutPart, Abort, R2Aborts, R2StoresPart, PartOk, PartErr, vars, ends, r2
  <2>2. /\ request'["complete"] = request["complete"]
        /\ ending'["complete"] = ending["complete"]
    BY <1>4 DEF PutPart, Abort, EndSent, R2Aborts, R2StoresPart, PartOk, PartErr, vars, ends,
                IInv, FieldsOK, Kinds
  <2>3. QED BY <2>1, <2>2 DEF Put, PutRequest, PutAnswer, Promise!store, Overwrite
<1>5. QED BY <1>1, <1>2, <1>3, <1>4 DEF Next

\* A multipart upload is one unconditional put, made when it completes, of some
\* of its parts in the order of their calls: whatever overtakes, fails or is
\* dropped, nothing of it is seen before, and no part out of order after.
THEOREM UploadKeepsPromise == Spec => UploadIsPut
BY InitPut, NextIsPut, Invariance, UploadInvariance, PTL
   DEF Spec, UploadIsPut, Promise!Spec
=============================================================================
