--------------------------- MODULE JobNameProofs ---------------------------
(* The k8s Job name round trip, for every prefix and every eval hash: the  *)
(* hash get_hash_from_job_name extracts from a name get_k8s_job_name built *)
(* is the hash the name was built from, and only array names end with      *)
(* "-array".                                                               *)
EXTENDS JobName, SequenceTheorems, TLAPS

USE NameAssumption

\* The single-job name "<prefix>-<hash>".
Core(p, h) == p \o <<Dash>> \o h

(* The tokens of "<prefix>-<hash>": the prefix, the dash, then the hash.   *)
LEMMA CoreShape ==
    ASSUME NEW p \in Seq(Tokens), NEW h \in Seq({"x"})
    PROVE  /\ Core(p, h) \in Seq(Tokens)
           /\ Len(Core(p, h)) = Len(p) + 1 + Len(h)
           /\ \A k \in 1..Len(p) : Core(p, h)[k] = p[k]
           /\ Core(p, h)[Len(p) + 1] = Dash
           /\ \A k \in (Len(p) + 2)..(Len(p) + 1 + Len(h)) :
                 Core(p, h)[k] = h[k - Len(p) - 1]
<1>1. <<Dash>> \in Seq(Tokens) /\ h \in Seq(Tokens)
  BY DEF Tokens
<1>2. /\ p \o <<Dash>> \in Seq(Tokens)
      /\ Len(p \o <<Dash>>) = Len(p) + 1
      /\ \A k \in 1..Len(p) + 1 : (p \o <<Dash>>)[k] = IF k <= Len(p) THEN p[k] ELSE Dash
  BY <1>1, ConcatProperties
<1>3. /\ Core(p, h) \in Seq(Tokens)
      /\ Len(Core(p, h)) = Len(p) + 1 + Len(h)
      /\ \A k \in 1..(Len(p) + 1 + Len(h)) :
            Core(p, h)[k] = IF k <= Len(p) + 1 THEN (p \o <<Dash>>)[k]
                            ELSE h[k - (Len(p) + 1)]
  BY <1>1, <1>2, ConcatProperties DEF Core
<1>. QED BY <1>2, <1>3

(* The regex's greedy ".*-" stops at the dash before the hash: no later   *)
(* dash exists, since a hex digest has none.                               *)
LEMMA CoreSplit ==
    ASSUME NEW p \in Seq(Tokens), NEW h \in Seq({"x"}), h # <<>>
    PROVE  /\ \E i \in 1..(Len(Core(p, h)) - 1) :
                 Core(p, h)[i] = Dash /\ Core(p, h)[i + 1] # Dash
           /\ LastSplit(Core(p, h)) = Len(p) + 1
<1>. DEFINE s == Core(p, h)
            n == Len(p)
            m == Len(h)
            I == {i \in 1..(Len(s) - 1) : s[i] = Dash /\ s[i + 1] # Dash}
<1>1. m \in Nat \ {0} /\ \A k \in 1..m : h[k] = "x"
  BY EmptySeq, LenProperties
<1>2. /\ n \in Nat
      /\ Len(s) = n + 1 + m
      /\ s[n + 1] = Dash
      /\ \A k \in (n + 2)..(n + 1 + m) : s[k] = h[k - n - 1]
  BY CoreShape
<1>3. \A k \in (n + 2)..(n + 1 + m) : s[k] = "x"
  BY <1>1, <1>2
<1>4. n + 1 \in I
  <2>1. n + 2 \in (n + 2)..(n + 1 + m) /\ n + 1 \in 1..(Len(s) - 1)
    BY <1>1, <1>2
  <2>. QED BY <1>2, <1>3, <2>1 DEF Dash
<1>5. \A i \in I : i <= n + 1
  <2>. SUFFICES ASSUME NEW i \in I, ~(i <= n + 1) PROVE FALSE
    OBVIOUS
  <2>1. i \in (n + 2)..(n + 1 + m)
    BY <1>1, <1>2
  <2>. QED BY <1>3, <2>1 DEF Dash
<1>6. LastSplit(s) = n + 1
  <2>1. \A i \in I : (\A k \in I : k <= i) <=> i = n + 1
    BY <1>2, <1>4, <1>5
  <2>. QED BY <1>4, <2>1, Zenon DEF LastSplit
<1>. QED BY <1>4, <1>6

(* The group "(?P<hash>[^-]+)" then takes the whole rest: the hash.        *)
LEMMA CoreHash ==
    ASSUME NEW p \in Seq(Tokens), NEW h \in Seq({"x"}), h # <<>>
    PROVE  HashGroup(Core(p, h)) = h
<1>. DEFINE s == Core(p, h)
            n == Len(p)
            m == Len(h)
            L == n + 1 + m
<1>1. m \in Nat \ {0} /\ \A k \in 1..m : h[k] = "x"
  BY EmptySeq, LenProperties
<1>2. /\ n \in Nat
      /\ Len(s) = L
      /\ \A k \in (n + 2)..L : s[k] = h[k - n - 1]
  BY CoreShape
<1>3. \A k \in (n + 2)..L : s[k] = "x"
  BY <1>1, <1>2
<1>4. LastSplit(s) = n + 1 /\ \E i \in 1..(Len(s) - 1) : s[i] = Dash /\ s[i + 1] # Dash
  BY CoreSplit
<1>5. SubSeq(s, n + 2, L) = h
  <2>1. p \o <<Dash>> \in Seq(Tokens) /\ Len(p \o <<Dash>>) = n + 1 /\ h \in Seq(Tokens)
    BY ConcatProperties DEF Tokens
  <2>2. SubSeq(s, n + 2, L) = SubSeq(h, 1, m)
    BY <1>1, <2>1, SubSeqOfConcat2 DEF Core
  <2>. QED BY <2>1, <2>2, SubSeqFull
<1>6. NoDash(SubSeq(s, n + 2, L))
  BY <1>1, <1>5 DEF NoDash, Dash
<1>7. \A e \in (n + 2)..L : e # L => s[e + 1] # Dash
  <2>. SUFFICES ASSUME NEW e \in (n + 2)..L, e # L PROVE s[e + 1] # Dash
    OBVIOUS
  <2>1. e + 1 \in (n + 2)..L
    BY <1>1, <1>2
  <2>. QED BY <1>3, <2>1 DEF Dash
<1>8. \A e \in (n + 2)..L :
         (NoDash(SubSeq(s, n + 2, e)) /\ (e = Len(s) \/ s[e + 1] = Dash)) <=> e = L
  BY <1>2, <1>6, <1>7
<1>9. L \in (n + 2)..L
  BY <1>1, <1>2
\* The same, in the terms HashGroup is written in.
<1>10. /\ Len(s) \in (LastSplit(s) + 1)..Len(s)
       /\ \A e \in (LastSplit(s) + 1)..Len(s) :
             (/\ NoDash(SubSeq(s, LastSplit(s) + 1, e))
              /\ e = Len(s) \/ s[e + 1] = Dash) <=> e = Len(s)
  BY <1>2, <1>4, <1>8, <1>9
<1>11. (CHOOSE e \in (LastSplit(s) + 1)..Len(s) :
           /\ NoDash(SubSeq(s, LastSplit(s) + 1, e))
           /\ e = Len(s) \/ s[e + 1] = Dash) = Len(s)
  BY <1>10, Zenon
<1>12. SubSeq(s, LastSplit(s) + 1, Len(s)) = h
  BY <1>2, <1>4, <1>5
<1>. QED BY <1>4, <1>11, <1>12 DEF HashGroup
(* A single-job name does not end with "-array": it ends with the hash.   *)
LEMMA CoreNotArray ==
    ASSUME NEW p \in Seq(Tokens), NEW h \in Seq({"x"}), h # <<>>
    PROVE  ~EndsWith(Core(p, h), ArraySuffix)
<1>. DEFINE s == Core(p, h)
            L == Len(p) + 1 + Len(h)
<1>1. Len(h) \in Nat \ {0} /\ \A k \in 1..Len(h) : h[k] = "x"
  BY EmptySeq, LenProperties
<1>2. /\ s \in Seq(Tokens)
      /\ Len(s) = L
      /\ \A k \in (Len(p) + 2)..L : s[k] = h[k - Len(p) - 1]
  BY CoreShape
<1>3. s[L] = "x"
  BY <1>1, <1>2
<1>. SUFFICES ASSUME Len(s) >= 2, SubSeq(s, L - 1, L) = ArraySuffix PROVE FALSE
  BY <1>2 DEF EndsWith, ArraySuffix
<1>4. SubSeq(s, L - 1, L)[2] = s[L]
  <2>1. \A i \in (L - 1)..L : s[i] \in Tokens
    BY <1>2
  <2>. QED BY <1>2, <2>1, SubSeqProperties
<1>5. ArraySuffix[2] = "array"
  BY DEF ArraySuffix
<1>. QED BY <1>3, <1>4, <1>5

(* An array name ends with "-array", and stripping it leaves the single-  *)
(* job name.                                                               *)
LEMMA ArrayStrip ==
    ASSUME NEW s \in Seq(Tokens), Len(s) >= 1
    PROVE  /\ EndsWith(s \o ArraySuffix, ArraySuffix)
           /\ SubSeq(s \o ArraySuffix, 1, Len(s \o ArraySuffix) - Len(ArraySuffix)) = s
<1>1. ArraySuffix \in Seq(Tokens) /\ Len(ArraySuffix) = 2
  BY DEF ArraySuffix, Tokens
<1>2. Len(s) \in Nat /\ Len(s \o ArraySuffix) = Len(s) + 2
  BY <1>1, ConcatProperties, LenProperties
<1>3. SubSeq(s \o ArraySuffix, Len(s) + 1, Len(s) + 2) = ArraySuffix
  <2>1. SubSeq(s \o ArraySuffix, Len(s) + 1, Len(s) + 2) = SubSeq(ArraySuffix, 1, 2)
    <3>1. /\ Len(s) + 1 \in (Len(s) + 1)..(Len(s) + Len(ArraySuffix))
          /\ Len(s) + 2 \in (Len(s) + 1)..(Len(s) + Len(ArraySuffix))
      BY <1>1, <1>2
    <3>. QED BY <1>1, <1>2, <3>1, SubSeqOfConcat2
  <2>. QED BY <1>1, <2>1, SubSeqFull
<1>4. SubSeq(s \o ArraySuffix, 1, Len(s)) = s
  <2>1. SubSeq(s \o ArraySuffix, 1, Len(s)) = SubSeq(s, 1, Len(s))
    BY <1>1, SubSeqOfConcat1
  <2>. QED BY <2>1, SubSeqFull
<1>. QED BY <1>1, <1>2, <1>3, <1>4 DEF EndsWith

(* The round trip for one prefix, hash and kind of Job.                   *)
LEMMA RoundTrip ==
    ASSUME NEW p \in Seq(Tokens), NEW h \in Seq({"x"}), h # <<>>, NEW a \in BOOLEAN
    PROVE  /\ GetHashFromJobName(GetK8sJobName(p, h, a)) = h
           /\ IsArrayJobName(GetK8sJobName(p, h, a)) = a
           /\ GatheredHash(GetK8sJobName(p, h, a)) = IF a THEN NoMatch ELSE h
<1>1. Core(p, h) \in Seq(Tokens) /\ Len(Core(p, h)) >= 1
  BY CoreShape
<1>2. HashGroup(Core(p, h)) = h /\ ~EndsWith(Core(p, h), ArraySuffix)
  BY CoreHash, CoreNotArray
<1>3. CASE a
  <2>1. GetK8sJobName(p, h, a) = Core(p, h) \o ArraySuffix
    BY <1>3 DEF GetK8sJobName, Core
  <2>2. /\ EndsWith(Core(p, h) \o ArraySuffix, ArraySuffix)
        /\ SubSeq(Core(p, h) \o ArraySuffix, 1,
                  Len(Core(p, h) \o ArraySuffix) - Len(ArraySuffix)) = Core(p, h)
    BY <1>1, ArrayStrip
  <2>. QED BY <1>2, <1>3, <2>1, <2>2 DEF GetHashFromJobName, IsArrayJobName, GatheredHash
<1>4. CASE ~a
  <2>1. GetK8sJobName(p, h, a) = Core(p, h)
    BY <1>1, <1>4, ConcatEmptySeq DEF GetK8sJobName, Core
  <2>2. IsArrayJobName(GetK8sJobName(p, h, a)) = FALSE
    BY <1>2, <2>1 DEF IsArrayJobName
  <2>3. GetHashFromJobName(GetK8sJobName(p, h, a)) = h
    BY <1>2, <2>1 DEF GetHashFromJobName
  <2>4. a = FALSE
    BY <1>4
  <2>. QED BY <2>2, <2>3, <2>4 DEF GatheredHash
<1>. QED BY <1>3, <1>4

-----------------------------------------------------------------------------
\* The kind of the name built last is a Boolean.
ArrayIsBool == array \in BOOLEAN

(* spec 6, naming convention (NameRoundTrip, checked by the run job_name   *)
(* on bounded strings): for every job_name_prefix, whatever "-" it holds,  *)
(* and every eval hash, gather_inflight_jobs finds a single-job name again *)
(* under the hash it was built from and skips an array name, and           *)
(* get_hash_from_job_name gives the hash back from both.                   *)
THEOREM NameRoundTripHolds == Spec => []NameRoundTrip
<1>1. Init => ArrayIsBool
  BY DEF Init, ArrayIsBool
<1>2. ArrayIsBool /\ [Next]_<<name, array>> => ArrayIsBool'
  BY DEF Next, NameJob, ArrayIsBool
<1>3. ArrayIsBool => NameRoundTrip
  <2>. SUFFICES ASSUME array \in BOOLEAN, NEW p \in Prefixes, NEW h \in HashSet,
                       Built(p, h, array)
                PROVE  /\ GetHashFromJobName(name) = h
                       /\ IsArrayJobName(name) = array
                       /\ GatheredHash(name) = IF array THEN NoMatch ELSE h
    BY DEF NameRoundTrip, ArrayIsBool
  <2>1. p \in Seq(Tokens) /\ h \in Seq({"x"}) /\ h # <<>>
    OBVIOUS
  <2>. QED BY <2>1, RoundTrip DEF Built
<1>. QED BY <1>1, <1>2, <1>3, PTL DEF Spec
=============================================================================
