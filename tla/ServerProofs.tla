---------------------------- MODULE ServerProofs ----------------------------
(***************************************************************************)
(* Proofs about the server for any number of connections and clients: who  *)
(* owns a connection, what is left when Stop has returned, and that no     *)
(* client is slept over.                                                   *)
(***************************************************************************)
EXTENDS Server, FiniteSetTheorems, TLAPS

-----------------------------------------------------------------------------
(* Lists.                                                                  *)

\* The elements of a list, and that no element is in it twice.  They are
\* ToSet and IsInjective, over 1 .. Len(s).
Elems(s) == {s[i] : i \in 1 .. Len(s)}
Once(s) == \A i, j \in 1 .. Len(s) : s[i] = s[j] => i = j

\* ConnList.AddTail.
LEMMA AppendOne ==
    ASSUME NEW T, NEW s \in Seq(T), NEW e \in T
    PROVE  /\ Append(s, e) \in Seq(T) /\ Elems(Append(s, e)) = Elems(s) \cup {e}
           /\ Once(s) /\ e \notin Elems(s) => Once(Append(s, e))
           /\ Len(Append(s, e)) = Len(s) + 1
<1>1. /\ Append(s, e) \in Seq(T) /\ Len(Append(s, e)) = Len(s) + 1 /\ Len(s) \in Nat
      /\ \A i \in 1 .. Len(s) : Append(s, e)[i] = s[i]
      /\ Append(s, e)[Len(s) + 1] = e
    OBVIOUS
<1> QED BY <1>1 DEF Elems, Once

\* ConnList.PopHead.
LEMMA TakeHead ==
    ASSUME NEW T, NEW s \in Seq(T), s # <<>>
    PROVE  /\ Tail(s) \in Seq(T) /\ Head(s) \in T
           /\ Elems(s) = Elems(Tail(s)) \cup {Head(s)}
           /\ Once(s) => Once(Tail(s)) /\ Head(s) \notin Elems(Tail(s))
           /\ Len(Tail(s)) = Len(s) - 1
<1>1. /\ Tail(s) \in Seq(T) /\ Len(s) \in Nat \ {0} /\ Len(Tail(s)) = Len(s) - 1
      /\ \A i \in 1 .. Len(s) - 1 : Tail(s)[i] = s[i + 1]
      /\ Head(s) = s[1] /\ s[1] \in T
    OBVIOUS
<1>2. \A i \in 2 .. Len(s) : i - 1 \in 1 .. Len(s) - 1 /\ s[i] = Tail(s)[i - 1]
    BY <1>1
<1>3. Elems(s) = Elems(Tail(s)) \cup {Head(s)}
    <2>1. \A i \in 1 .. Len(s) : i = 1 \/ i \in 2 .. Len(s)
        BY <1>1
    <2>2. Elems(s) \subseteq Elems(Tail(s)) \cup {Head(s)}
        BY <1>1, <1>2, <2>1 DEF Elems
    <2>3. \A i \in 1 .. Len(s) - 1 : i + 1 \in 1 .. Len(s) /\ Tail(s)[i] = s[i + 1]
        BY <1>1
    <2>4. Elems(Tail(s)) \subseteq Elems(s) /\ Head(s) \in Elems(s)
        BY <1>1, <2>3 DEF Elems
    <2> QED BY <2>2, <2>4
<1> QED BY <1>1, <1>2, <1>3 DEF Elems, Once

\* The concatenation of two lists.
LEMMA Concat ==
    ASSUME NEW T, NEW a \in Seq(T), NEW b \in Seq(T)
    PROVE  /\ a \o b \in Seq(T) /\ Len(a \o b) = Len(a) + Len(b)
           /\ \A i \in 1 .. Len(a) : (a \o b)[i] = a[i]
           /\ \A i \in 1 .. Len(b) : (a \o b)[Len(a) + i] = b[i]
<1>1. a \o b \in Seq(T)
    OBVIOUS
<1>2. Len(a \o b) = Len(a) + Len(b)
    OBVIOUS
<1>3. \A i \in 1 .. Len(a) : (a \o b)[i] = a[i]
    OBVIOUS
<1>4. \A i \in 1 .. Len(b) : (a \o b)[Len(a) + i] = b[i]
    OBVIOUS
<1> QED BY <1>1, <1>2, <1>3, <1>4

\* Erase of the entry that the iterator of the reaping pass points to.
LEMMA RemoveOne ==
    ASSUME NEW T, NEW s \in Seq(T), NEW k \in 1 .. Len(s)
    PROVE  /\ RemoveAt(s, k) \in Seq(T) /\ s[k] \in T
           /\ Elems(s) = Elems(RemoveAt(s, k)) \cup {s[k]}
           /\ Once(s) => Once(RemoveAt(s, k)) /\ s[k] \notin Elems(RemoveAt(s, k))
           /\ Len(RemoveAt(s, k)) = Len(s) - 1
<1> DEFINE a == SubSeq(s, 1, k - 1)
           b == SubSeq(s, k + 1, Len(s))
           r == a \o b
<1>0. Len(s) \in Nat /\ k \in Nat /\ k >= 1 /\ k <= Len(s)
    OBVIOUS
<1>1. a \in Seq(T) /\ Len(a) = k - 1 /\ \A i \in 1 .. k - 1 : a[i] = s[i]
    BY <1>0
<1>2. b \in Seq(T) /\ Len(b) = Len(s) - k /\ \A i \in 1 .. Len(s) - k : b[i] = s[k + i]
    BY <1>0
<1> HIDE DEF a, b
<1>c. /\ r \in Seq(T) /\ Len(r) = Len(a) + Len(b)
      /\ \A i \in 1 .. Len(a) : r[i] = a[i]
      /\ \A i \in 1 .. Len(b) : r[Len(a) + i] = b[i]
    <2>1. a \in Seq(T) /\ b \in Seq(T)
        BY <1>1, <1>2
    <2> QED BY <2>1, Concat
<1>4. RemoveAt(s, k) = r
    BY DEF RemoveAt, a, b
<1> HIDE DEF r
<1>3. r \in Seq(T) /\ Len(r) = Len(s) - 1
    BY <1>0, <1>1, <1>2, <1>c
<1>5. \A i \in 1 .. Len(s) - 1 : r[i] = IF i < k THEN s[i] ELSE s[i + 1]
    <2> SUFFICES ASSUME NEW i \in 1 .. Len(s) - 1 PROVE r[i] = IF i < k THEN s[i] ELSE s[i + 1]
        OBVIOUS
    <2>1. CASE i < k
        <3>1. i \in 1 .. k - 1
            BY <2>1, <1>0
        <3>2. r[i] = a[i] /\ a[i] = s[i]
            BY <3>1, <1>0, <1>1, <1>c
        <3> QED BY <2>1, <3>2
    <2>2. CASE ~(i < k)
        <3>1. i - (k - 1) \in 1 .. Len(s) - k /\ k + (i - (k - 1)) = i + 1
            BY <2>2, <1>0
        <3>2. b[i - (k - 1)] = s[i + 1]
            BY <3>1, <1>2
        <3>3. r[(k - 1) + (i - (k - 1))] = b[i - (k - 1)]
            BY <3>1, <1>0, <1>1, <1>2, <1>c
        <3>4. (k - 1) + (i - (k - 1)) = i
            BY <1>0
        <3> QED BY <2>2, <3>2, <3>3, <3>4
    <2> QED BY <2>1, <2>2
<1>6. \A i \in 1 .. Len(s) : i # k => \E j \in 1 .. Len(s) - 1 : r[j] = s[i]
    <2> SUFFICES ASSUME NEW i \in 1 .. Len(s), i # k
                 PROVE  \E j \in 1 .. Len(s) - 1 : r[j] = s[i]
        OBVIOUS
    <2>1. CASE i < k
        <3>1. i \in 1 .. Len(s) - 1 /\ r[i] = s[i]
            BY <2>1, <1>0, <1>5
        <3> QED BY <3>1
    <2>2. CASE i > k
        <3>1. i - 1 \in 1 .. Len(s) - 1 /\ ~(i - 1 < k) /\ (i - 1) + 1 = i
            BY <2>2, <1>0
        <3>2. r[i - 1] = s[i]
            BY <3>1, <1>5
        <3> QED BY <3>1, <3>2
    <2> QED BY <2>1, <2>2, <1>0
<1>7. Elems(s) = Elems(r) \cup {s[k]}
    <2>1. \A j \in 1 .. Len(r) : \E i \in 1 .. Len(s) : r[j] = s[i]
        <3> SUFFICES ASSUME NEW j \in 1 .. Len(r) PROVE \E i \in 1 .. Len(s) : r[j] = s[i]
            OBVIOUS
        <3>1. j \in 1 .. Len(s) /\ j + 1 \in 1 .. Len(s) /\ j \in 1 .. Len(s) - 1
            BY <1>0, <1>3
        <3> QED BY <3>1, <1>5
    <2>2. Elems(r) \subseteq Elems(s)
        BY <2>1 DEF Elems
    <2>3. Elems(s) \subseteq Elems(r) \cup {s[k]}
        BY <1>3, <1>6 DEF Elems
    <2> QED BY <2>2, <2>3 DEF Elems
<1>8. Once(s) => s[k] \notin Elems(r)
    BY <1>0, <1>3, <1>5 DEF Elems, Once
<1>9. Once(s) => Once(r)
    <2> SUFFICES ASSUME Once(s), NEW i \in 1 .. Len(r), NEW j \in 1 .. Len(r), r[i] = r[j]
                 PROVE  i = j
        BY DEF Once
    <2> DEFINE f(x) == IF x < k THEN x ELSE x + 1
    <2>1. f(i) \in 1 .. Len(s) /\ f(j) \in 1 .. Len(s) /\ s[f(i)] = s[f(j)]
        BY <1>0, <1>3, <1>5, SMTT(20)
    <2>2. f(i) = f(j)
        BY <2>1 DEF Once
    <2> QED BY <2>2, <1>0, <1>3
<1> QED BY <1>0, <1>3, <1>4, <1>7, <1>8, <1>9

-----------------------------------------------------------------------------
(* The inductive invariant.                                                *)

USE ServerAssumption

\* The fields of a Connection.
ConnRec == [alive : BOOLEAN, sock : BOOLEAN, stop : BOOLEAN,
            thr : {"none", "top", "recv", "serve", "closing", "exit", "done"},
            lock : {"free", "ctl", "acc"}, client : {"idle", "request", "gone"}]

\* ConnListLock is held during the reaping pass, and only in it are there
\* connections that the accepting thread destroys.
PassOk ==
    /\ listLock <=> athr = "run" /\ apc = "reap"
    /\ doomed # None => listLock
    /\ it <= Cardinality(Conns) + 1

\* The stages of Stop.
StopOk ==
    /\ athr = "none" <=> ~ListenSocket
    /\ ~ListenSocket => backlog = 0
    /\ stopping # None <=> ctl \in {"connstop", "connjoin"}
    /\ ctl \in {"drain", "connstop", "connjoin"} => athr = "none"
    /\ ctl = "idle" /\ ~ListenSocket => ConnList = <<>>

\* The owner of a connection.
OwnerOk ==
    /\ Once(ConnList) /\ Len(ConnList) = Cardinality(Elems(ConnList))
    /\ \A c \in Conns :
         /\ conn[c].alive <=> c \in Elems(ConnList) \/ c = stopping \/ c = doomed
         /\ ~conn[c].alive => conn[c].thr = "none"
    /\ stopping \notin Elems(ConnList) /\ doomed \notin Elems(ConnList)

\* The inductive invariant.
VInv == TypeOK /\ PassOk /\ StopOk /\ OwnerOk

\* The size of a set that loses or gains an element.
LEMMA CountRemove ==
    ASSUME NEW S, IsFiniteSet(S), NEW x \in S
    PROVE  Cardinality(S \ {x}) = Cardinality(S) - 1
BY FS_RemoveElement

\* The same for an element that is added.
LEMMA CountAdd ==
    ASSUME NEW S, IsFiniteSet(S), NEW x, x \notin S
    PROVE  Cardinality(S \cup {x}) = Cardinality(S) + 1
BY FS_AddElement

\* The list is not longer than there are connections.
LEMMA Bounded ==
    ASSUME ConnList \in Seq(Conns)
    PROVE  /\ Elems(ConnList) \subseteq Conns /\ IsFiniteSet(Elems(ConnList))
           /\ Cardinality(Elems(ConnList)) \in Nat /\ Cardinality(Conns) \in Nat
           /\ Cardinality(Elems(ConnList)) <= Cardinality(Conns)
<1>1. Elems(ConnList) \subseteq Conns
    BY DEF Elems
<1> QED BY <1>1, FS_Subset, FS_CardinalityType

\* Every step of Start and Stop, of the accepting thread, of a connection's
\* thread and of a client preserves the invariant.
LEMMA VStep == VInv /\ Next => VInv'
<1> SUFFICES ASSUME VInv, Next PROVE VInv'
    OBVIOUS
<1> USE DEF VInv, ctlVars, accVars, Fault, None, NoConn, OthersUnchanged
<1>1. ASSUME Start
      PROVE  VInv'
    <2> USE <1>1 DEF Start
    <2>1. TypeOK'
        BY DEF TypeOK
    <2>2. PassOk'
        BY DEF TypeOK, PassOk
    <2>3. StopOk'
        BY DEF TypeOK, PassOk, StopOk
    <2>4. OwnerOk'
        BY DEF TypeOK, PassOk, StopOk, OwnerOk
    <2> QED BY <2>1, <2>2, <2>3, <2>4
<1>2. ASSUME StopThread
      PROVE  VInv'
    <2> USE <1>2 DEF StopThread
    <2>1. TypeOK'
        BY DEF TypeOK
    <2>2. PassOk'
        BY DEF TypeOK, PassOk
    <2>3. StopOk'
        BY DEF TypeOK, PassOk, StopOk
    <2>4. OwnerOk'
        BY DEF TypeOK, PassOk, StopOk, OwnerOk
    <2> QED BY <2>1, <2>2, <2>3, <2>4
<1>3. ASSUME AbortAccept
      PROVE  VInv'
    <2> USE <1>3 DEF AbortAccept
    <2>1. TypeOK'
        BY DEF TypeOK
    <2>2. PassOk'
        BY DEF TypeOK, PassOk
    <2>3. StopOk'
        BY DEF TypeOK, PassOk, StopOk
    <2>4. OwnerOk'
        BY DEF TypeOK, PassOk, StopOk, OwnerOk
    <2> QED BY <2>1, <2>2, <2>3, <2>4
<1>4. ASSUME JoinAccept
      PROVE  VInv'
    <2> USE <1>4 DEF JoinAccept
    <2>1. TypeOK'
        <3>1. backlog' \in 0 .. MaxBacklog /\ athr' \in {"none", "run", "done"}
            OBVIOUS
        <3>2. ListenSocket' \in BOOLEAN
            OBVIOUS
        <3>3. ctl' \in {"idle", "abort", "join", "drain", "connstop", "connjoin"}
            OBVIOUS
        <3> QED BY <3>1, <3>2, <3>3 DEF TypeOK
    <2>2. PassOk'
        BY DEF TypeOK, PassOk
    <2>3. StopOk'
        BY DEF TypeOK, PassOk, StopOk
    <2>4. OwnerOk'
        BY DEF TypeOK, PassOk, StopOk, OwnerOk
    <2> QED BY <2>1, <2>2, <2>3, <2>4
<1>5. ASSUME PopConn
      PROVE  VInv'
    <2> USE <1>5 DEF PopConn
    <2>0. /\ Tail(ConnList) \in Seq(Conns) /\ Head(ConnList) \in Conns
          /\ Elems(ConnList) = Elems(ConnList') \cup {stopping'}
          /\ Once(ConnList') /\ stopping' \notin Elems(ConnList')
          /\ Len(ConnList') = Len(ConnList) - 1
        <3>1. ConnList \in Seq(Conns) /\ ConnList # <<>> /\ Once(ConnList)
            BY DEF TypeOK, OwnerOk
        <3> QED BY <3>1, TakeHead
    <2>a. stopping = None /\ doomed = None
        BY DEF TypeOK, StopOk, PassOk
    <2>b. Len(ConnList') = Cardinality(Elems(ConnList'))
        <3>1. ConnList \in Seq(Conns)
            BY DEF TypeOK
        <3>2. Elems(ConnList') = Elems(ConnList) \ {stopping'} /\ stopping' \in Elems(ConnList)
            BY <2>0
        <3>3. PICK E, x : E = Elems(ConnList) /\ x = stopping'
            OBVIOUS
        <3>4. IsFiniteSet(E) /\ x \in E
            BY <3>1, <3>2, <3>3, Bounded
        <3>5. Cardinality(E \ {x}) = Cardinality(E) - 1
            BY <3>4, CountRemove
        <3>6. Len(ConnList) = Cardinality(E) /\ Elems(ConnList') = E \ {x}
            BY <3>2, <3>3 DEF OwnerOk
        <3> QED BY <3>5, <3>6, <2>0
    <2>1. TypeOK'
        BY DEF TypeOK
    <2>2. PassOk'
        BY DEF TypeOK, PassOk
    <2>3. StopOk'
        BY DEF TypeOK, PassOk, StopOk
    <2>4. OwnerOk'
        BY <2>0, <2>a, <2>b DEF TypeOK, OwnerOk
    <2> QED BY <2>1, <2>2, <2>3, <2>4
<1>6. ASSUME StopDone
      PROVE  VInv'
    <2> USE <1>6 DEF StopDone
    <2>1. TypeOK'
        BY DEF TypeOK
    <2>2. PassOk'
        BY DEF TypeOK, PassOk
    <2>3. StopOk'
        BY DEF TypeOK, PassOk, StopOk
    <2>4. OwnerOk'
        BY DEF TypeOK, PassOk, StopOk, OwnerOk
    <2> QED BY <2>1, <2>2, <2>3, <2>4
<1>7. ASSUME ConnStop
      PROVE  VInv'
    <2> USE <1>7 DEF ConnStop
    <2>0. stopping \in Conns
        BY DEF TypeOK, StopOk
    <2>1. TypeOK'
        <3>1. conn' \in [Conns -> ConnRec]
            <4>1. conn \in [Conns -> ConnRec] /\ conn[stopping] \in ConnRec
                BY <2>0 DEF TypeOK, ConnRec
            <4>2. [conn[stopping] EXCEPT !.lock = "ctl", !.stop = TRUE] \in ConnRec
                <5>1. [conn[stopping] EXCEPT !.lock = "ctl"] \in ConnRec
                    BY <4>1 DEF ConnRec
                <5>2. \A r \in ConnRec : [r EXCEPT !.stop = TRUE] \in ConnRec
                    BY DEF ConnRec
                <5> QED BY <5>1, <5>2
            <4>3. conn' = [conn EXCEPT ![stopping] = [conn[stopping] EXCEPT !.lock = "ctl", !.stop = TRUE]]
                BY <2>0, <4>1
            <4> QED BY <2>0, <4>1, <4>2, <4>3
        <3> QED BY <3>1 DEF TypeOK, ConnRec
    <2>2. PassOk'
        BY DEF TypeOK, PassOk
    <2>3. StopOk'
        BY DEF TypeOK, PassOk, StopOk
    <2>4. OwnerOk'
        BY DEF TypeOK, PassOk, StopOk, OwnerOk
    <2> QED BY <2>1, <2>2, <2>3, <2>4
<1>8. ASSUME ConnJoin
      PROVE  VInv'
    <2> USE <1>8 DEF ConnJoin
    <2>1. TypeOK'
        BY DEF TypeOK
    <2>2. PassOk'
        BY DEF TypeOK, PassOk
    <2>3. StopOk'
        BY DEF TypeOK, PassOk, StopOk
    <2>4. OwnerOk'
        BY DEF TypeOK, PassOk, StopOk, OwnerOk
    <2> QED BY <2>1, <2>2, <2>3, <2>4
<1>9. ASSUME LoopTop
      PROVE  VInv'
    <2> USE <1>9 DEF LoopTop
    <2>0. Cardinality(Conns) \in Nat
        BY FS_CardinalityType
    <2>1. TypeOK'
        <3>1. it' \in 1 .. Cardinality(Conns) + 2
            BY <2>0 DEF TypeOK
        <3>2. apc' \in {"top", "reap", "accept", "queued", "sleep", "accepted"}
            BY DEF TypeOK
        <3>3. athr' \in {"none", "run", "done"} /\ listLock' \in BOOLEAN
            BY DEF TypeOK
        <3> QED BY <3>1, <3>2, <3>3 DEF TypeOK
    <2>2. PassOk'
        BY <2>0 DEF TypeOK, PassOk
    <2>3. StopOk'
        BY DEF TypeOK, PassOk, StopOk
    <2>4. OwnerOk'
        BY DEF TypeOK, PassOk, StopOk, OwnerOk
    <2> QED BY <2>1, <2>2, <2>3, <2>4
<1>10. ASSUME Reap
      PROVE  VInv'
    <2> USE <1>10 DEF Reap
    <2>a. ConnList \in Seq(Conns) /\ it \in 1 .. Len(ConnList) /\ Once(ConnList)
        BY DEF TypeOK, OwnerOk
    <2>b. PICK c \in Conns : c = ConnList[it]
        BY <2>a
    <2>c. /\ RemoveAt(ConnList, it) \in Seq(Conns)
          /\ Elems(ConnList) = Elems(RemoveAt(ConnList, it)) \cup {c}
          /\ Once(RemoveAt(ConnList, it)) /\ c \notin Elems(RemoveAt(ConnList, it))
          /\ Len(RemoveAt(ConnList, it)) = Len(ConnList) - 1
        BY <2>a, <2>b, RemoveOne
    <2>d. /\ it' = it + 1 /\ it' \in 1 .. Cardinality(Conns) + 1 /\ Cardinality(Conns) \in Nat
        BY <2>a, Bounded DEF OwnerOk
    <2>e. \/ UNCHANGED <<doomed, ConnList, conn>>
          \/ /\ ConnList' = RemoveAt(ConnList, it) /\ doomed' = c
             /\ conn' = [conn EXCEPT ![c] = [conn[c] EXCEPT !.lock = "acc", !.stop = TRUE]]
        BY <2>b
    <2>f. conn \in [Conns -> ConnRec] /\ conn[c] \in ConnRec
        BY DEF TypeOK, ConnRec
    <2>g. /\ [conn[c] EXCEPT !.lock = "acc", !.stop = TRUE] \in ConnRec
          /\ [conn[c] EXCEPT !.lock = "acc", !.stop = TRUE].alive = conn[c].alive
          /\ [conn[c] EXCEPT !.lock = "acc", !.stop = TRUE].thr = conn[c].thr
        <3>1. \A r \in ConnRec : /\ [r EXCEPT !.stop = TRUE] \in ConnRec
                                 /\ [r EXCEPT !.stop = TRUE].alive = r.alive
                                 /\ [r EXCEPT !.stop = TRUE].thr = r.thr
            BY DEF ConnRec
        <3>2. \A r \in ConnRec : /\ [r EXCEPT !.lock = "acc"] \in ConnRec
                                 /\ [r EXCEPT !.lock = "acc"].alive = r.alive
                                 /\ [r EXCEPT !.lock = "acc"].thr = r.thr
            BY DEF ConnRec
        <3> QED BY <3>1, <3>2, <2>f
    <2>h. doomed = None /\ listLock /\ stopping = None
        BY DEF TypeOK, PassOk, StopOk
    <2>i. UNCHANGED <<ctl, stopping, ListenSocket, athr, astop, apc, listLock, wake, backlog, faults>>
        OBVIOUS
    <2> HIDE <1>10 DEF Reap
    <2>1. TypeOK'
        <3>1. conn' \in [Conns -> ConnRec]
            BY <2>e, <2>f, <2>g
        <3>2. doomed' \in Conns \cup {None} /\ ConnList' \in Seq(Conns)
            BY <2>c, <2>e DEF TypeOK
        <3> QED BY <3>1, <3>2, <2>d, <2>i DEF TypeOK, ConnRec
    <2>2. PassOk'
        BY <2>d, <2>h, <2>i DEF TypeOK, PassOk
    <2>3. StopOk'
        BY <2>h, <2>i DEF TypeOK, PassOk, StopOk
    <2>4. OwnerOk'
        <3>1. CASE UNCHANGED <<doomed, ConnList, conn>>
            BY <3>1, <2>i DEF OwnerOk
        <3>2. CASE /\ ConnList' = RemoveAt(ConnList, it) /\ doomed' = c
                   /\ conn' = [conn EXCEPT ![c] = [conn[c] EXCEPT !.lock = "acc", !.stop = TRUE]]
            <4>1. \A d \in Conns : conn'[d].alive = conn[d].alive /\ conn'[d].thr = conn[d].thr
                BY <3>2, <2>f, <2>g
            <4>2. Elems(ConnList') = Elems(ConnList) \ {c} /\ c \in Elems(ConnList)
                BY <3>2, <2>c
            <4>3. Len(ConnList') = Cardinality(Elems(ConnList'))
                <5>1. PICK E : E = Elems(ConnList)
                    OBVIOUS
                <5>2. ConnList \in Seq(Conns)
                    BY DEF TypeOK
                <5>3. IsFiniteSet(E) /\ c \in E
                    BY <4>2, <5>1, <5>2, Bounded
                <5>4. Cardinality(E \ {c}) = Cardinality(E) - 1
                    BY <5>3, CountRemove
                <5>5. Len(ConnList) = Cardinality(E) /\ Elems(ConnList') = E \ {c}
                    BY <4>2, <5>1 DEF OwnerOk
                <5>6. Len(ConnList') = Len(ConnList) - 1
                    BY <3>2, <2>c
                <5> QED BY <5>4, <5>5, <5>6
            <4>4. \A d \in Conns : d # None
                OBVIOUS
            <4> QED BY <3>2, <4>1, <4>2, <4>3, <4>4, <2>c, <2>h, <2>i DEF OwnerOk
        <3> QED BY <3>1, <3>2, <2>e
    <2> QED BY <2>1, <2>2, <2>3, <2>4
<1>11. ASSUME ReapJoin
      PROVE  VInv'
    <2> USE <1>11 DEF ReapJoin
    <2>1. TypeOK'
        BY DEF TypeOK
    <2>2. PassOk'
        BY DEF TypeOK, PassOk
    <2>3. StopOk'
        BY DEF TypeOK, PassOk, StopOk
    <2>4. OwnerOk'
        BY DEF TypeOK, PassOk, StopOk, OwnerOk
    <2> QED BY <2>1, <2>2, <2>3, <2>4
<1>12. ASSUME ReapEnd
      PROVE  VInv'
    <2> USE <1>12 DEF ReapEnd
    <2>1. TypeOK'
        BY DEF TypeOK
    <2>2. PassOk'
        BY DEF TypeOK, PassOk
    <2>3. StopOk'
        BY DEF TypeOK, PassOk, StopOk
    <2>4. OwnerOk'
        BY DEF TypeOK, PassOk, StopOk, OwnerOk
    <2> QED BY <2>1, <2>2, <2>3, <2>4
<1>13. ASSUME AcceptQueue
      PROVE  VInv'
    <2> USE <1>13 DEF AcceptQueue
    <2>1. TypeOK'
        <3>1. faults' \in 0 .. MaxFaults
            BY DEF TypeOK
        <3>2. apc' \in {"top", "reap", "accept", "queued", "sleep", "accepted"}
            BY DEF TypeOK
        <3>3. athr' \in {"none", "run", "done"} /\ wake' \in BOOLEAN
            BY DEF TypeOK
        <3> QED BY <3>1, <3>2, <3>3 DEF TypeOK
    <2>2. PassOk'
        BY DEF TypeOK, PassOk
    <2>3. StopOk'
        BY DEF TypeOK, PassOk, StopOk
    <2>4. OwnerOk'
        BY DEF TypeOK, PassOk, StopOk, OwnerOk
    <2> QED BY <2>1, <2>2, <2>3, <2>4
<1>14. ASSUME AcceptTry
      PROVE  VInv'
    <2> USE <1>14 DEF AcceptTry
    <2>1. TypeOK'
        BY DEF TypeOK
    <2>2. PassOk'
        BY DEF TypeOK, PassOk
    <2>3. StopOk'
        BY DEF TypeOK, PassOk, StopOk
    <2>4. OwnerOk'
        BY DEF TypeOK, PassOk, StopOk, OwnerOk
    <2> QED BY <2>1, <2>2, <2>3, <2>4
<1>15. ASSUME AcceptRetry
      PROVE  VInv'
    <2> USE <1>15 DEF AcceptRetry
    <2>1. TypeOK'
        BY DEF TypeOK
    <2>2. PassOk'
        BY DEF TypeOK, PassOk
    <2>3. StopOk'
        BY DEF TypeOK, PassOk, StopOk
    <2>4. OwnerOk'
        BY DEF TypeOK, PassOk, StopOk, OwnerOk
    <2> QED BY <2>1, <2>2, <2>3, <2>4
<1>16. ASSUME AddConn
      PROVE  VInv'
    <2> USE <1>16 DEF AddConn
    <2> DEFINE new == [alive |-> TRUE, sock |-> TRUE, thr |-> "top",
                    stop |-> FALSE, lock |-> "free", client |-> "idle"]
    <2>a. \/ UNCHANGED <<conn, ConnList>>
          \/ \E c \in Conns : /\ ~conn[c].alive /\ conn' = [conn EXCEPT ![c] = new]
                              /\ ConnList' = Append(ConnList, c)
        BY DEF Free
    <2>b. new \in ConnRec /\ new.alive /\ new.thr = "top"
        BY DEF ConnRec
    <2>c. conn \in [Conns -> ConnRec] /\ ConnList \in Seq(Conns) /\ Once(ConnList)
        BY DEF TypeOK, ConnRec, OwnerOk
    <2>d. /\ UNCHANGED <<ctl, stopping, ListenSocket, athr, astop, it, doomed, listLock, wake, backlog>>
          /\ apc' = "top" /\ faults' \in 0 .. MaxFaults
        BY DEF TypeOK
    <2>e. athr = "run" /\ apc = "accepted"
        OBVIOUS
    <2> HIDE <1>16 DEF AddConn, new
    <2>1. TypeOK'
        <3>1. conn' \in [Conns -> ConnRec] /\ ConnList' \in Seq(Conns)
            <4>1. CASE UNCHANGED <<conn, ConnList>>
                BY <4>1, <2>c
            <4>2. CASE \E c \in Conns : /\ ~conn[c].alive /\ conn' = [conn EXCEPT ![c] = new]
                                        /\ ConnList' = Append(ConnList, c)
                BY <4>2, <2>b, <2>c
            <4> QED BY <4>1, <4>2, <2>a
        <3> QED BY <3>1, <2>d DEF TypeOK, ConnRec
    <2>2. PassOk'
        BY <2>d, <2>e DEF TypeOK, PassOk
    <2>3. StopOk'
        BY <2>d, <2>e DEF TypeOK, StopOk
    <2>4. OwnerOk'
        <3>1. CASE UNCHANGED <<conn, ConnList>>
            BY <3>1, <2>d DEF OwnerOk
        <3>2. ASSUME NEW c \in Conns, ~conn[c].alive, conn' = [conn EXCEPT ![c] = new],
                     ConnList' = Append(ConnList, c)
              PROVE  OwnerOk'
            <4>1. c \notin Elems(ConnList) /\ c # stopping /\ c # doomed
                BY <3>2 DEF OwnerOk
            <4>2. /\ Elems(ConnList') = Elems(ConnList) \cup {c} /\ Once(ConnList')
                  /\ Len(ConnList') = Len(ConnList) + 1
                BY <3>2, <4>1, <2>c, AppendOne
            <4>3. Len(ConnList') = Cardinality(Elems(ConnList'))
                <5>1. PICK E : E = Elems(ConnList)
                    OBVIOUS
                <5>2. ConnList \in Seq(Conns)
                    BY DEF TypeOK
                <5>3. IsFiniteSet(E) /\ c \notin E
                    BY <4>1, <5>1, <5>2, Bounded
                <5>4. Cardinality(E \cup {c}) = Cardinality(E) + 1
                    BY <5>3, CountAdd
                <5>5. Len(ConnList) = Cardinality(E) /\ Elems(ConnList') = E \cup {c}
                    BY <4>2, <5>1 DEF OwnerOk
                <5> QED BY <5>4, <5>5, <4>2
            <4>4. conn'[c].alive /\ \A d \in Conns : d # c => conn'[d] = conn[d]
                BY <3>2, <2>b, <2>c
            <4> QED BY <4>1, <4>2, <4>3, <4>4, <2>d DEF OwnerOk
        <3> QED BY <3>1, <3>2, <2>a
    <2> QED BY <2>1, <2>2, <2>3, <2>4
<1>17. ASSUME NEW c \in Conns, ConnTop(c)
      PROVE  VInv'
    <2> USE <1>17 DEF ConnTop
    <2>1. TypeOK'
        BY DEF TypeOK
    <2>2. PassOk'
        BY DEF TypeOK, PassOk
    <2>3. StopOk'
        BY DEF TypeOK, PassOk, StopOk
    <2>4. OwnerOk'
        BY DEF TypeOK, PassOk, StopOk, OwnerOk
    <2> QED BY <2>1, <2>2, <2>3, <2>4
<1>18. ASSUME NEW c \in Conns, ConnRecv(c)
      PROVE  VInv'
    <2> USE <1>18 DEF ConnRecv
    <2>1. TypeOK'
        BY DEF TypeOK
    <2>2. PassOk'
        BY DEF TypeOK, PassOk
    <2>3. StopOk'
        BY DEF TypeOK, PassOk, StopOk
    <2>4. OwnerOk'
        <3>1. \A d \in Conns : /\ conn'[d].alive = conn[d].alive
                               /\ conn'[d].thr = conn[d].thr \/ (d = c /\ conn[c].thr = "recv")
            BY DEF TypeOK
        <3> QED BY <3>1 DEF OwnerOk
    <2> QED BY <2>1, <2>2, <2>3, <2>4
<1>19. ASSUME NEW c \in Conns, ConnServe(c)
      PROVE  VInv'
    <2> USE <1>19 DEF ConnServe
    <2>1. TypeOK'
        <3>1. faults' \in 0 .. MaxFaults
            BY DEF TypeOK
        <3>2. conn' \in [Conns -> ConnRec]
            <4>1. conn \in [Conns -> ConnRec] /\ conn[c] \in ConnRec
                BY DEF TypeOK, ConnRec
            <4>2. \A l \in {"closing", "top"} : [conn[c] EXCEPT !.thr = l] \in ConnRec
                BY <4>1 DEF ConnRec
            <4>3. \E l \in {"closing", "top"} : conn' = [conn EXCEPT ![c] = [conn[c] EXCEPT !.thr = l]]
                BY <4>1
            <4> QED BY <4>1, <4>2, <4>3
        <3> QED BY <3>1, <3>2 DEF TypeOK, ConnRec
    <2>2. PassOk'
        BY DEF TypeOK, PassOk
    <2>3. StopOk'
        BY DEF TypeOK, PassOk, StopOk
    <2>4. OwnerOk'
        BY SMTT(20) DEF TypeOK, PassOk, StopOk, OwnerOk
    <2> QED BY <2>1, <2>2, <2>3, <2>4
<1>20. ASSUME NEW c \in Conns, ConnClose(c)
      PROVE  VInv'
    <2> USE <1>20 DEF ConnClose
    <2>1. TypeOK'
        BY DEF TypeOK
    <2>2. PassOk'
        BY DEF TypeOK, PassOk
    <2>3. StopOk'
        BY DEF TypeOK, PassOk, StopOk
    <2>4. OwnerOk'
        BY DEF TypeOK, PassOk, StopOk, OwnerOk
    <2> QED BY <2>1, <2>2, <2>3, <2>4
<1>21. ASSUME NEW c \in Conns, ConnExit(c)
      PROVE  VInv'
    <2> USE <1>21 DEF ConnExit
    <2>1. TypeOK'
        BY DEF TypeOK
    <2>2. PassOk'
        BY DEF TypeOK, PassOk
    <2>3. StopOk'
        BY DEF TypeOK, PassOk, StopOk
    <2>4. OwnerOk'
        BY DEF TypeOK, PassOk, StopOk, OwnerOk
    <2> QED BY <2>1, <2>2, <2>3, <2>4
<1>22. ASSUME ClientConnect
      PROVE  VInv'
    <2> USE <1>22 DEF ClientConnect
    <2>1. TypeOK'
        BY DEF TypeOK
    <2>2. PassOk'
        BY DEF TypeOK, PassOk
    <2>3. StopOk'
        BY DEF TypeOK, PassOk, StopOk
    <2>4. OwnerOk'
        BY DEF TypeOK, PassOk, StopOk, OwnerOk
    <2> QED BY <2>1, <2>2, <2>3, <2>4
<1>23. ASSUME NEW c \in Conns, ClientSend(c)
      PROVE  VInv'
    <2> USE <1>23 DEF ClientSend
    <2>1. TypeOK'
        BY DEF TypeOK
    <2>2. PassOk'
        BY DEF TypeOK, PassOk
    <2>3. StopOk'
        BY DEF TypeOK, PassOk, StopOk
    <2>4. OwnerOk'
        BY DEF TypeOK, PassOk, StopOk, OwnerOk
    <2> QED BY <2>1, <2>2, <2>3, <2>4
<1>24. ASSUME NEW c \in Conns, ClientClose(c)
      PROVE  VInv'
    <2> USE <1>24 DEF ClientClose
    <2>1. TypeOK'
        BY DEF TypeOK
    <2>2. PassOk'
        BY DEF TypeOK, PassOk
    <2>3. StopOk'
        BY DEF TypeOK, PassOk, StopOk
    <2>4. OwnerOk'
        BY DEF TypeOK, PassOk, StopOk, OwnerOk
    <2> QED BY <2>1, <2>2, <2>3, <2>4
<1> QED BY <1>1, <1>2, <1>3, <1>4, <1>5, <1>6, <1>7, <1>8, <1>9, <1>10, <1>11, <1>12,
           <1>13, <1>14, <1>15, <1>16, <1>17, <1>18, <1>19, <1>20, <1>21, <1>22, <1>23,
           <1>24
    DEF Next, StopStep, AcceptStep, ConnStep

\* The invariant holds in every state of the server.
LEMMA VInductive == Spec => []VInv
<1>1. Init => VInv
    <2> SUFFICES ASSUME Init PROVE VInv
        OBVIOUS
    <2> USE DEF Init, None, NoConn
    <2>1. Cardinality(Conns) \in Nat
        BY FS_CardinalityType
    <2>2. TypeOK
        <3>1. it \in 1 .. Cardinality(Conns) + 2 /\ backlog \in 0 .. MaxBacklog
              /\ faults \in 0 .. MaxFaults
            BY <2>1
        <3>2. ConnList \in Seq(Conns)
            OBVIOUS
        <3>3. conn \in [Conns -> ConnRec]
            BY DEF ConnRec
        <3>4. stopping \in Conns \cup {None} /\ doomed \in Conns \cup {None}
            OBVIOUS
        <3> QED BY <3>1, <3>2, <3>3, <3>4 DEF TypeOK, ConnRec
    <2>3. PassOk
        BY <2>1 DEF PassOk
    <2>4. StopOk
        BY DEF StopOk
    <2>5. Elems(ConnList) = {} /\ Cardinality({}) = 0
        BY FS_EmptySet DEF Elems
    <2>6. OwnerOk
        BY <2>5 DEF OwnerOk, Once
    <2> QED BY <2>2, <2>3, <2>4, <2>6 DEF VInv
<1>2. VInv /\ UNCHANGED vars => VInv'
    BY DEF VInv, vars, ctlVars, accVars, TypeOK, PassOk, StopOk, OwnerOk
<1> QED BY <1>1, <1>2, VStep, PTL DEF Spec

\* What ~Connection, the reaping pass and Server::Stop promise: a thread that
\* still executes Connection::Run has its object, and a live object has exactly
\* one owner.
THEOREM EveryConnectionOwned == Spec => []ConnOwned
<1>1. VInv => ConnOwned
    <2> SUFFICES ASSUME VInv PROVE ConnOwned
        OBVIOUS
    <2>1. Elems(ConnList) = ToSet(ConnList)
        BY DEF Elems, ToSet
    <2>2. IsInjective(ConnList)
        BY DEF VInv, TypeOK, OwnerOk, Once, IsInjective
    <2>3. ASSUME NEW c \in Conns
          PROVE  /\ conn[c].thr \notin {"none", "done"} => conn[c].alive
                 /\ conn[c].alive <=> c \in ToSet(ConnList) \cup {stopping, doomed}
        BY <2>1 DEF VInv, OwnerOk
    <2> QED BY <2>2, <2>3 DEF VInv, ConnOwned
<1> QED BY <1>1, VInductive, PTL

\* Server::Stop: when it has returned no accepting thread, no connection and
\* no connection thread is left, whatever the accepting thread was doing.
THEOREM StopLeavesNothing == Spec => []StoppedClean
<1>1. VInv => StoppedClean
    <2> SUFFICES ASSUME VInv, ctl = "idle", ~ListenSocket
                 PROVE  /\ athr = "none" /\ ConnList = <<>> /\ backlog = 0
                        /\ \A c \in Conns : conn[c].thr = "none"
        BY DEF StoppedClean
    <2>1. athr = "none" /\ ConnList = <<>> /\ backlog = 0
        BY DEF VInv, StopOk
    <2>2. stopping = None /\ doomed = None /\ \A c \in Conns : c # None
        BY <2>1 DEF VInv, StopOk, PassOk, TypeOK, None
    <2>3. Elems(ConnList) = {}
        BY <2>1 DEF Elems
    <2> QED BY <2>1, <2>2, <2>3 DEF VInv, OwnerOk
<1> QED BY <1>1, VInductive, PTL

\* ksock_accept queues itself before the attempt that decides to sleep, so a
\* client that connects at any moment finds the sleeper on the queue.
THEOREM ConnectWakes == Spec => []NoLostConnect
<1>1. Init => NoLostConnect
    BY DEF Init, NoLostConnect
<1>2. VInv /\ NoLostConnect /\ [Next]_vars => NoLostConnect'
    <2> SUFFICES ASSUME VInv, NoLostConnect, [Next]_vars PROVE NoLostConnect'
        OBVIOUS
    <2> USE DEF NoLostConnect, ctlVars, accVars
    <2>0. backlog \in Nat /\ wake \in BOOLEAN
        BY DEF VInv, TypeOK
    <2>1. ASSUME Start PROVE NoLostConnect'
        BY <2>1 DEF Start
    <2>2. ASSUME StopThread PROVE NoLostConnect'
        BY <2>2 DEF StopThread
    <2>3. ASSUME AbortAccept PROVE NoLostConnect'
        BY <2>3 DEF AbortAccept
    <2>4. ASSUME JoinAccept PROVE NoLostConnect'
        BY <2>4 DEF JoinAccept
    <2>5. ASSUME PopConn \/ StopDone \/ ConnStop \/ ConnJoin PROVE NoLostConnect'
        BY <2>5 DEF PopConn, StopDone, ConnStop, ConnJoin
    <2>6. ASSUME LoopTop \/ Reap \/ ReapJoin \/ ReapEnd PROVE NoLostConnect'
        BY <2>6 DEF LoopTop, Reap, ReapJoin, ReapEnd
    <2>7. ASSUME AcceptQueue PROVE NoLostConnect'
        BY <2>7 DEF AcceptQueue
    <2>8. ASSUME AcceptTry PROVE NoLostConnect'
        BY <2>8, <2>0 DEF AcceptTry
    <2>9. ASSUME AcceptRetry PROVE NoLostConnect'
        BY <2>9 DEF AcceptRetry
    <2>10. ASSUME AddConn PROVE NoLostConnect'
        BY <2>10 DEF AddConn
    <2>11. ASSUME NEW c \in Conns, ConnStep(c) PROVE NoLostConnect'
        BY <2>11 DEF ConnStep, ConnTop, ConnRecv, ConnServe, ConnClose, ConnExit,
                     OthersUnchanged
    <2>12. ASSUME ClientConnect PROVE NoLostConnect'
        BY <2>12 DEF ClientConnect
    <2>13. ASSUME NEW c \in Conns, ClientSend(c) \/ ClientClose(c) PROVE NoLostConnect'
        BY <2>13 DEF ClientSend, ClientClose, OthersUnchanged
    <2>14. ASSUME UNCHANGED vars PROVE NoLostConnect'
        BY <2>14 DEF vars
    <2> QED BY <2>1, <2>2, <2>3, <2>4, <2>5, <2>6, <2>7, <2>8, <2>9, <2>10, <2>11,
               <2>12, <2>13, <2>14 DEF Next, StopStep, AcceptStep
<1> QED BY <1>1, <1>2, VInductive, PTL DEF Spec
=============================================================================
