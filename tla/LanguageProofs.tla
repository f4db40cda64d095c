---------------------------- MODULE LanguageProofs ----------------------------
(***************************************************************************)
(* One document and its one language server: the copy that the server      *)
(* holds is the text of the buffer or is owed, every text the editor uses  *)
(* describes the revision it is used for, and an open question is          *)
(* accounted for.  The parts of the invariant are operators of the values  *)
(* they relate, so that a lemma about a step names the old and the new     *)
(* value of each.                                                          *)
(***************************************************************************)
EXTENDS LanguageSync, FiniteSetTheorems, WellFoundedInduction, TLAPS

-----------------------------------------------------------------------------
(* The values that travel. *)

Revisions == 1 .. RevisionMax
Purposes == {"hover", "format"}

Opens == [kind : {"open"}, rev : Revisions]
Changes == [kind : {"change"}, from : Revisions, rev : Revisions]
Queries == [kind : {"query"}, purpose : Purposes, rev : Revisions, req : Nat]
\* A change leads to a later text.
Requests ==
  Opens \cup {r \in Changes : r.from < r.rev} \cup {Close} \cup Queries

\* What a session reports: a pulled set and an answer describe their revision.
Sets == [kind : {"diagnostics"}, server : {1}, rev : Revisions, text : Int,
         pulled : BOOLEAN]
Answers == [kind : {"answer"}, server : {1}, req : Nat \ {0}, purpose : Purposes,
            rev : Revisions, text : Int]
Failures == [kind : {"failed"}, server : {1}, req : Nat]
Results ==
  {e \in Sets : e.pulled => e.text = e.rev} \cup {e \in Answers : e.text = e.rev}
  \cup Failures \cup {Restarted(1), Gone(1)}

Frames ==
  [kind : {"diagnostics"}, version : Nat, text : Int]
  \cup [kind : {"reply"}, id : Nat, text : Int]

\* The elements of a queue.
Items(s) == {s[i] : i \in 1 .. Len(s)}

-----------------------------------------------------------------------------
(* Facts about sequences. *)

LEMMA AppendFacts ==
  ASSUME NEW S, NEW s \in Seq(S), NEW x \in S
  PROVE  /\ Append(s, x) \in Seq(S)
         /\ Len(s) \in Nat
         /\ Len(Append(s, x)) = Len(s) + 1
         /\ \A i \in 1 .. Len(s) : Append(s, x)[i] = s[i]
         /\ Append(s, x)[Len(s) + 1] = x
         /\ Items(Append(s, x)) = Items(s) \cup {x}
<1>1. /\ Append(s, x) \in Seq(S)
      /\ Len(s) \in Nat
      /\ Len(Append(s, x)) = Len(s) + 1
      /\ \A i \in 1 .. Len(s) : Append(s, x)[i] = s[i]
      /\ Append(s, x)[Len(s) + 1] = x
  OBVIOUS
<1>2. Items(Append(s, x)) = Items(s) \cup {x}
  <2> DEFINE t == Append(s, x)
  <2>1. Len(t) = Len(s) + 1 /\ t[Len(s) + 1] = x /\ \A i \in 1 .. Len(s) : t[i] = s[i]
    BY <1>1
  <2>2. Len(s) + 1 \in 1 .. Len(t) /\ 1 .. Len(s) \subseteq 1 .. Len(t)
    BY <1>1, <2>1
  <2>3. \A i \in 1 .. Len(t) : i \in 1 .. Len(s) \/ i = Len(s) + 1
    BY <1>1, <2>1
  <2> HIDE DEF t
  <2>4. Items(t) \subseteq Items(s) \cup {x}
    BY <2>1, <2>3 DEF Items
  <2>5. Items(s) \cup {x} \subseteq Items(t)
    BY <2>1, <2>2 DEF Items
  <2> QED
    BY <2>4, <2>5 DEF t
<1> QED
  BY <1>1, <1>2

LEMMA TailFacts ==
  ASSUME NEW S, NEW s \in Seq(S), s # <<>>
  PROVE  /\ Tail(s) \in Seq(S)
         /\ Len(s) \in Nat \ {0}
         /\ Len(Tail(s)) = Len(s) - 1
         /\ \A i \in 1 .. Len(Tail(s)) : Tail(s)[i] = s[i + 1] /\ i + 1 \in 1 .. Len(s)
         /\ Head(s) = s[1] /\ Head(s) \in S
         /\ Items(s) = {Head(s)} \cup Items(Tail(s))
<1>1. /\ Tail(s) \in Seq(S)
      /\ Len(s) \in Nat \ {0}
      /\ Len(Tail(s)) = Len(s) - 1
      /\ \A i \in 1 .. Len(Tail(s)) : Tail(s)[i] = s[i + 1] /\ i + 1 \in 1 .. Len(s)
      /\ Head(s) = s[1] /\ Head(s) \in S
  OBVIOUS
<1>2. Items(s) = {Head(s)} \cup Items(Tail(s))
  <2> DEFINE t == Tail(s)
  <2>1. /\ Len(t) = Len(s) - 1 /\ Head(s) = s[1]
        /\ \A i \in 1 .. Len(t) : t[i] = s[i + 1] /\ i + 1 \in 1 .. Len(s)
    BY <1>1
  <2>2. 1 \in 1 .. Len(s)
    BY <1>1
  <2>3. \A i \in 1 .. Len(s) : i = 1 \/ (i - 1 \in 1 .. Len(t) /\ s[i] = t[i - 1])
    BY <1>1, <2>1
  <2> HIDE DEF t
  <2>4. Items(s) \subseteq {Head(s)} \cup Items(t)
    BY <2>1, <2>3 DEF Items
  <2>5. {Head(s)} \cup Items(t) \subseteq Items(s)
    BY <2>1, <2>2 DEF Items
  <2> QED
    BY <2>4, <2>5 DEF t
<1> QED
  BY <1>1, <1>2

LEMMA JoinFacts ==
  ASSUME NEW S, NEW s \in Seq(S)
  PROVE  /\ s \o <<>> = s
         /\ \A x \in S : s \o <<x>> = Append(s, x)
         /\ Items(<<>>) = {}
         /\ \A x \in S : <<x>> \in Seq(S) /\ Items(<<x>>) = {x}
         /\ Items(s) \subseteq S
<1>1. s \o <<>> = s /\ \A x \in S : s \o <<x>> = Append(s, x)
  OBVIOUS
<1>2. Items(<<>>) = {}
  BY DEF Items
<1>3. \A x \in S : <<x>> \in Seq(S) /\ Items(<<x>>) = {x}
  BY DEF Items
<1>4. Items(s) \subseteq S
  BY DEF Items
<1> QED
  BY <1>1, <1>2, <1>3, <1>4

-----------------------------------------------------------------------------
(* The requests in the queue of a session, whose copy they change. *)

HasCopy(c) == c.copy # NoCopy
Synced(c) == HasCopy(c) /\ c.sync

\* No request of the queue q behind the position i synchronizes.
IsLast(q, i) == \A k \in 1 .. Len(q) : i < k => ~IsSync(q[k])

\* Each change in the queue continues the synchronization before it, the first
\* one the copy.
Linked(c, q) ==
  \A i \in 1 .. Len(q) : q[i].kind = "change" =>
    /\ Synced(c) /\ (\A k \in 1 .. Len(q) : k < i => ~IsSync(q[k]))
         => c.copy.rev = q[i].from
    /\ \A j \in 1 .. Len(q) :
         /\ j < i /\ IsSync(q[j])
         /\ \A k \in 1 .. Len(q) : j < k /\ k < i => ~IsSync(q[k])
         => q[j].rev = q[i].from

\* The queue brings a copy, or the one that an open creates, to target.
Arrives(c, q, target) ==
  /\ Synced(c) /\ IsLast(q, 0) => c.copy.rev = target
  /\ \A i \in 1 .. Len(q) : IsSync(q[i]) /\ IsLast(q, i) => q[i].rev = target

\* The session has a copy when the queue is empty.
Opened(c, q) ==
  \/ HasCopy(c) /\ \A i \in 1 .. Len(q) : q[i].kind # "close"
  \/ \E i \in 1 .. Len(q) :
       /\ q[i].kind = "open"
       /\ \A k \in 1 .. Len(q) : i < k => q[k].kind # "close"

\* What a session makes of its copy when it handles the request r.
Handled(c, d, r) ==
  /\ Synced(d) /\ IsSync(r) => d.copy.rev = r.rev
  /\ Synced(d) /\ ~IsSync(r) => Synced(c) /\ d.copy = c.copy
Keeps(c, d, r) ==
  /\ r.kind = "open" => HasCopy(d)
  /\ r.kind # "close" /\ HasCopy(c) => HasCopy(d)

LEMMA LinkedTail ==
  ASSUME NEW c, NEW d, NEW q \in Seq(Requests), q # <<>>,
         Linked(c, q), Handled(c, d, Head(q))
  PROVE  Linked(d, Tail(q))
<1> DEFINE t == Tail(q)
<1>1. /\ Len(q) \in Nat \ {0} /\ Len(t) = Len(q) - 1 /\ Head(q) = q[1]
      /\ \A i \in 1 .. Len(t) : t[i] = q[i + 1] /\ i + 1 \in 1 .. Len(q)
  BY TailFacts
<1> HIDE DEF t
<1>2. SUFFICES ASSUME NEW i \in 1 .. Len(t), t[i].kind = "change"
               PROVE  /\ Synced(d) /\ (\A k \in 1 .. Len(t) : k < i => ~IsSync(t[k]))
                           => d.copy.rev = t[i].from
                      /\ \A j \in 1 .. Len(t) :
                           /\ j < i /\ IsSync(t[j])
                           /\ \A k \in 1 .. Len(t) : j < k /\ k < i => ~IsSync(t[k])
                           => t[j].rev = t[i].from
  BY DEF Linked, t
<1>3. q[i + 1].kind = "change" /\ t[i] = q[i + 1] /\ i + 1 \in 1 .. Len(q)
  BY <1>1, <1>2
<1>4. ASSUME NEW j \in 1 .. Len(t), j < i, IsSync(t[j]),
             \A k \in 1 .. Len(t) : j < k /\ k < i => ~IsSync(t[k])
      PROVE  t[j].rev = t[i].from
  <2>1. IsSync(q[j + 1]) /\ j + 1 \in 1 .. Len(q) /\ j + 1 < i + 1 /\ t[j] = q[j + 1]
    BY <1>1, <1>4
  <2>2. \A k \in 1 .. Len(q) : j + 1 < k /\ k < i + 1 => ~IsSync(q[k])
    <3> TAKE k \in 1 .. Len(q)
    <3>1. HAVE j + 1 < k /\ k < i + 1
    <3>2. k - 1 \in 1 .. Len(t) /\ j < k - 1 /\ k - 1 < i /\ t[k - 1] = q[k]
      BY <1>1, <3>1
    <3> QED
      BY <1>4, <3>2
  <2> QED
    BY <1>3, <2>1, <2>2 DEF Linked
<1>5. ASSUME Synced(d), \A k \in 1 .. Len(t) : k < i => ~IsSync(t[k])
      PROVE  d.copy.rev = t[i].from
  <2>1. \A k \in 1 .. Len(q) : 1 < k /\ k < i + 1 => ~IsSync(q[k])
    <3> TAKE k \in 1 .. Len(q)
    <3>1. HAVE 1 < k /\ k < i + 1
    <3>2. k - 1 \in 1 .. Len(t) /\ k - 1 < i /\ t[k - 1] = q[k]
      BY <1>1, <3>1
    <3> QED
      BY <1>5, <3>2
  <2>2. 1 \in 1 .. Len(q) /\ 1 < i + 1
    BY <1>1
  <2>3. CASE IsSync(q[1])
    <3>1. q[1].rev = q[i + 1].from
      BY <1>3, <2>1, <2>2, <2>3 DEF Linked
    <3> QED
      BY <1>1, <1>3, <1>5, <2>3, <3>1 DEF Handled
  <2>4. CASE ~IsSync(q[1])
    <3>1. \A k \in 1 .. Len(q) : k < i + 1 => ~IsSync(q[k])
      BY <1>1, <2>1, <2>4
    <3>2. Synced(c) /\ d.copy = c.copy
      BY <1>1, <1>5, <2>4 DEF Handled
    <3> QED
      BY <1>3, <3>1, <3>2 DEF Linked
  <2> QED
    BY <2>3, <2>4
<1> QED
  BY <1>4, <1>5

LEMMA LinkedAppend ==
  ASSUME NEW c, NEW q \in Seq(Requests), NEW x \in Requests, Linked(c, q),
         x.kind = "change" => Arrives(c, q, x.from)
  PROVE  Linked(c, Append(q, x))
<1> DEFINE t == Append(q, x)
<1>1. /\ Len(q) \in Nat /\ Len(t) = Len(q) + 1 /\ t[Len(q) + 1] = x
      /\ \A i \in 1 .. Len(q) : t[i] = q[i]
  BY AppendFacts
<1>2. \A i \in 1 .. Len(t) : i \in 1 .. Len(q) \/ i = Len(q) + 1
  BY <1>1
<1>3. \A i \in 1 .. Len(q) : i \in 1 .. Len(t) /\ i < Len(q) + 1
  BY <1>1
<1> HIDE DEF t
<1>4. SUFFICES ASSUME NEW i \in 1 .. Len(t), t[i].kind = "change"
               PROVE  /\ Synced(c) /\ (\A k \in 1 .. Len(t) : k < i => ~IsSync(t[k]))
                           => c.copy.rev = t[i].from
                      /\ \A j \in 1 .. Len(t) :
                           /\ j < i /\ IsSync(t[j])
                           /\ \A k \in 1 .. Len(t) : j < k /\ k < i => ~IsSync(t[k])
                           => t[j].rev = t[i].from
  BY DEF Linked, t
<1>5. CASE i \in 1 .. Len(q)
  <2>1. q[i].kind = "change" /\ t[i] = q[i]
    BY <1>1, <1>4, <1>5
  <2>2. \A j \in 1 .. Len(t) : j < i => j \in 1 .. Len(q) /\ t[j] = q[j]
    BY <1>1, <1>2, <1>5
  <2>3. Synced(c) /\ (\A k \in 1 .. Len(t) : k < i => ~IsSync(t[k]))
          => c.copy.rev = t[i].from
    BY <1>1, <1>3, <1>5, <2>1 DEF Linked
  <2>4. ASSUME NEW j \in 1 .. Len(t), j < i, IsSync(t[j]),
               \A k \in 1 .. Len(t) : j < k /\ k < i => ~IsSync(t[k])
        PROVE  t[j].rev = t[i].from
    <3>1. j \in 1 .. Len(q) /\ t[j] = q[j] /\ IsSync(q[j])
      BY <2>2, <2>4
    <3>2. \A k \in 1 .. Len(q) : j < k /\ k < i => ~IsSync(q[k])
      BY <1>1, <1>3, <2>4
    <3> QED
      BY <1>5, <2>1, <2>4, <3>1, <3>2 DEF Linked
  <2> QED
    BY <2>3, <2>4
<1>6. CASE i = Len(q) + 1
  <2>1. t[i] = x /\ x.kind = "change" /\ Arrives(c, q, x.from)
    BY <1>1, <1>4, <1>6
  <2>2. ASSUME Synced(c), \A k \in 1 .. Len(t) : k < i => ~IsSync(t[k])
        PROVE  c.copy.rev = t[i].from
    <3>1. IsLast(q, 0)
      BY <1>1, <1>3, <1>6, <2>2 DEF IsLast
    <3> QED
      BY <2>1, <2>2, <3>1 DEF Arrives
  <2>3. ASSUME NEW j \in 1 .. Len(t), j < i, IsSync(t[j]),
               \A k \in 1 .. Len(t) : j < k /\ k < i => ~IsSync(t[k])
        PROVE  t[j].rev = t[i].from
    <3>1. j \in 1 .. Len(q) /\ t[j] = q[j] /\ IsSync(q[j])
      BY <1>1, <1>2, <1>6, <2>3
    <3>2. IsLast(q, j)
      BY <1>1, <1>3, <1>6, <2>3 DEF IsLast
    <3> QED
      BY <2>1, <3>1, <3>2 DEF Arrives
  <2> QED
    BY <2>2, <2>3
<1> QED
  BY <1>2, <1>5, <1>6

LEMMA ArrivesTail ==
  ASSUME NEW c, NEW d, NEW q \in Seq(Requests), q # <<>>, NEW target,
         Arrives(c, q, target), Handled(c, d, Head(q))
  PROVE  Arrives(d, Tail(q), target)
<1> DEFINE t == Tail(q)
<1>1. /\ Len(q) \in Nat \ {0} /\ Len(t) = Len(q) - 1 /\ Head(q) = q[1]
      /\ \A i \in 1 .. Len(t) : t[i] = q[i + 1] /\ i + 1 \in 1 .. Len(q)
  BY TailFacts
<1>2. \A k \in 1 .. Len(q) : 1 < k => k - 1 \in 1 .. Len(t) /\ t[k - 1] = q[k]
  BY <1>1
<1> HIDE DEF t
<1>3. \A i \in 1 .. Len(t) : IsLast(t, i) => IsLast(q, i + 1)
  BY <1>1, <1>2 DEF IsLast
<1>4. \A i \in 1 .. Len(t) : IsSync(t[i]) /\ IsLast(t, i) => t[i].rev = target
  BY <1>1, <1>3 DEF Arrives
<1>5. ASSUME Synced(d), IsLast(t, 0) PROVE d.copy.rev = target
  <2>1. IsLast(q, 1) /\ 1 \in 1 .. Len(q)
    BY <1>1, <1>2, <1>5 DEF IsLast
  <2>2. CASE IsSync(q[1])
    BY <1>1, <1>5, <2>1, <2>2 DEF Arrives, Handled
  <2>3. CASE ~IsSync(q[1])
    <3>1. IsLast(q, 0)
      BY <1>1, <2>1, <2>3 DEF IsLast
    <3> QED
      BY <1>1, <1>5, <2>3, <3>1 DEF Arrives, Handled
  <2> QED
    BY <2>2, <2>3
<1> QED
  BY <1>4, <1>5 DEF Arrives, t

LEMMA ArrivesAppend ==
  ASSUME NEW c, NEW q \in Seq(Requests), NEW x \in Requests, NEW target,
         IF IsSync(x) THEN x.rev = target ELSE Arrives(c, q, target)
  PROVE  Arrives(c, Append(q, x), target)
<1> DEFINE t == Append(q, x)
<1>1. /\ Len(q) \in Nat /\ Len(t) = Len(q) + 1 /\ t[Len(q) + 1] = x
      /\ \A i \in 1 .. Len(q) : t[i] = q[i]
  BY AppendFacts
<1>2. /\ \A i \in 1 .. Len(t) : i \in 1 .. Len(q) \/ i = Len(q) + 1
      /\ \A i \in 1 .. Len(q) : i \in 1 .. Len(t) /\ i < Len(q) + 1
      /\ Len(q) + 1 \in 1 .. Len(t) /\ 0 < Len(q) + 1
  BY <1>1
<1> HIDE DEF t
<1>3. CASE IsSync(x)
  <2>1. ~IsLast(t, 0) /\ \A i \in 1 .. Len(q) : ~IsLast(t, i)
    BY <1>1, <1>2, <1>3 DEF IsLast
  <2>2. \A i \in 1 .. Len(t) : IsSync(t[i]) /\ IsLast(t, i) => t[i].rev = target
    BY <1>1, <1>2, <1>3, <2>1
  <2> QED
    BY <2>1, <2>2 DEF Arrives, t
<1>4. CASE ~IsSync(x)
  <2>1. /\ IsLast(t, 0) => IsLast(q, 0)
        /\ \A i \in 1 .. Len(q) : IsLast(t, i) => IsLast(q, i)
    BY <1>1, <1>2 DEF IsLast
  <2>2. Arrives(c, q, target)
    BY <1>4
  <2>3. \A i \in 1 .. Len(t) : IsSync(t[i]) /\ IsLast(t, i) => t[i].rev = target
    BY <1>1, <1>2, <1>4, <2>1, <2>2 DEF Arrives
  <2>4. Synced(c) /\ IsLast(t, 0) => c.copy.rev = target
    BY <2>1, <2>2 DEF Arrives
  <2> QED
    BY <2>3, <2>4 DEF Arrives, t
<1> QED
  BY <1>3, <1>4

LEMMA OpenedTail ==
  ASSUME NEW c, NEW d, NEW q \in Seq(Requests), q # <<>>,
         Opened(c, q), Keeps(c, d, Head(q))
  PROVE  Opened(d, Tail(q))
<1> DEFINE t == Tail(q)
<1>1. /\ Len(q) \in Nat \ {0} /\ Len(t) = Len(q) - 1 /\ Head(q) = q[1]
      /\ \A i \in 1 .. Len(t) : t[i] = q[i + 1] /\ i + 1 \in 1 .. Len(q)
  BY TailFacts
<1>2. /\ \A k \in 1 .. Len(q) : 1 < k => k - 1 \in 1 .. Len(t) /\ t[k - 1] = q[k]
      /\ 1 \in 1 .. Len(q)
  BY <1>1
<1> HIDE DEF t
<1>3. CASE HasCopy(c) /\ \A i \in 1 .. Len(q) : q[i].kind # "close"
  BY <1>1, <1>2, <1>3 DEF Opened, Keeps, t
<1>4. ASSUME NEW i \in 1 .. Len(q), q[i].kind = "open",
             \A k \in 1 .. Len(q) : i < k => q[k].kind # "close"
      PROVE  Opened(d, t)
  <2>1. CASE i = 1
    <3>1. HasCopy(d)
      BY <1>1, <1>4, <2>1 DEF Keeps
    <3>2. \A k \in 1 .. Len(t) : t[k].kind # "close"
      BY <1>1, <1>4, <2>1
    <3> QED
      BY <3>1, <3>2 DEF Opened
  <2>2. CASE 1 < i
    <3>1. i - 1 \in 1 .. Len(t) /\ t[i - 1].kind = "open"
      BY <1>2, <1>4, <2>2
    <3>2. \A k \in 1 .. Len(t) : i - 1 < k => t[k].kind # "close"
      BY <1>1, <1>4
    <3> QED
      BY <3>1, <3>2 DEF Opened
  <2> QED
    BY <1>1, <2>1, <2>2
<1> QED
  BY <1>3, <1>4 DEF Opened, t

LEMMA OpenedAppend ==
  ASSUME NEW c, NEW q \in Seq(Requests), NEW x \in Requests,
         x.kind = "open" \/ (x.kind # "close" /\ Opened(c, q))
  PROVE  Opened(c, Append(q, x))
<1> DEFINE t == Append(q, x)
<1>1. /\ Len(q) \in Nat /\ Len(t) = Len(q) + 1 /\ t[Len(q) + 1] = x
      /\ \A i \in 1 .. Len(q) : t[i] = q[i]
  BY AppendFacts
<1>2. /\ \A i \in 1 .. Len(t) : i \in 1 .. Len(q) \/ i = Len(q) + 1
      /\ \A i \in 1 .. Len(q) : i \in 1 .. Len(t) /\ i < Len(q) + 1
      /\ Len(q) + 1 \in 1 .. Len(t)
  BY <1>1
<1> HIDE DEF t
<1>3. CASE x.kind = "open"
  <2>1. \A k \in 1 .. Len(t) : Len(q) + 1 < k => t[k].kind # "close"
    BY <1>1, <1>2
  <2> QED
    BY <1>1, <1>2, <1>3, <2>1 DEF Opened, t
<1>4. CASE x.kind # "close" /\ Opened(c, q)
  <2>1. CASE HasCopy(c) /\ \A i \in 1 .. Len(q) : q[i].kind # "close"
    BY <1>1, <1>2, <1>4, <2>1 DEF Opened, t
  <2>2. ASSUME NEW i \in 1 .. Len(q), q[i].kind = "open",
               \A k \in 1 .. Len(q) : i < k => q[k].kind # "close"
        PROVE  Opened(c, t)
    <3>1. i \in 1 .. Len(t) /\ t[i].kind = "open"
      BY <1>1, <1>2, <2>2
    <3>2. \A k \in 1 .. Len(t) : i < k => t[k].kind # "close"
      BY <1>1, <1>2, <1>4, <2>2
    <3> QED
      BY <3>1, <3>2 DEF Opened
  <2> QED
    BY <1>4, <2>1, <2>2 DEF Opened, t
<1> QED
  BY <1>3, <1>4

-----------------------------------------------------------------------------
(* The session and its server. *)

Fields ==
  {"state", "restarts", "sync", "pulls", "copy", "pending", "due", "pulling", "peer"}
Pending ==
  [id : Nat \ {0}, req : Nat, purpose : Purposes \cup {"pull"}, rev : Revisions]

\* Only a serving session has a copy, only one with a copy waits for answers, and
\* the server holds the text of the copy.
IsClient(c) ==
  /\ DOMAIN c = Fields
  /\ c.state \in {"starting", "serving", "failed", "ended"}
  /\ c.restarts \in 0 .. RestartsMax
  /\ c.copy \in [rev : 0 .. RevisionMax, version : Nat]
  /\ c.peer \in [text : Int, version : Nat]
  /\ c.pending \in SUBSET Pending /\ IsFiniteSet(c.pending)
  /\ \A p \in c.pending : p.rev <= c.copy.rev /\ (p.req # 0 => p.purpose \in Purposes)
  /\ c.state # "serving" => ~HasCopy(c)
  /\ ~HasCopy(c) => c.pending = {} /\ c.due = "no"
  /\ HasCopy(c) => c.copy.rev \in Revisions /\ c.peer.text = c.copy.rev

\* A reply in the wire describes the copy, when its request does.
Replies(c, w) ==
  \A f \in Items(w), p \in c.pending :
    f.kind = "reply" /\ f.id = p.id /\ p.rev = c.copy.rev
      => f.text \in {Empty, c.copy.rev}

\* What two states of a session agree on that differ in pulls only.
SameCopy(c, d) ==
  /\ d.state = c.state /\ d.copy = c.copy /\ d.sync = c.sync
  /\ c.pending \subseteq d.pending
  /\ \A p \in d.pending : p \in c.pending \/ p.req = 0

\* A set of numbers has a least one: among the finite sets of what is not above
\* an element, one contains no other.
LEMMA LeastIsMember ==
  ASSUME NEW S, S \subseteq Nat, IsFiniteSet(S), S # {}
  PROVE  Min(S) \in S
<1> DEFINE upTo(x) == {y \in S : y <= x}
           family == {upTo(x) : x \in S}
<1>1. IsWellFoundedOn(StrictSubsetOrdering(S), FiniteSubsetsOf(S))
  BY FS_StrictSubsetOrderingWellFounded
<1>2. family \subseteq FiniteSubsetsOf(S) /\ family # {}
  <2>1. \A x \in S : upTo(x) \subseteq S /\ IsFiniteSet(upTo(x))
    BY FS_Subset
  <2> QED
    BY <2>1 DEF FiniteSubsetsOf
<1>3. PICK A \in family : \A B \in family : ~(<<B, A>> \in StrictSubsetOrdering(S))
  BY <1>1, <1>2, WFMin
<1>4. PICK x \in S : A = upTo(x)
  BY <1>3
<1>5. ASSUME NEW y \in S, y < x PROVE FALSE
  <2>1. upTo(y) \subseteq A /\ upTo(y) # A /\ upTo(y) \in family
    <3>1. upTo(y) \in family
      OBVIOUS
    <3>2. x \in A /\ x \notin upTo(y) /\ \A z \in S : z <= y => z <= x
      BY <1>4, <1>5
    <3> QED
      BY <1>4, <3>1, <3>2
  <2>2. <<upTo(y), A>> \in StrictSubsetOrdering(S)
    BY <2>1, <1>4 DEF StrictSubsetOrdering
  <2> QED
    BY <1>3, <2>1, <2>2
<1>6. \A y \in S : x <= y
  BY <1>5
<1> QED
  BY <1>6 DEF Min

\* The protocol writer finds an identity that nothing uses: a finite set leaves a
\* number between 1 and its size plus one.
LEMMA FreeIdFacts ==
  ASSUME NEW c, IsFiniteSet(c.pending), wire[1] \in Seq(Frames)
  PROVE  /\ FreeId(c, 1) \in Nat \ {0}
         /\ \A p \in c.pending : p.id # FreeId(c, 1)
         /\ \A f \in Items(wire[1]) : f.kind = "reply" => f.id # FreeId(c, 1)
<1> DEFINE w == wire[1]
           replies == {j \in DOMAIN w : w[j].kind = "reply"}
           held == {p.id : p \in c.pending}
           used == held \cup InFlight(1)
           free == {n \in 1 .. Cardinality(used) + 1 : n \notin used}
<1>1. IsFiniteSet(held)
  <2> DEFINE f == [p \in c.pending |-> p.id]
  <2>1. f \in Surjection(c.pending, held)
    BY DEF Surjection
  <2> QED
    BY <2>1, FS_Surjection
<1>2. IsFiniteSet(InFlight(1))
  <2> DEFINE f == [i \in replies |-> w[i].id]
  <2>1. IsFiniteSet(replies)
    <3>1. DOMAIN w = 1 .. Len(w) /\ Len(w) \in Int
      OBVIOUS
    <3> QED
      <4>1. IsFiniteSet(1 .. Len(w))
        BY <3>1, FS_Interval
      <4>2. replies \in SUBSET (1 .. Len(w))
        BY <3>1
      <4> QED
        BY <4>1, <4>2, FS_Subset
  <2>2. InFlight(1) = {w[i].id : i \in replies}
    BY DEF InFlight
  <2>3. f \in Surjection(replies, InFlight(1))
    BY <2>2 DEF Surjection
  <2> QED
    BY <2>1, <2>3, FS_Surjection
<1>3. IsFiniteSet(used) /\ Cardinality(used) \in Nat
  BY <1>1, <1>2, FS_Union, FS_CardinalityType
<1>4. free # {} /\ free \subseteq Nat /\ IsFiniteSet(free)
  <2> DEFINE n == Cardinality(used)
  <2>0. n \in Nat
    BY <1>3
  <2> HIDE DEF n
  <2>1. IsFiniteSet(1 .. n + 1) /\ Cardinality(1 .. n + 1) = n + 1
    <3>1. 1 \in Int /\ n + 1 \in Int /\ ~(1 > n + 1) /\ (n + 1) - 1 + 1 = n + 1
      BY <2>0
    <3> QED
      BY <3>1, FS_Interval
  <2>2. ~(1 .. n + 1 \subseteq used)
    <3>1. SUFFICES ASSUME 1 .. n + 1 \in SUBSET used
                   PROVE  FALSE
      OBVIOUS
    <3>2. Cardinality(1 .. n + 1) <= n
      BY <1>3, <3>1, FS_Subset DEF n
    <3> QED
      BY <2>0, <2>1, <3>2
  <2>3. free = {k \in 1 .. n + 1 : k \notin used}
    BY DEF n
  <2>4. free \in SUBSET (1 .. n + 1)
    BY <2>3
  <2>5. IsFiniteSet(free)
    BY <2>1, <2>4, FS_Subset
  <2>6. free # {}
    BY <2>2, <2>3
  <2> HIDE DEF free
  <2> QED
    BY <2>0, <2>4, <2>5, <2>6
<1>5. FreeId(c, 1) = Min(free)
  BY DEF FreeId
<1>6. FreeId(c, 1) \in free
  BY <1>4, <1>5, LeastIsMember
<1>7. \A f \in Items(w) : f.kind = "reply" => f.id \in InFlight(1)
  <2>1. DOMAIN w = 1 .. Len(w)
    OBVIOUS
  <2> QED
    BY <2>1 DEF InFlight, Items
<1> QED
  BY <1>3, <1>6, <1>7

\* A request of the protocol: the queue of the session holds nothing else of it.
LEMMA RequestedFacts ==
  ASSUME NEW c, IsClient(c), HasCopy(c), wire[1] \in Seq(Frames), Replies(c, wire[1]),
         NEW req \in Nat, NEW purpose \in Purposes \cup {"pull"},
         req # 0 => purpose \in Purposes
  PROVE  LET d == Requested(c, 1, req, purpose)
             p == [id |-> FreeId(c, 1), req |-> req, purpose |-> purpose,
                   rev |-> c.copy.rev]
         IN /\ IsClient(d) /\ Replies(d, wire[1])
            /\ d.state = c.state /\ d.copy = c.copy /\ d.sync = c.sync
            /\ d.pending = c.pending \cup {p}
<1> DEFINE d == Requested(c, 1, req, purpose)
           p == [id |-> FreeId(c, 1), req |-> req, purpose |-> purpose, rev |-> c.copy.rev]
<1>1. /\ IsFiniteSet(c.pending) /\ c.copy.rev \in Revisions
      /\ DOMAIN c = Fields
  BY DEF IsClient
<1>2. /\ FreeId(c, 1) \in Nat \ {0}
      /\ \A f \in Items(wire[1]) : f.kind = "reply" => f.id # FreeId(c, 1)
  BY <1>1, FreeIdFacts
<1>3. p \in Pending /\ p.id = FreeId(c, 1) /\ p.req = req /\ p.purpose = purpose
      /\ p.rev = c.copy.rev
  BY <1>1, <1>2 DEF Pending
<1>4. d = [c EXCEPT !.pending = c.pending \cup {p}]
  BY DEF Requested
<1> HIDE DEF p, d
<1>5. /\ DOMAIN d = Fields /\ d.state = c.state /\ d.restarts = c.restarts
      /\ d.copy = c.copy /\ d.sync = c.sync /\ d.peer = c.peer /\ d.due = c.due
      /\ d.pending = c.pending \cup {p}
  BY <1>1, <1>4 DEF Fields
<1>6. IsFiniteSet(d.pending)
  BY <1>1, <1>5, FS_AddElement
<1>7. d.pending \in SUBSET Pending
      /\ \A x \in d.pending : x.rev <= d.copy.rev /\ (x.req # 0 => x.purpose \in Purposes)
  BY <1>1, <1>3, <1>5 DEF IsClient, Revisions
<1>8. IsClient(d)
  BY <1>5, <1>6, <1>7 DEF IsClient, HasCopy
<1>9. Replies(d, wire[1])
  BY <1>2, <1>3, <1>5 DEF Replies
<1> QED
  BY <1>5, <1>8, <1>9 DEF p, d

LEMMA FireFacts ==
  ASSUME NEW c, IsClient(c), wire[1] \in Seq(Frames), Replies(c, wire[1])
  PROVE  /\ IsClient(FirePulls(c, 1)) /\ Replies(FirePulls(c, 1), wire[1])
         /\ SameCopy(c, FirePulls(c, 1))
<1>1. CASE c.due = "now" /\ ~c.pulling
  <2> DEFINE b == Requested(c, 1, 0, "pull")
             d == [b EXCEPT !.due = "no", !.pulling = TRUE]
  <2>1. HasCopy(c)
    BY <1>1 DEF IsClient
  <2>2. /\ IsClient(b) /\ Replies(b, wire[1])
        /\ b.state = c.state /\ b.copy = c.copy /\ b.sync = c.sync
        /\ b.pending = c.pending \cup {[id |-> FreeId(c, 1), req |-> 0, purpose |-> "pull",
                                        rev |-> c.copy.rev]}
    BY <2>1, RequestedFacts
  <2>3. FirePulls(c, 1) = d
    BY <1>1 DEF FirePulls
  <2> HIDE DEF b
  <2>4. /\ DOMAIN d = Fields /\ d.state = b.state /\ d.restarts = b.restarts
        /\ d.copy = b.copy /\ d.sync = b.sync /\ d.peer = b.peer /\ d.due = "no"
        /\ d.pending = b.pending
    BY <2>2 DEF Fields, IsClient
  <2> HIDE DEF d
  <2>5. IsClient(d)
    BY <2>2, <2>4 DEF IsClient, HasCopy
  <2>6. Replies(d, wire[1])
    BY <2>2, <2>4 DEF Replies
  <2>7. SameCopy(c, d)
    BY <2>2, <2>4 DEF SameCopy
  <2> QED
    BY <2>3, <2>5, <2>6, <2>7
<1>2. CASE ~(c.due = "now" /\ ~c.pulling)
  <2>1. FirePulls(c, 1) = c
    BY <1>2 DEF FirePulls
  <2> QED
    BY <2>1 DEF SameCopy
<1> QED
  BY <1>1, <1>2

-----------------------------------------------------------------------------
(* The editor, and the invariant. *)

IsQuestion(q) ==
  \/ q = NoQuestion
  \/ /\ DOMAIN q = {"state", "purpose", "rev", "slots"}
     /\ q.state \in {"queued", "accepted"}
     /\ q.purpose \in Purposes /\ q.rev \in Revisions

QueryOf(q) == Query(q.purpose, q.rev, 0)

\* The outbox holds the query of the question until its dispatch, the one change
\* of this iteration, which continues the text before it, or a close behind both.
OutboxInOrder(d, l, n) ==
  \/ l.question.state # "queued" /\ l.outbox = <<>>
  \/ l.question.state = "queued" /\ l.outbox = <<QueryOf(l.question)>>
  \/ /\ l.question.state # "queued" /\ ~l.resync /\ d.loaded /\ n = DISPATCH_PASSES_MAX
     /\ \E from \in Revisions : from < d.rev /\ l.outbox = <<Change(from, d.rev)>>
  \/ l.question.state # "queued" /\ l.outbox = <<Close>> /\ ~d.loaded /\ n > 0
  \/ /\ l.question.state = "queued" /\ l.outbox = <<QueryOf(l.question), Close>>
     /\ ~d.loaded /\ n = DISPATCH_PASSES_MAX

IsEditor(d, l, n) ==
  /\ d \in [rev : Revisions, loaded : BOOLEAN]
  /\ DOMAIN l = {"outbox", "resync", "question"}
  /\ l.resync \in BOOLEAN /\ IsQuestion(l.question)
  /\ n \in 0 .. DISPATCH_PASSES_MAX
  /\ OutboxInOrder(d, l, n)
  /\ n = 0 => l.resync \/ l.outbox = <<>>
  /\ ~d.loaded => ~l.resync

\* The text that the changes which left the outbox lead to.
Target(d, l) ==
  IF l.outbox # <<>> /\ l.outbox[1].kind = "change" THEN l.outbox[1].from ELSE d.rev

IsConnection(c, q, w, e) ==
  /\ IsClient(c)
  /\ q \in Seq(Requests) /\ Len(q) <= QueueMax
  /\ w \in Seq(Frames) /\ Len(w) <= WireMax
  /\ e \in Seq(Results) /\ Len(e) <= EventsMax
  /\ Linked(c, q) /\ Replies(c, w)
  /\ Gone(1) \in Items(e) => c.state = "ended"

\* Without a resync mark, what was sent brings the copy up to date.
Owed(d, l, c, q, e) ==
  d.loaded /\ ~l.resync /\ c.state # "ended" =>
    /\ Arrives(c, q, Target(d, l))
    /\ c.state \in {"starting", "serving"} => Opened(c, q) \/ Restarted(1) \in Items(e)

\* A request that travels under the newest identity is the open question.
Exact(x, question, k) ==
  /\ x.req <= k
  /\ question.state = "accepted" /\ x.req = k
       => x.purpose = question.purpose /\ x.rev = question.rev
Identified(question, k, c, q, e) ==
  /\ \A r \in Items(q) : r.kind = "query" => Exact(r, question, k)
  /\ \A p \in c.pending : p.req # 0 => Exact(p, question, k)
  /\ \A x \in Items(e) : x.kind = "answer" => Exact(x, question, k)

\* What brings the answer of the request k, and what an open question waits for.
OnWay(k, c, q, e) ==
  \/ \E r \in Items(q) : r.kind = "query" /\ r.req = k
  \/ \E p \in c.pending : p.req = k
  \/ c.state = "failed"
  \/ Restarted(1) \in Items(e) \/ Gone(1) \in Items(e)
  \/ \E x \in Items(e) : x.kind \in {"answer", "failed"} /\ x.req \in {0, k}
Awaited(question, k, dropped, c, q, e) ==
  question.state = "accepted" =>
    /\ k # 0
    /\ question.slots = <<[server |-> 1, req |-> k, answer |-> Unanswered]>>
    /\ ~dropped => OnWay(k, c, q, e)

IInv ==
  /\ DOMAIN session = Servers /\ DOMAIN queue = Servers /\ DOMAIN wire = Servers
  /\ IsEditor(doc, lang, passes)
  /\ running \subseteq Servers /\ (1 \notin running => session[1].state = "ended")
  /\ issued[1] \in Nat
  /\ IsConnection(session[1], queue[1], wire[1], events)
  /\ Owed(doc, lang, session[1], queue[1], events)
  /\ Identified(lang.question, issued[1], session[1], queue[1], events)
  /\ Awaited(lang.question, issued[1], orphaned, session[1], queue[1], events)
  /\ DOMAIN shown = Servers /\ (shown[1].pulled => shown[1].text = shown[1].rev)
  /\ applied.texts \subseteq {applied.onto}

LEMMA OneServer ==
  ASSUME ServerCount = 1
  PROVE  Servers = {1}
BY DEF Servers

LEMMA KindFacts ==
  /\ \A r \in Requests :
       /\ r.kind \in {"open", "change", "close", "query"}
       /\ r.kind \in {"open", "change"} => r.rev \in Revisions
       /\ r.kind = "change" => r.from \in Revisions /\ r.from < r.rev
       /\ r.kind = "query" => r.purpose \in Purposes /\ r.rev \in Revisions /\ r.req \in Nat
       /\ IsSync(r) <=> r.kind \in {"open", "change"}
  /\ \A x \in Results :
       /\ x.kind \in {"diagnostics", "answer", "failed", "restarted", "gone"}
       /\ x.server = 1
       /\ x.kind = "diagnostics" => x.pulled \in BOOLEAN /\ (x.pulled => x.text = x.rev)
       /\ x.kind = "answer" => /\ x.req \in Nat \ {0} /\ x.purpose \in Purposes
                               /\ x.rev \in Revisions /\ x.text = x.rev
       /\ x.kind = "failed" => x.req \in Nat
       /\ x.kind = "restarted" <=> x = Restarted(1)
       /\ x.kind = "gone" <=> x = Gone(1)
  /\ \A f \in Frames :
       /\ f.kind \in {"diagnostics", "reply"}
       /\ f.text \in Int
<1>1. ASSUME NEW r \in Requests
      PROVE  /\ r.kind \in {"open", "change", "close", "query"}
             /\ r.kind \in {"open", "change"} => r.rev \in Revisions
             /\ r.kind = "change" => r.from \in Revisions /\ r.from < r.rev
             /\ r.kind = "query" => r.purpose \in Purposes /\ r.rev \in Revisions /\ r.req \in Nat
             /\ IsSync(r) <=> r.kind \in {"open", "change"}
  <2>1. r \in Opens \/ (r \in Changes /\ r.from < r.rev) \/ r = Close \/ r \in Queries
    BY <1>1 DEF Requests
  <2> QED
    BY <2>1 DEF Opens, Changes, Close, Queries, IsSync
<1>2. ASSUME NEW x \in Results
      PROVE  /\ x.kind \in {"diagnostics", "answer", "failed", "restarted", "gone"}
             /\ x.server = 1
             /\ x.kind = "diagnostics" => x.pulled \in BOOLEAN /\ (x.pulled => x.text = x.rev)
             /\ x.kind = "answer" => /\ x.req \in Nat \ {0} /\ x.purpose \in Purposes
                                     /\ x.rev \in Revisions /\ x.text = x.rev
             /\ x.kind = "failed" => x.req \in Nat
             /\ x.kind = "restarted" <=> x = Restarted(1)
             /\ x.kind = "gone" <=> x = Gone(1)
  <2>1. \/ x \in Sets /\ (x.pulled => x.text = x.rev)
        \/ x \in Answers /\ x.text = x.rev
        \/ x \in Failures \/ x = Restarted(1) \/ x = Gone(1)
    BY <1>2 DEF Results
  <2>2. CASE x \in Sets /\ (x.pulled => x.text = x.rev)
    BY <2>2 DEF Sets, Restarted, Gone
  <2>3. CASE x \in Answers /\ x.text = x.rev
    BY <2>3 DEF Answers, Restarted, Gone
  <2>4. CASE x \in Failures \/ x = Restarted(1) \/ x = Gone(1)
    BY <2>4 DEF Failures, Restarted, Gone
  <2> QED
    BY <2>1, <2>2, <2>3, <2>4
<1>3. \A f \in Frames : f.kind \in {"diagnostics", "reply"} /\ f.text \in Int
  BY DEF Frames
<1> QED
  BY <1>1, <1>2, <1>3

LEMMA InitKeeps ==
  ASSUME LanguageAssumption, ServerCount = 1, Init
  PROVE  IInv
<1> USE DEF Init
<1>1. Servers = {1}
  BY OneServer
<1>2. 1 \in Revisions /\ RevisionMax \in Nat \ {0} /\ {QueueMax, EventsMax, WireMax} \subseteq Nat
      /\ RestartsMax \in Nat
  BY DEF LanguageAssumption, Revisions
<1>3. /\ session[1] = Starting(0) /\ queue[1] = <<>> /\ wire[1] = <<>> /\ issued[1] = 0
      /\ shown[1] = NoSet
  BY <1>1
<1>4. IsEditor(doc, lang, passes)
  BY <1>2 DEF IsEditor, IsQuestion, NoQuestion, OutboxInOrder, DISPATCH_PASSES_MAX
<1>5. IsClient(session[1]) /\ ~HasCopy(session[1])
  <2>1. IsFiniteSet({})
    BY FS_EmptySet
  <2>2. NoCopy \in [rev : 0 .. RevisionMax, version : Nat]
    BY <1>2 DEF NoCopy
  <2>3. NoPeer \in [text : Int, version : Nat]
    BY DEF NoPeer
  <2> DEFINE c == Starting(0)
  <2>4. /\ DOMAIN c = Fields /\ c.state = "starting" /\ c.restarts = 0 /\ c.copy = NoCopy
        /\ c.peer = NoPeer /\ c.pending = {} /\ c.due = "no"
    BY DEF Starting, Fields
  <2>5. 0 \in 0 .. RestartsMax
    BY <1>2
  <2> HIDE DEF c
  <2>6. IsClient(c) /\ ~HasCopy(c)
    BY <2>1, <2>2, <2>3, <2>4, <2>5 DEF IsClient, HasCopy
  <2> QED
    BY <1>3, <2>6 DEF c
<1>6. Items(events) = {} /\ Items(queue[1]) = {} /\ Items(wire[1]) = {} /\ Len(<<>>) = 0
  BY <1>3 DEF Items
<1>7. Linked(session[1], queue[1]) /\ Replies(session[1], wire[1])
  BY <1>3, <1>6 DEF Linked, Replies
<1>8. IsConnection(session[1], queue[1], wire[1], events)
  <2>1. \A S : <<>> \in Seq(S)
    OBVIOUS
  <2>2. Len(queue[1]) <= QueueMax /\ Len(wire[1]) <= WireMax /\ Len(events) <= EventsMax
    BY <1>2, <1>3, <1>6
  <2> QED
    BY <1>3, <1>5, <1>6, <1>7, <2>1, <2>2 DEF IsConnection
<1>9. /\ Owed(doc, lang, session[1], queue[1], events)
      /\ Identified(lang.question, issued[1], session[1], queue[1], events)
      /\ Awaited(lang.question, issued[1], orphaned, session[1], queue[1], events)
  BY <1>3, <1>5, <1>6 DEF Owed, Identified, Awaited, NoQuestion, IsClient
<1> QED
  BY <1>1, <1>3, <1>4, <1>8, <1>9 DEF IInv, NoSet, NothingApplied

-----------------------------------------------------------------------------
(* The steps of a serving session. *)

\* What the queues say of a session depends on its copy and its change mode only.
LEMMA SameCopyFacts ==
  ASSUME NEW c, NEW d, NEW q, SameCopy(c, d)
  PROVE  /\ Linked(c, q) => Linked(d, q)
         /\ \A t : Arrives(c, q, t) => Arrives(d, q, t)
         /\ Opened(c, q) => Opened(d, q)
<1>1. HasCopy(d) = HasCopy(c) /\ Synced(d) = Synced(c) /\ d.copy = c.copy
  BY DEF SameCopy, HasCopy, Synced
<1>2. Linked(c, q) => Linked(d, q)
  BY <1>1 DEF Linked
<1>3. \A t : Arrives(c, q, t) => Arrives(d, q, t)
  BY <1>1 DEF Arrives
<1>4. Opened(c, q) => Opened(d, q)
  BY <1>1 DEF Opened
<1> QED
  BY <1>2, <1>3, <1>4

\* The reports of a serving session: none, or one result.
Reports == {<<>>} \cup {<<x>> : x \in {y \in Results : y.kind \notin {"restarted", "gone"}}}

LEMMA SendFacts ==
  ASSUME NEW reports \in Reports, events \in Seq(Results), Send(reports)
  PROVE  /\ events' \in Seq(Results) /\ Len(events') <= EventsMax
         /\ Items(events') = Items(events) \cup Items(reports)
         /\ Restarted(1) \in Items(events') <=> Restarted(1) \in Items(events)
         /\ Gone(1) \in Items(events') <=> Gone(1) \in Items(events)
<1>1. events' = events \o reports /\ Len(events') <= EventsMax
  BY DEF Send
<1>2. Restarted(1).kind = "restarted" /\ Gone(1).kind = "gone"
  BY DEF Restarted, Gone
<1>3. CASE reports = <<>>
  BY <1>1, <1>3, JoinFacts
<1>4. ASSUME NEW x \in Results, x.kind \notin {"restarted", "gone"}, reports = <<x>>
      PROVE  /\ events' \in Seq(Results)
             /\ Items(events') = Items(events) \cup Items(reports)
             /\ Restarted(1) \in Items(events') <=> Restarted(1) \in Items(events)
             /\ Gone(1) \in Items(events') <=> Gone(1) \in Items(events)
  <2>1. events' = Append(events, x) /\ Items(reports) = {x}
    BY <1>1, <1>4, JoinFacts
  <2>2. events' \in Seq(Results) /\ Items(events') = Items(events) \cup {x}
    BY <2>1, AppendFacts
  <2> QED
    BY <1>2, <1>4, <2>1, <2>2
<1> QED
  BY <1>1, <1>3, <1>4 DEF Reports

LEMMA SessionStepKeeps ==
  ASSUME IInv, NEW b, NEW reports \in Reports, SessionStep(1, b, reports),
         ServerCount = 1, session[1].state = "serving", b.state = "serving",
         IsClient(b), Replies(b, wire[1]),
         DOMAIN queue' = Servers, DOMAIN wire' = Servers,
         wire' = wire \/ (wire[1] # <<>> /\ wire'[1] = Tail(wire[1])),
         queue'[1] \in Seq(Requests), Len(queue'[1]) <= QueueMax,
         Linked(b, queue'[1]),
         \A t : Arrives(session[1], queue[1], t) => Arrives(b, queue'[1], t),
         Opened(session[1], queue[1]) => Opened(b, queue'[1]),
         Identified(lang.question, issued[1], b, queue'[1], events'),
         Awaited(lang.question, issued[1], orphaned', b, queue'[1], events')
  PROVE  IInv'
<1> DEFINE d == FirePulls(b, 1)
<1>1. /\ session' = [session EXCEPT ![1] = d] /\ Send(reports)
      /\ doc' = doc /\ lang' = lang /\ passes' = passes /\ running' = running
      /\ shown' = shown /\ issued' = issued /\ applied' = applied
  BY DEF SessionStep, editor
<1>2. /\ wire[1] \in Seq(Frames) /\ Len(wire[1]) <= WireMax /\ events \in Seq(Results)
      /\ 1 \in DOMAIN session /\ DOMAIN session = Servers
  BY OneServer DEF IInv, IsConnection
<1>3. IsClient(d) /\ Replies(d, wire[1]) /\ SameCopy(b, d)
  BY <1>2, FireFacts
<1>4. session'[1] = d /\ DOMAIN session' = Servers
  BY <1>1, <1>2
<1> HIDE DEF d
<1>5. wire'[1] \in Seq(Frames) /\ Len(wire'[1]) <= WireMax /\ Items(wire'[1]) \subseteq Items(wire[1])
  <2>1. CASE wire' = wire
    BY <1>2, <2>1
  <2>2. CASE wire[1] # <<>> /\ wire'[1] = Tail(wire[1])
    <3>1. /\ Tail(wire[1]) \in Seq(Frames) /\ Len(wire[1]) \in Nat
          /\ Len(Tail(wire[1])) = Len(wire[1]) - 1
          /\ Items(wire[1]) = {Head(wire[1])} \cup Items(Tail(wire[1]))
      BY <1>2, <2>2, TailFacts
    <3>2. WireMax \in Int
      BY LanguageAssumption DEF LanguageAssumption
    <3> QED
      BY <1>2, <2>2, <3>1, <3>2
  <2> QED
    BY <2>1, <2>2
<1>6. Replies(d, wire'[1])
  BY <1>3, <1>5 DEF Replies
<1>7. /\ events' \in Seq(Results) /\ Len(events') <= EventsMax
      /\ Restarted(1) \in Items(events') <=> Restarted(1) \in Items(events)
      /\ Gone(1) \in Items(events') <=> Gone(1) \in Items(events)
  BY <1>1, <1>2, SendFacts
<1>8. /\ Linked(d, queue'[1])
      /\ \A t : Arrives(session[1], queue[1], t) => Arrives(d, queue'[1], t)
      /\ Opened(session[1], queue[1]) => Opened(d, queue'[1])
  BY <1>3, SameCopyFacts
<1>9. d.state = "serving" /\ b.pending \subseteq d.pending
      /\ \A p \in d.pending : p.req # 0 => p \in b.pending
  BY <1>3 DEF SameCopy
<1>10. Gone(1) \notin Items(events) /\ 1 \in running /\ running \subseteq Servers
  BY DEF IInv, IsConnection
<1>11. IsConnection(d, queue'[1], wire'[1], events')
  BY <1>3, <1>5, <1>6, <1>7, <1>8, <1>10 DEF IsConnection
<1>12. Owed(doc, lang, d, queue'[1], events')
  BY <1>7, <1>8, <1>9 DEF Owed, IInv
<1>13. Identified(lang.question, issued[1], d, queue'[1], events')
  BY <1>9 DEF Identified
<1>14. Awaited(lang.question, issued[1], orphaned', d, queue'[1], events')
  BY <1>9 DEF Awaited, OnWay
<1>15. /\ IsEditor(doc, lang, passes) /\ issued[1] \in Nat
       /\ DOMAIN shown = Servers /\ (shown[1].pulled => shown[1].text = shown[1].rev)
       /\ applied.texts \subseteq {applied.onto}
  BY DEF IInv
<1> QED
  BY <1>1, <1>4, <1>10, <1>11, <1>12, <1>13, <1>14, <1>15 DEF IInv

\* A session that handles the first request of its queue.
LEMMA HandleFacts ==
  ASSUME IInv, ServerCount = 1, NEW kind, Handle(1, kind)
  PROVE  /\ session[1].state = "serving" /\ IsClient(session[1]) /\ wire[1] \in Seq(Frames)
         /\ queue[1] \in Seq(Requests) /\ queue[1] # <<>>
         /\ Head(queue[1]) \in Requests /\ Head(queue[1]).kind = kind
         /\ Items(queue[1]) = {Head(queue[1])} \cup Items(Tail(queue[1]))
         /\ queue'[1] = Tail(queue[1])
         /\ queue'[1] \in Seq(Requests) /\ Len(queue'[1]) <= QueueMax
         /\ DOMAIN queue' = Servers /\ DOMAIN wire' = Servers /\ wire' = wire
<1>1. /\ session[1].state = "serving" /\ queue[1] # <<>> /\ Head(queue[1]).kind = kind
      /\ queue' = [queue EXCEPT ![1] = Tail(queue[1])] /\ wire' = wire
  BY DEF Handle, Serving
<1>2. /\ queue[1] \in Seq(Requests) /\ Len(queue[1]) <= QueueMax /\ IsClient(session[1])
      /\ wire[1] \in Seq(Frames) /\ DOMAIN queue = Servers /\ DOMAIN wire = Servers
  BY DEF IInv, IsConnection
<1>3. queue'[1] = Tail(queue[1]) /\ DOMAIN queue' = Servers
  BY <1>1, <1>2, OneServer
<1>4. /\ Tail(queue[1]) \in Seq(Requests) /\ Len(queue[1]) \in Nat
      /\ Len(Tail(queue[1])) = Len(queue[1]) - 1
      /\ Head(queue[1]) \in Requests
      /\ Items(queue[1]) = {Head(queue[1])} \cup Items(Tail(queue[1]))
  BY <1>1, <1>2, TailFacts
<1>5. QueueMax \in Int
  BY LanguageAssumption DEF LanguageAssumption
<1>6. Len(queue'[1]) <= QueueMax
  BY <1>2, <1>3, <1>4, <1>5
<1> QED
  BY <1>1, <1>2, <1>3, <1>4, <1>6

\* A request is handled: the copy follows it, a query becomes pending or fails, and
\* an open question that loses its request is marked.
LEMMA HandledKeeps ==
  ASSUME IInv, ServerCount = 1, NEW kind, Handle(1, kind),
         NEW b, NEW reports \in {<<>>} \cup {<<Failed(1, n)>> : n \in Nat},
         SessionStep(1, b, reports),
         IsClient(b), b.state = "serving", Replies(b, wire[1]),
         Handled(session[1], b, Head(queue[1])), Keeps(session[1], b, Head(queue[1])),
         \A p \in b.pending : p.req # 0 =>
           \/ p \in session[1].pending
           \/ /\ Head(queue[1]).kind = "query"
              /\ p.req = Head(queue[1]).req /\ p.purpose = Head(queue[1]).purpose
              /\ p.rev = Head(queue[1]).rev,
         Head(queue[1]).kind = "query" =>
           \/ \E p \in b.pending : p.req = Head(queue[1]).req
           \/ reports = <<Failed(1, Head(queue[1]).req)>>,
         lang.question.state = "accepted" /\ ~orphaned' =>
           ~orphaned /\ \A p \in session[1].pending : p.req = issued[1] => p \in b.pending
  PROVE  IInv'
<1> DEFINE c == session[1]
           q == queue[1]
           r == Head(queue[1])
<1>1. /\ c.state = "serving" /\ IsClient(c) /\ wire[1] \in Seq(Frames)
      /\ q \in Seq(Requests) /\ q # <<>> /\ r \in Requests /\ r.kind = kind
      /\ Items(q) = {r} \cup Items(Tail(q))
      /\ queue'[1] = Tail(q) /\ queue'[1] \in Seq(Requests) /\ Len(queue'[1]) <= QueueMax
      /\ DOMAIN queue' = Servers /\ DOMAIN wire' = Servers /\ wire' = wire
  BY HandleFacts
<1>2. /\ Linked(c, q) /\ events \in Seq(Results)
      /\ Identified(lang.question, issued[1], c, q, events)
      /\ Awaited(lang.question, issued[1], orphaned, c, q, events)
      /\ issued[1] \in Nat
  BY DEF IInv, IsConnection
<1>3. /\ Linked(b, Tail(q))
      /\ \A t : Arrives(c, q, t) => Arrives(b, Tail(q), t)
      /\ Opened(c, q) => Opened(b, Tail(q))
  BY <1>1, <1>2, LinkedTail, ArrivesTail, OpenedTail
<1>4. \A n \in Nat : Failed(1, n) \in Failures /\ Failed(1, n).kind = "failed" /\ Failed(1, n).req = n
  BY DEF Failed, Failures
<1>5. \A n \in Nat : Failed(1, n) \in Results
  BY <1>4 DEF Results
<1>6. reports \in Reports
  BY <1>4, <1>5 DEF Reports
<1>7. /\ Items(events') = Items(events) \cup Items(reports)
      /\ Restarted(1) \in Items(events') <=> Restarted(1) \in Items(events)
      /\ Gone(1) \in Items(events') <=> Gone(1) \in Items(events)
  BY <1>2, <1>6, SendFacts DEF SessionStep
<1>8. \A x \in Items(reports) : x.kind = "failed"
  <2>1. CASE reports = <<>>
    BY <2>1 DEF Items
  <2>2. ASSUME NEW n \in Nat, reports = <<Failed(1, n)>> PROVE \A x \in Items(reports) : x.kind = "failed"
    BY <1>2, <1>4, <1>5, <2>2, JoinFacts
  <2> QED
    BY <2>1, <2>2
<1>9. Identified(lang.question, issued[1], b, Tail(q), events')
  <2>1. \A x \in Items(Tail(q)) : x.kind = "query" => Exact(x, lang.question, issued[1])
    BY <1>1, <1>2 DEF Identified
  <2>2. \A p \in b.pending : p.req # 0 => Exact(p, lang.question, issued[1])
    <3>1. r.kind = "query" => Exact(r, lang.question, issued[1])
      BY <1>1, <1>2 DEF Identified
    <3>2. \A p \in c.pending : p.req # 0 => Exact(p, lang.question, issued[1])
      BY <1>2 DEF Identified
    <3> QED
      BY <3>1, <3>2 DEF Exact
  <2>3. \A x \in Items(events') : x.kind = "answer" => Exact(x, lang.question, issued[1])
    BY <1>2, <1>7, <1>8 DEF Identified
  <2> QED
    BY <2>1, <2>2, <2>3 DEF Identified
<1>10. Awaited(lang.question, issued[1], orphaned', b, Tail(q), events')
  <2>1. SUFFICES ASSUME lang.question.state = "accepted", ~orphaned', OnWay(issued[1], c, q, events)
                 PROVE  OnWay(issued[1], b, Tail(q), events')
    BY <1>2 DEF Awaited
  <2>2. CASE \E x \in Items(q) : x.kind = "query" /\ x.req = issued[1]
    <3>1. CASE r.kind = "query" /\ r.req = issued[1]
      <4>1. CASE \E p \in b.pending : p.req = r.req
        BY <3>1, <4>1 DEF OnWay
      <4>2. CASE reports = <<Failed(1, r.req)>>
        <5>1. Items(reports) = {Failed(1, r.req)} /\ Failed(1, r.req).kind = "failed"
              /\ Failed(1, r.req).req = issued[1]
          BY <1>2, <1>4, <1>5, <3>1, <4>2, JoinFacts
        <5> QED
          BY <1>7, <5>1 DEF OnWay
      <4> QED
        BY <3>1, <4>1, <4>2
    <3>2. CASE ~(r.kind = "query" /\ r.req = issued[1])
      BY <1>1, <2>2, <3>2 DEF OnWay
    <3> QED
      BY <3>1, <3>2
  <2>3. CASE \E p \in c.pending : p.req = issued[1]
    BY <2>1, <2>3 DEF OnWay
  <2>4. CASE \/ c.state = "failed" \/ Restarted(1) \in Items(events) \/ Gone(1) \in Items(events)
             \/ \E x \in Items(events) : x.kind \in {"answer", "failed"} /\ x.req \in {0, issued[1]}
    BY <1>1, <1>7, <2>4 DEF OnWay
  <2> QED
    BY <2>1, <2>2, <2>3, <2>4 DEF OnWay
<1> QED
  BY <1>1, <1>3, <1>6, <1>9, <1>10, SessionStepKeeps

LEMMA HandleOpenKeeps ==
  ASSUME IInv, ServerCount = 1, HandleOpen(1)
  PROVE  IInv'
<1> DEFINE c == session[1]
           base == IF c.copy = NoCopy THEN c ELSE Closed(c)
           rev == Head(queue[1]).rev
           b == [base EXCEPT !.copy = [rev |-> rev, version |-> 1],
                             !.due = IF c.pulls THEN "now" ELSE "no",
                             !.pulling = FALSE,
                             !.peer = [text |-> rev, version |-> 1]]
<1>1. Handle(1, "open") /\ SessionStep(1, b, <<>>) /\ Orphans(c)
  BY DEF HandleOpen
<1>2. /\ c.state = "serving" /\ IsClient(c)
      /\ Head(queue[1]) \in Requests /\ Head(queue[1]).kind = "open"
  BY <1>1, HandleFacts
<1>3. rev \in Revisions /\ IsSync(Head(queue[1]))
  BY <1>2, KindFacts
<1>4. /\ DOMAIN base = Fields /\ base.state = c.state /\ base.restarts = c.restarts
      /\ base.pending = {}
  <2>1. CASE c.copy = NoCopy
    BY <1>2, <2>1 DEF IsClient, HasCopy
  <2>2. CASE c.copy # NoCopy
    <3>1. DOMAIN c = Fields
      BY <1>2 DEF IsClient
    <3> QED
      BY <2>2, <3>1 DEF Closed, Fields
  <2> QED
    BY <2>1, <2>2
<1> HIDE DEF base, rev
<1>5. /\ DOMAIN b = Fields /\ b.state = "serving" /\ b.restarts = c.restarts
      /\ b.copy = [rev |-> rev, version |-> 1] /\ b.pending = {} /\ b.due \in {"no", "now"}
      /\ b.peer = [text |-> rev, version |-> 1]
  BY <1>2, <1>4 DEF Fields
<1> HIDE DEF b
<1>6. HasCopy(b) /\ b.copy.rev = rev /\ b.peer.text = rev
      /\ b.copy \in [rev : 0 .. RevisionMax, version : Nat] /\ b.peer \in [text : Int, version : Nat]
  BY <1>3, <1>5 DEF HasCopy, NoCopy, Revisions
<1>7. IsClient(b)
  <2>1. IsFiniteSet({})
    BY FS_EmptySet
  <2>2. b.restarts \in 0 .. RestartsMax
    BY <1>2, <1>5 DEF IsClient
  <2> QED
    BY <1>3, <1>5, <1>6, <2>1, <2>2 DEF IsClient
<1>8. /\ Replies(b, wire[1])
      /\ Handled(c, b, Head(queue[1])) /\ Keeps(c, b, Head(queue[1]))
  BY <1>2, <1>3, <1>5, <1>6 DEF Replies, Handled, Keeps, rev
<1>9. lang.question.state = "accepted" /\ ~orphaned' =>
        ~orphaned /\ \A p \in c.pending : p.req = issued[1] => p \in b.pending
  <2>1. SUFFICES ASSUME lang.question.state = "accepted", ~orphaned'
                 PROVE  ~orphaned /\ \A p \in c.pending : p.req # issued[1]
    OBVIOUS
  <2>2. ~orphaned /\ (c.copy = NoCopy \/ \A p \in Asks(c) : ~Owns(lang.question, p.req))
    BY <1>1, <2>1 DEF Orphans
  <2>3. issued[1] # 0 /\ Owns(lang.question, issued[1])
    BY <2>1 DEF IInv, Awaited, Owns
  <2>4. \A p \in c.pending : p.req # issued[1]
    BY <1>2, <2>2, <2>3 DEF Asks, IsClient, HasCopy
  <2> QED
    BY <2>2, <2>4
<1> QED
  BY <1>1, <1>2, <1>5, <1>7, <1>8, <1>9, HandledKeeps

LEMMA HandleCloseKeeps ==
  ASSUME IInv, ServerCount = 1, HandleClose(1)
  PROVE  IInv'
<1> DEFINE c == session[1]
<1>1. Handle(1, "close") /\ Orphans(c)
  BY DEF HandleClose
<1>2. /\ c.state = "serving" /\ IsClient(c) /\ wire[1] \in Seq(Frames)
      /\ Head(queue[1]) \in Requests /\ Head(queue[1]).kind = "close"
  BY <1>1, HandleFacts
<1>3. ~IsSync(Head(queue[1]))
  BY <1>2, KindFacts
<1>4. CASE c.copy = NoCopy
  <2>1. SessionStep(1, c, <<Failed(1, 0)>>)
    BY <1>4 DEF HandleClose
  <2>2. <<Failed(1, 0)>> \in {<<Failed(1, n)>> : n \in Nat}
    OBVIOUS
  <2>3. Handled(c, c, Head(queue[1])) /\ Keeps(c, c, Head(queue[1]))
    BY <1>2, <1>3 DEF Handled, Keeps
  <2>4. Replies(c, wire[1])
    BY DEF IInv, IsConnection
  <2>5. lang.question.state = "accepted" /\ ~orphaned' => ~orphaned
    BY <1>1 DEF Orphans
  <2> QED
    BY <1>1, <1>2, <2>1, <2>2, <2>3, <2>4, <2>5, HandledKeeps
<1>5. CASE c.copy # NoCopy
  <2> DEFINE b == Closed(c)
  <2>1. SessionStep(1, b, <<>>)
    BY <1>5 DEF HandleClose
  <2>2. DOMAIN c = Fields /\ c.peer \in [text : Int, version : Nat]
    BY <1>2 DEF IsClient
  <2>3. /\ DOMAIN b = Fields /\ b.state = "serving" /\ b.restarts = c.restarts
        /\ b.copy = NoCopy /\ b.pending = {} /\ b.due = "no"
        /\ b.peer \in [text : Int, version : Nat]
    BY <1>2, <2>2 DEF Closed, Fields
  <2> HIDE DEF b
  <2>4. IsClient(b) /\ ~HasCopy(b)
    <3>1. IsFiniteSet({})
      BY FS_EmptySet
    <3>2. b.restarts \in 0 .. RestartsMax
      BY <1>2, <2>3 DEF IsClient
    <3>3. NoCopy \in [rev : 0 .. RevisionMax, version : Nat]
      BY LanguageAssumption DEF LanguageAssumption, NoCopy
    <3> QED
      BY <2>3, <3>1, <3>2, <3>3 DEF IsClient, HasCopy
  <2>5. Handled(c, b, Head(queue[1])) /\ Keeps(c, b, Head(queue[1])) /\ Replies(b, wire[1])
    BY <1>2, <2>3, <2>4 DEF Handled, Keeps, Synced, Replies
  <2>6. lang.question.state = "accepted" /\ ~orphaned' =>
          ~orphaned /\ \A p \in c.pending : p.req = issued[1] => p \in b.pending
    <3>1. SUFFICES ASSUME lang.question.state = "accepted", ~orphaned'
                   PROVE  ~orphaned /\ \A p \in c.pending : p.req # issued[1]
      OBVIOUS
    <3>2. ~orphaned /\ \A p \in Asks(c) : ~Owns(lang.question, p.req)
      BY <1>1, <1>5, <3>1 DEF Orphans
    <3>3. issued[1] # 0 /\ Owns(lang.question, issued[1])
      BY <3>1 DEF IInv, Awaited, Owns
    <3>4. \A p \in c.pending : p.req # issued[1]
      BY <3>2, <3>3 DEF Asks
    <3> QED
      BY <3>2, <3>4
  <2> QED
    BY <1>1, <1>2, <2>1, <2>3, <2>4, <2>5, <2>6, HandledKeeps
<1> QED
  BY <1>4, <1>5

\* The change that a synchronized copy receives continues its text, so that the
\* mirror never refuses it.
LEMMA HandleChangeKeeps ==
  ASSUME IInv, ServerCount = 1, HandleChange(1)
  PROVE  IInv'
<1> DEFINE c == session[1]
           r == Head(queue[1])
<1>1. Handle(1, "change") /\ orphaned' = orphaned
  BY DEF HandleChange
<1>2. /\ c.state = "serving" /\ IsClient(c) /\ wire[1] \in Seq(Frames)
      /\ queue[1] \in Seq(Requests) /\ queue[1] # <<>>
      /\ r \in Requests /\ r.kind = "change"
  BY <1>1, HandleFacts
<1>3. /\ IsSync(r) /\ r.rev \in Revisions /\ r.from \in Revisions /\ r.from < r.rev
  BY <1>2, KindFacts
<1>4. Replies(c, wire[1]) /\ Linked(c, queue[1])
  BY DEF IInv, IsConnection
<1>5. CASE c.copy = NoCopy \/ ~c.sync
  <2>1. PICK reports \in {<<>>} \cup {<<Failed(1, n)>> : n \in Nat} : SessionStep(1, c, reports)
    <3>1. CASE c.copy = NoCopy
      BY <3>1 DEF HandleChange
    <3>2. CASE c.copy # NoCopy /\ ~c.sync
      BY <3>2 DEF HandleChange
    <3> QED
      BY <1>5, <3>1, <3>2
  <2>2. Handled(c, c, r) /\ Keeps(c, c, r)
    BY <1>2, <1>3, <1>5 DEF Handled, Keeps, Synced, HasCopy
  <2> QED
    BY <1>1, <1>2, <1>4, <2>1, <2>2, HandledKeeps
<1>6. CASE c.copy # NoCopy /\ c.sync
  <2> DEFINE b == Changed(c, r)
  <2>1. r = queue[1][1] /\ 1 \in 1 .. Len(queue[1])
    BY <1>2, TailFacts
  <2>2. c.copy.rev = r.from
    BY <1>2, <1>4, <1>6, <2>1 DEF Linked, Synced, HasCopy
  <2>3. /\ DOMAIN c = Fields /\ c.copy \in [rev : 0 .. RevisionMax, version : Nat]
        /\ c.peer.text = r.from
    BY <1>2, <1>6, <2>2 DEF IsClient, HasCopy
  <2>4. /\ DOMAIN b = Fields /\ b.state = c.state /\ b.restarts = c.restarts /\ b.sync = c.sync
        /\ b.copy = [rev |-> r.rev, version |-> c.copy.version + 1]
        /\ b.pending = c.pending /\ b.due \in {"no", "settling"}
        /\ b.peer = [text |-> r.rev, version |-> c.copy.version + 1]
    BY <2>3 DEF Changed, Fields
  <2>5. r.rev # Garbled
    BY <1>3 DEF Garbled, Revisions
  <2>6. SessionStep(1, b, <<>>)
    <3>1. b.peer.text # Garbled
      BY <2>4, <2>5
    <3> HIDE DEF b
    <3>2. \E mirrored \in {TRUE} :
            SessionStep(1, IF mirrored THEN b ELSE Dropped(b),
                           IF mirrored THEN <<>> ELSE <<Failed(1, 0)>>)
      BY <1>6, <3>1 DEF HandleChange, b
    <3> QED
      BY <3>2
  <2> HIDE DEF b
  <2>7. /\ HasCopy(b) /\ b.copy.rev = r.rev /\ b.peer.text = r.rev
        /\ b.copy \in [rev : 0 .. RevisionMax, version : Nat]
        /\ b.peer \in [text : Int, version : Nat]
    BY <1>3, <2>3, <2>4 DEF HasCopy, NoCopy, Revisions
  <2>8. \A p \in c.pending : p.rev \in Nat /\ p.rev <= r.from /\ p.rev # r.rev /\ p.rev <= r.rev
    BY <1>2, <1>3, <2>2 DEF IsClient, Revisions, Pending
  <2>9. IsClient(b)
    BY <1>2, <1>3, <2>4, <2>7, <2>8 DEF IsClient
  <2>10. Replies(b, wire[1])
    BY <2>4, <2>7, <2>8 DEF Replies
  <2>11. Handled(c, b, r) /\ Keeps(c, b, r)
    BY <1>2, <1>3, <2>7 DEF Handled, Keeps
  <2> QED
    BY <1>1, <1>2, <2>4, <2>6, <2>9, <2>10, <2>11, HandledKeeps
<1> QED
  BY <1>5, <1>6

LEMMA HandleQueryKeeps ==
  ASSUME IInv, ServerCount = 1, HandleQuery(1)
  PROVE  IInv'
<1> DEFINE c == session[1]
           r == Head(queue[1])
<1>1. Handle(1, "query") /\ orphaned' = orphaned
  BY DEF HandleQuery
<1>2. /\ c.state = "serving" /\ IsClient(c) /\ wire[1] \in Seq(Frames)
      /\ r \in Requests /\ r.kind = "query"
  BY <1>1, HandleFacts
<1>3. ~IsSync(r) /\ r.req \in Nat /\ r.purpose \in Purposes /\ r.rev \in Revisions
  BY <1>2, KindFacts
<1>4. Replies(c, wire[1])
  BY DEF IInv, IsConnection
<1>5. CASE DescribesCopy(c, r)
  <2> DEFINE b == Requested(c, 1, r.req, r.purpose)
             p == [id |-> FreeId(c, 1), req |-> r.req, purpose |-> r.purpose, rev |-> c.copy.rev]
  <2>1. SessionStep(1, b, <<>>)
    BY <1>5 DEF HandleQuery
  <2>2. HasCopy(c) /\ c.copy.rev = r.rev
    BY <1>5 DEF DescribesCopy, HasCopy
  <2>3. /\ IsClient(b) /\ Replies(b, wire[1])
        /\ b.state = c.state /\ b.copy = c.copy /\ b.sync = c.sync
        /\ b.pending = c.pending \cup {p}
    BY <1>2, <1>3, <1>4, <2>2, RequestedFacts
  <2>4. p.req = r.req /\ p.purpose = r.purpose /\ p.rev = r.rev
    BY <2>2
  <2> HIDE DEF b, p
  <2>5. Handled(c, b, r) /\ Keeps(c, b, r)
    BY <1>2, <1>3, <2>3 DEF Handled, Keeps, Synced, HasCopy
  <2> QED
    BY <1>1, <1>2, <2>1, <2>3, <2>4, <2>5, HandledKeeps
<1>6. CASE ~DescribesCopy(c, r)
  <2>1. SessionStep(1, c, <<Failed(1, r.req)>>)
    BY <1>6 DEF HandleQuery
  <2>2. Handled(c, c, r) /\ Keeps(c, c, r)
    BY <1>2, <1>3 DEF Handled, Keeps
  <2>3. <<Failed(1, r.req)>> \in {<<Failed(1, n)>> : n \in Nat}
    BY <1>3
  <2> QED
    BY <1>1, <1>2, <1>4, <2>1, <2>2, <2>3, HandledKeeps
<1> QED
  BY <1>5, <1>6

\* A session that changes its pulls, or lets a request go, is a session.
LEMMA LighterFacts ==
  ASSUME NEW c, NEW b, NEW w, IsClient(c), Replies(c, w),
         DOMAIN b = Fields, b.state = c.state, b.restarts = c.restarts, b.copy = c.copy,
         b.sync = c.sync, b.peer = c.peer, b.pending \subseteq c.pending,
         b.due = c.due \/ HasCopy(c)
  PROVE  IsClient(b) /\ Replies(b, w)
<1>1. IsFiniteSet(b.pending) /\ b.pending \in SUBSET Pending
  BY FS_Subset DEF IsClient
<1>2. Replies(b, w)
  BY DEF Replies
<1>3. HasCopy(b) = HasCopy(c)
  BY DEF HasCopy
<1>4. IsClient(b)
  BY <1>1, <1>3 DEF IsClient
<1> QED
  BY <1>2, <1>4

\* A step that leaves the request queue alone.
LEMMA ReceivedKeeps ==
  ASSUME IInv, ServerCount = 1, NEW b, NEW reports \in Reports, SessionStep(1, b, reports),
         session[1].state = "serving", b.state = "serving", IsClient(b), Replies(b, wire[1]),
         b.copy = session[1].copy, b.sync = session[1].sync,
         b.pending \subseteq session[1].pending,
         queue' = queue, orphaned' = orphaned, DOMAIN wire' = Servers,
         wire' = wire \/ (wire[1] # <<>> /\ wire'[1] = Tail(wire[1])),
         \A p \in session[1].pending : p.req # 0 =>
           \/ p \in b.pending
           \/ \E x \in Items(reports) : x.kind \in {"answer", "failed"} /\ x.req = p.req,
         \A x \in Items(reports) : x.kind = "answer" =>
           \E p \in session[1].pending :
             p.req # 0 /\ x.req = p.req /\ x.purpose = p.purpose /\ x.rev = p.rev
  PROVE  IInv'
<1> DEFINE c == session[1]
           q == queue[1]
<1>1. /\ q \in Seq(Requests) /\ Len(q) <= QueueMax /\ DOMAIN queue = Servers
      /\ Linked(c, q) /\ events \in Seq(Results) /\ issued[1] \in Nat
      /\ Identified(lang.question, issued[1], c, q, events)
      /\ Awaited(lang.question, issued[1], orphaned, c, q, events)
  BY DEF IInv, IsConnection
<1>2. HasCopy(b) = HasCopy(c) /\ Synced(b) = Synced(c)
  BY DEF HasCopy, Synced
<1>3. Linked(b, q)
  BY <1>1, <1>2 DEF Linked
<1>4. \A t : Arrives(c, q, t) => Arrives(b, q, t)
  BY <1>2 DEF Arrives
<1>5. Opened(c, q) => Opened(b, q)
  BY <1>2 DEF Opened
<1>6. /\ Items(events') = Items(events) \cup Items(reports)
      /\ Restarted(1) \in Items(events') <=> Restarted(1) \in Items(events)
      /\ Gone(1) \in Items(events') <=> Gone(1) \in Items(events)
  BY <1>1, SendFacts DEF SessionStep
<1>7. Identified(lang.question, issued[1], b, q, events')
  <2>1. \A p \in c.pending : p.req # 0 => Exact(p, lang.question, issued[1])
    BY <1>1 DEF Identified
  <2>2. \A x \in Items(reports) : x.kind = "answer" => Exact(x, lang.question, issued[1])
    BY <2>1 DEF Exact
  <2>3. \A x \in Items(events') : x.kind = "answer" => Exact(x, lang.question, issued[1])
    BY <1>1, <1>6, <2>2 DEF Identified
  <2> QED
    BY <1>1, <2>1, <2>3 DEF Identified
<1>8. Awaited(lang.question, issued[1], orphaned', b, q, events')
  <2>1. SUFFICES ASSUME lang.question.state = "accepted", issued[1] # 0,
                        OnWay(issued[1], c, q, events)
                 PROVE  OnWay(issued[1], b, q, events')
    BY <1>1 DEF Awaited
  <2>2. CASE \E p \in c.pending : p.req = issued[1]
    BY <1>6, <2>1, <2>2 DEF OnWay
  <2>3. CASE \/ \E r \in Items(q) : r.kind = "query" /\ r.req = issued[1]
             \/ Restarted(1) \in Items(events) \/ Gone(1) \in Items(events)
             \/ \E x \in Items(events) : x.kind \in {"answer", "failed"} /\ x.req \in {0, issued[1]}
    BY <1>6, <2>3 DEF OnWay
  <2> QED
    BY <2>1, <2>2, <2>3 DEF OnWay
<1> QED
  BY <1>1, <1>3, <1>4, <1>5, <1>7, <1>8, SessionStepKeeps

LEMMA ReadFacts ==
  ASSUME IInv, ServerCount = 1, NEW kind, Read(1, kind)
  PROVE  /\ session[1].state = "serving" /\ IsClient(session[1])
         /\ Replies(session[1], wire[1])
         /\ Head(wire[1]) \in Frames /\ Head(wire[1]) \in Items(wire[1])
         /\ Head(wire[1]).kind = kind
         /\ wire[1] # <<>> /\ wire'[1] = Tail(wire[1]) /\ DOMAIN wire' = Servers
         /\ queue' = queue /\ orphaned' = orphaned
<1>1. /\ session[1].state = "serving" /\ wire[1] # <<>> /\ Head(wire[1]).kind = kind
      /\ wire' = [wire EXCEPT ![1] = Tail(wire[1])] /\ queue' = queue /\ orphaned' = orphaned
  BY DEF Read, Serving
<1>2. /\ IsClient(session[1]) /\ Replies(session[1], wire[1])
      /\ wire[1] \in Seq(Frames) /\ DOMAIN wire = Servers
  BY DEF IInv, IsConnection
<1>3. wire'[1] = Tail(wire[1]) /\ DOMAIN wire' = Servers
  BY <1>1, <1>2, OneServer
<1>4. Head(wire[1]) \in Frames /\ Head(wire[1]) \in Items(wire[1])
  BY <1>1, <1>2, TailFacts
<1> QED
  BY <1>1, <1>2, <1>3, <1>4

LEMMA ReportFacts ==
  /\ <<>> \in Reports /\ Items(<<>>) = {}
  /\ \A x \in Results :
       /\ Items(<<x>>) = {x}
       /\ x.kind \notin {"restarted", "gone"} => <<x>> \in Reports
<1>1. <<>> \in Seq(Results)
  OBVIOUS
<1> QED
  BY <1>1, JoinFacts DEF Reports

LEMMA ReadDiagnosticsKeeps ==
  ASSUME IInv, ServerCount = 1, ReadDiagnostics(1)
  PROVE  IInv'
<1> DEFINE c == session[1]
           f == Head(wire[1])
           e == Diagnostics(1, c.copy.rev, f.text, FALSE)
<1>1. Read(1, "diagnostics")
  BY DEF ReadDiagnostics
<1>2. /\ c.state = "serving" /\ IsClient(c) /\ Replies(c, wire[1]) /\ f \in Frames
      /\ wire[1] # <<>> /\ wire'[1] = Tail(wire[1]) /\ DOMAIN wire' = Servers
      /\ queue' = queue /\ orphaned' = orphaned
  BY <1>1, ReadFacts
<1>3. PICK reports : /\ SessionStep(1, c, reports)
                     /\ reports = <<>> \/ (c.copy # NoCopy /\ reports = <<e>>)
  BY DEF ReadDiagnostics
<1>4. ASSUME c.copy # NoCopy PROVE e \in Results /\ e.kind = "diagnostics"
  <2>1. c.copy.rev \in Revisions /\ f.text \in Int
    BY <1>2, <1>4, KindFacts DEF IsClient, HasCopy
  <2>2. e \in Sets /\ ~e.pulled /\ e.kind = "diagnostics"
    BY <2>1 DEF Diagnostics, Sets
  <2> QED
    BY <2>2 DEF Results
<1> HIDE DEF e
<1>5. reports \in Reports /\ \A x \in Items(reports) : x.kind = "diagnostics"
  BY <1>3, <1>4, ReportFacts
<1> QED
  BY <1>2, <1>3, <1>5, ReceivedKeeps

LEMMA ReadStrayKeeps ==
  ASSUME IInv, ServerCount = 1, ReadStray(1)
  PROVE  IInv'
<1>1. Read(1, "reply") /\ SessionStep(1, session[1], <<>>)
  BY DEF ReadStray
<1>2. /\ session[1].state = "serving" /\ IsClient(session[1])
      /\ Replies(session[1], wire[1])
      /\ wire[1] # <<>> /\ wire'[1] = Tail(wire[1]) /\ DOMAIN wire' = Servers
      /\ queue' = queue /\ orphaned' = orphaned
  BY <1>1, ReadFacts
<1> QED
  BY <1>1, <1>2, ReportFacts, ReceivedKeeps

\* An answer that is used describes the revision of its request.
LEMMA GoodFacts ==
  ASSUME IInv, ServerCount = 1, Read(1, "reply"), NEW p \in Answered(1), Good(1, p)
  PROVE  /\ HasCopy(session[1]) /\ session[1].copy.rev = p.rev
         /\ Head(wire[1]).text = p.rev
<1>1. /\ Replies(session[1], wire[1]) /\ Head(wire[1]) \in Items(wire[1])
      /\ Head(wire[1]).kind = "reply"
  BY ReadFacts
<1>2. p \in session[1].pending /\ p.id = Head(wire[1]).id
  BY DEF Answered
<1>3. HasCopy(session[1]) /\ session[1].copy.rev = p.rev /\ Head(wire[1]).text # Empty
  BY DEF Good, StillDescribes, HasCopy
<1> QED
  BY <1>1, <1>2, <1>3 DEF Replies

LEMMA ReadAnswerKeeps ==
  ASSUME IInv, ServerCount = 1, ReadAnswer(1)
  PROVE  IInv'
<1> DEFINE c == session[1]
           f == Head(wire[1])
<1>1. Read(1, "reply")
  BY DEF ReadAnswer
<1>2. /\ c.state = "serving" /\ IsClient(c) /\ Replies(c, wire[1]) /\ f \in Frames
      /\ wire[1] # <<>> /\ wire'[1] = Tail(wire[1]) /\ DOMAIN wire' = Servers
      /\ queue' = queue /\ orphaned' = orphaned
  BY <1>1, ReadFacts
<1>3. PICK p \in Answered(1) :
        /\ p.req # 0
        /\ SessionStep(1, [c EXCEPT !.pending = @ \ {p}],
                       <<IF Good(1, p) THEN Answer(1, p, f.text) ELSE Failed(1, p.req)>>)
  BY DEF ReadAnswer
<1> DEFINE b == [c EXCEPT !.pending = @ \ {p}]
           e == IF Good(1, p) THEN Answer(1, p, f.text) ELSE Failed(1, p.req)
<1>4. /\ p \in c.pending /\ p.req \in Nat \ {0} /\ p.rev \in Revisions /\ p.purpose \in Purposes
  BY <1>2, <1>3 DEF Answered, IsClient, Pending
<1>5. /\ e \in Results /\ e.kind \in {"answer", "failed"} /\ e.req = p.req
      /\ e.kind = "answer" => e.purpose = p.purpose /\ e.rev = p.rev
  <2>1. CASE Good(1, p)
    <3>1. f.text = p.rev /\ p.rev \in Int
      BY <1>1, <1>4, <2>1, GoodFacts DEF Revisions
    <3>2. e = Answer(1, p, f.text)
      BY <2>1
    <3>3. /\ Answer(1, p, f.text) \in Answers /\ Answer(1, p, f.text).text = p.rev
          /\ Answer(1, p, f.text).kind = "answer" /\ Answer(1, p, f.text).req = p.req
          /\ Answer(1, p, f.text).rev = p.rev /\ Answer(1, p, f.text).purpose = p.purpose
      BY <1>4, <3>1 DEF Answer, Answers
    <3> HIDE DEF e
    <3> QED
      BY <3>2, <3>3 DEF Results
  <2>2. CASE ~Good(1, p)
    <3>1. e = Failed(1, p.req)
      BY <2>2
    <3> HIDE DEF e
    <3>2. e \in Failures /\ e.kind = "failed" /\ e.req = p.req
      BY <1>4, <3>1 DEF Failed, Failures
    <3> QED
      BY <3>2 DEF Results
  <2> QED
    BY <2>1, <2>2
<1>6. /\ DOMAIN b = Fields /\ b.state = c.state /\ b.restarts = c.restarts /\ b.copy = c.copy
      /\ b.sync = c.sync /\ b.peer = c.peer /\ b.due = c.due /\ b.pending = c.pending \ {p}
  BY <1>2 DEF IsClient, Fields
<1>7. SessionStep(1, b, <<e>>)
  BY <1>3
<1> HIDE DEF b, e
<1>8. <<e>> \in Reports /\ Items(<<e>>) = {e}
  BY <1>5, ReportFacts
<1>9. IsClient(b) /\ Replies(b, wire[1])
  BY <1>2, <1>6, LighterFacts
<1> QED
  BY <1>2, <1>4, <1>5, <1>6, <1>7, <1>8, <1>9, ReceivedKeeps

LEMMA ReadPulledKeeps ==
  ASSUME IInv, ServerCount = 1, ReadPulled(1)
  PROVE  IInv'
<1> DEFINE c == session[1]
           f == Head(wire[1])
           e == Diagnostics(1, c.copy.rev, f.text, TRUE)
<1>1. Read(1, "reply")
  BY DEF ReadPulled
<1>2. /\ c.state = "serving" /\ IsClient(c) /\ Replies(c, wire[1]) /\ f \in Frames
      /\ wire[1] # <<>> /\ wire'[1] = Tail(wire[1]) /\ DOMAIN wire' = Servers
      /\ queue' = queue /\ orphaned' = orphaned
  BY <1>1, ReadFacts
<1>3. PICK p \in Answered(1), full \in BOOLEAN :
        /\ p.req = 0
        /\ SessionStep(1, [c EXCEPT !.pending = @ \ {p}, !.pulling = FALSE],
                       IF Good(1, p) /\ full THEN <<e>> ELSE <<>>)
  BY DEF ReadPulled
<1> DEFINE b == [c EXCEPT !.pending = @ \ {p}, !.pulling = FALSE]
           reports == IF Good(1, p) /\ full THEN <<e>> ELSE <<>>
<1>4. ASSUME Good(1, p) PROVE e \in Results /\ e.kind = "diagnostics"
  <2>1. f.text = c.copy.rev /\ c.copy.rev \in Revisions
    BY <1>1, <1>2, <1>4, GoodFacts DEF IsClient
  <2>2. e \in Sets /\ e.text = e.rev /\ e.kind = "diagnostics"
    BY <2>1 DEF Diagnostics, Sets, Revisions
  <2> QED
    BY <2>2 DEF Results
<1>5. /\ DOMAIN b = Fields /\ b.state = c.state /\ b.restarts = c.restarts /\ b.copy = c.copy
      /\ b.sync = c.sync /\ b.peer = c.peer /\ b.due = c.due /\ b.pending = c.pending \ {p}
  BY <1>2 DEF IsClient, Fields
<1>6. SessionStep(1, b, reports) /\ (reports = <<>> \/ (Good(1, p) /\ reports = <<e>>))
  BY <1>3
<1> HIDE DEF b, e, reports
<1>7. reports \in Reports /\ \A x \in Items(reports) : x.kind = "diagnostics"
  BY <1>4, <1>6, ReportFacts
<1>8. IsClient(b) /\ Replies(b, wire[1])
  BY <1>2, <1>5, LighterFacts
<1> QED
  BY <1>2, <1>3, <1>5, <1>6, <1>7, <1>8, ReceivedKeeps

LEMMA ExpireKeeps ==
  ASSUME IInv, ServerCount = 1, NEW question \in BOOLEAN, Expire(1, question)
  PROVE  IInv'
<1> DEFINE c == session[1]
<1>1. PICK p \in c.pending :
        SessionStep(1, [c EXCEPT !.pending = @ \ {p},
                                 !.pulling = IF p.req = 0 THEN FALSE ELSE @],
                    ExpiryReport(1, p))
  BY DEF Expire
<1>2. c.state = "serving" /\ queue' = queue /\ wire' = wire /\ orphaned' = orphaned
  BY DEF Expire, Serving
<1>3. IsClient(c) /\ Replies(c, wire[1]) /\ DOMAIN wire = Servers
  BY DEF IInv, IsConnection
<1> DEFINE b == [c EXCEPT !.pending = @ \ {p}, !.pulling = IF p.req = 0 THEN FALSE ELSE @]
<1>4. /\ DOMAIN b = Fields /\ b.state = c.state /\ b.restarts = c.restarts /\ b.copy = c.copy
      /\ b.sync = c.sync /\ b.peer = c.peer /\ b.due = c.due /\ b.pending = c.pending \ {p}
  BY <1>3 DEF IsClient, Fields
<1>5. SessionStep(1, b, ExpiryReport(1, p))
  BY <1>1
<1> HIDE DEF b
<1>6. /\ ExpiryReport(1, p) \in Reports
      /\ \A x \in Items(ExpiryReport(1, p)) : x.kind = "failed"
      /\ p.req # 0 => \E x \in Items(ExpiryReport(1, p)) : x.kind = "failed" /\ x.req = p.req
  <2>1. CASE p.req = 0
    BY <2>1, ReportFacts DEF ExpiryReport
  <2>2. CASE p.req # 0
    <3>1. p.req \in Nat
      BY <1>3 DEF IsClient, Pending
    <3>2. /\ Failed(1, p.req) \in Failures /\ Failed(1, p.req).kind = "failed"
          /\ Failed(1, p.req).req = p.req
      BY <3>1 DEF Failed, Failures
    <3>3. Failed(1, p.req) \in Results
      BY <3>2 DEF Results
    <3>4. ExpiryReport(1, p) = <<Failed(1, p.req)>>
      BY <2>2 DEF ExpiryReport
    <3> QED
      BY <3>2, <3>3, <3>4, ReportFacts
  <2> QED
    BY <2>1, <2>2
<1>7. IsClient(b) /\ Replies(b, wire[1])
  BY <1>3, <1>4, LighterFacts
<1> QED
  BY <1>2, <1>3, <1>4, <1>5, <1>6, <1>7, ReceivedKeeps

\* Both timers of the pulls make one due; a settling pull has a copy.
LEMMA DueKeeps ==
  ASSUME IInv, ServerCount = 1, ReadRefresh(1) \/ SettleDelay(1)
  PROVE  IInv'
<1> DEFINE c == session[1]
           b == [c EXCEPT !.due = "now"]
<1>1. /\ c.state = "serving" /\ queue' = queue /\ wire' = wire /\ orphaned' = orphaned
      /\ SessionStep(1, b, <<>>)
      /\ c.copy # NoCopy \/ c.due = "settling"
  BY DEF ReadRefresh, SettleDelay, Serving
<1>2. IsClient(c) /\ Replies(c, wire[1]) /\ DOMAIN wire = Servers
  BY DEF IInv, IsConnection
<1>3. HasCopy(c)
  BY <1>1, <1>2 DEF IsClient, HasCopy
<1>4. /\ DOMAIN b = Fields /\ b.state = c.state /\ b.restarts = c.restarts /\ b.copy = c.copy
      /\ b.sync = c.sync /\ b.peer = c.peer /\ b.pending = c.pending
  BY <1>2 DEF IsClient, Fields
<1> HIDE DEF b
<1>5. IsClient(b) /\ Replies(b, wire[1])
  BY <1>2, <1>3, <1>4, LighterFacts
<1> QED
  BY <1>1, <1>2, <1>4, <1>5, ReportFacts, ReceivedKeeps

-----------------------------------------------------------------------------
(* The supervisor, and the server. *)

LEMMA SuperviseKeeps ==
  ASSUME IInv, ServerCount = 1, NEW b, NEW reports, Supervise(1, b, reports),
         session[1].state # "ended", IsClient(b), ~HasCopy(b),
         \/ b.state = "serving" /\ session[1].state = "starting" /\ reports = <<>>
         \/ b.state = "starting" /\ reports = <<Restarted(1)>>
         \/ b.state = "failed" /\ reports = <<Failed(1, 0)>>
         \/ b.state = "ended" /\ reports = <<Gone(1)>>
  PROVE  IInv'
<1> DEFINE c == session[1]
           q == queue[1]
<1>1. /\ session' = [session EXCEPT ![1] = b] /\ wire' = [wire EXCEPT ![1] = <<>>]
      /\ queue' = IF b.state = "ended" THEN [queue EXCEPT ![1] = <<>>] ELSE queue
      /\ events' = events \o reports /\ Len(events') <= EventsMax
      /\ doc' = doc /\ lang' = lang /\ passes' = passes /\ running' = running
      /\ shown' = shown /\ issued' = issued /\ applied' = applied /\ orphaned' = orphaned
  BY DEF Supervise, Send, editor
<1>2. /\ IsClient(c) /\ q \in Seq(Requests) /\ Len(q) <= QueueMax
      /\ events \in Seq(Results) /\ Linked(c, q)
      /\ Gone(1) \notin Items(events)
      /\ DOMAIN session = Servers /\ DOMAIN queue = Servers /\ DOMAIN wire = Servers
      /\ Servers = {1} /\ 1 \in running /\ running \subseteq Servers
      /\ Identified(lang.question, issued[1], c, q, events)
      /\ Awaited(lang.question, issued[1], orphaned, c, q, events)
      /\ Owed(doc, lang, c, q, events)
      /\ issued[1] \in Nat
  BY OneServer DEF IInv, IsConnection
<1>3. /\ DOMAIN session' = Servers /\ session'[1] = b
      /\ DOMAIN wire' = Servers /\ wire'[1] = <<>>
      /\ DOMAIN queue' = Servers
      /\ b.state = "ended" => queue'[1] = <<>>
      /\ b.state # "ended" => queue'[1] = q
  BY <1>1, <1>2
<1>4. /\ Restarted(1) \in Results /\ Gone(1) \in Results /\ Failed(1, 0) \in Results
      /\ Restarted(1).kind = "restarted" /\ Gone(1).kind = "gone" /\ Failed(1, 0).kind = "failed"
      /\ Failed(1, 0).req = 0
  BY DEF Results, Failures, Restarted, Gone, Failed
<1>5. /\ events' \in Seq(Results) /\ Items(events') = Items(events) \cup Items(reports)
      /\ b.state = "serving" => Items(reports) = {}
      /\ b.state = "starting" => Items(reports) = {Restarted(1)}
      /\ b.state = "failed" => Items(reports) = {Failed(1, 0)}
      /\ b.state = "ended" => Items(reports) = {Gone(1)}
  <2>1. ASSUME NEW x \in Results, reports = <<x>>
        PROVE  events' \in Seq(Results) /\ Items(events') = Items(events) \cup {x} /\ Items(reports) = {x}
    <3>1. events' = Append(events, x) /\ Items(reports) = {x}
      BY <1>1, <1>2, <2>1, JoinFacts
    <3> QED
      BY <1>2, <3>1, AppendFacts
  <2>2. CASE reports = <<>>
    BY <1>1, <1>2, <2>2, JoinFacts
  <2> QED
    BY <1>4, <2>1, <2>2
<1>6. ~Synced(b) /\ b.pending = {}
  BY DEF Synced, IsClient
<1>7. Linked(b, queue'[1]) /\ Replies(b, <<>>)
  <2>1. Linked(b, q) /\ Linked(b, <<>>)
    BY <1>2, <1>6 DEF Linked
  <2> QED
    BY <1>3, <1>6, <2>1 DEF Replies
<1>8. IsConnection(b, queue'[1], wire'[1], events')
  <2>1. queue'[1] \in Seq(Requests) /\ Len(queue'[1]) <= QueueMax
    <3>1. <<>> \in Seq(Requests) /\ Len(<<>>) = 0 /\ 0 <= QueueMax
      BY LanguageAssumption DEF LanguageAssumption
    <3> QED
      BY <1>2, <1>3, <3>1
  <2>2. wire'[1] \in Seq(Frames) /\ Len(wire'[1]) <= WireMax
    BY <1>3, LanguageAssumption DEF LanguageAssumption
  <2>3. Gone(1) \in Items(events') => b.state = "ended"
    BY <1>2, <1>4, <1>5
  <2> QED
    BY <1>1, <1>3, <1>5, <1>7, <2>1, <2>2, <2>3 DEF IsConnection
<1>9. Owed(doc, lang, b, queue'[1], events')
  <2>1. SUFFICES ASSUME doc.loaded, ~lang.resync, b.state # "ended"
                 PROVE  /\ Arrives(b, q, Target(doc, lang))
                        /\ b.state \in {"starting", "serving"} =>
                             Opened(b, q) \/ Restarted(1) \in Items(events')
    BY <1>3 DEF Owed
  <2>2. Arrives(c, q, Target(doc, lang))
    BY <1>2, <2>1 DEF Owed
  <2>3. Arrives(b, q, Target(doc, lang))
    BY <1>6, <2>2 DEF Arrives
  <2>4. CASE b.state = "serving"
    <3>1. ~HasCopy(c) /\ (Opened(c, q) \/ Restarted(1) \in Items(events))
      BY <1>2, <2>1, <2>4 DEF Owed, IsClient
    <3> QED
      BY <1>5, <2>3, <2>4, <3>1 DEF Opened
  <2>5. CASE b.state # "serving"
    BY <1>5, <2>3, <2>5
  <2> QED
    BY <2>4, <2>5
<1>10. Identified(lang.question, issued[1], b, queue'[1], events')
  <2>1. Items(queue'[1]) \subseteq Items(q)
    BY <1>3 DEF Items
  <2>2. \A x \in Items(reports) : x.kind # "answer"
    BY <1>4, <1>5
  <2> QED
    BY <1>2, <1>5, <1>6, <2>1, <2>2 DEF Identified
<1>11. Awaited(lang.question, issued[1], orphaned', b, queue'[1], events')
  <2>1. SUFFICES ASSUME issued[1] # 0, OnWay(issued[1], c, q, events), b.state = "serving"
                 PROVE  OnWay(issued[1], b, queue'[1], events')
    BY <1>1, <1>2, <1>5 DEF Awaited, OnWay
  <2>2. c.state = "starting" /\ c.pending = {} /\ queue'[1] = q /\ Items(events') = Items(events)
    BY <1>2, <1>3, <1>5, <2>1 DEF IsClient
  <2> QED
    BY <2>1, <2>2 DEF OnWay
<1>12. /\ IsEditor(doc, lang, passes)
       /\ DOMAIN shown = Servers /\ (shown[1].pulled => shown[1].text = shown[1].rev)
       /\ applied.texts \subseteq {applied.onto}
  BY DEF IInv
<1> QED
  BY <1>1, <1>2, <1>3, <1>8, <1>9, <1>10, <1>11, <1>12 DEF IInv

LEMMA StartingFacts ==
  ASSUME NEW n \in 0 .. RestartsMax, NEW state \in {"starting", "failed", "ended"}
  PROVE  /\ IsClient(Starting(n)) /\ ~HasCopy(Starting(n)) /\ Starting(n).state = "starting"
         /\ IsClient([Starting(n) EXCEPT !.state = state])
         /\ ~HasCopy([Starting(n) EXCEPT !.state = state])
         /\ [Starting(n) EXCEPT !.state = state].state = state
<1> DEFINE c == Starting(n)
           d == [c EXCEPT !.state = state]
<1>1. /\ DOMAIN c = Fields /\ c.state = "starting" /\ c.restarts = n /\ c.copy = NoCopy
      /\ c.peer = NoPeer /\ c.pending = {} /\ c.due = "no"
  BY DEF Starting, Fields
<1> HIDE DEF c
<1>2. /\ DOMAIN d = Fields /\ d.state = state /\ d.restarts = n /\ d.copy = NoCopy
      /\ d.peer = NoPeer /\ d.pending = {} /\ d.due = "no"
  BY <1>1 DEF Fields
<1>3. /\ IsFiniteSet({}) /\ NoCopy \in [rev : 0 .. RevisionMax, version : Nat]
      /\ NoPeer \in [text : Int, version : Nat]
  BY FS_EmptySet, LanguageAssumption DEF LanguageAssumption, NoCopy, NoPeer
<1> HIDE DEF d
<1>4. IsClient(c) /\ ~HasCopy(c)
  BY <1>1, <1>3 DEF IsClient, HasCopy
<1>5. IsClient(d) /\ ~HasCopy(d)
  BY <1>2, <1>3 DEF IsClient, HasCopy
<1> QED
  BY <1>1, <1>2, <1>4, <1>5 DEF c, d

LEMMA StartKeeps ==
  ASSUME IInv, ServerCount = 1, Start(1)
  PROVE  IInv'
<1> DEFINE c == session[1]
<1>1. c.state = "starting" /\ IsClient(c) /\ ~HasCopy(c)
  BY DEF Start, Handshake, NotInstalled, IInv, IsConnection, IsClient
<1>2. DOMAIN c = Fields
  BY <1>1 DEF IsClient
<1>3. ASSUME NEW sync \in BOOLEAN, NEW pulls \in BOOLEAN,
             Supervise(1, [c EXCEPT !.state = "serving", !.sync = sync, !.pulls = pulls], <<>>)
      PROVE  IInv'
  <2> DEFINE b == [c EXCEPT !.state = "serving", !.sync = sync, !.pulls = pulls]
  <2>1. /\ DOMAIN b = Fields /\ b.state = "serving" /\ b.restarts = c.restarts /\ b.copy = c.copy
        /\ b.peer = c.peer /\ b.pending = c.pending /\ b.due = c.due
    BY <1>2 DEF Fields
  <2>2. Supervise(1, b, <<>>)
    BY <1>3
  <2> HIDE DEF b
  <2>3. IsClient(b) /\ ~HasCopy(b)
    BY <1>1, <2>1 DEF IsClient, HasCopy
  <2> QED
    BY <1>1, <2>1, <2>2, <2>3, SuperviseKeeps
<1>4. CASE NotInstalled(1)
  <2> DEFINE b == [c EXCEPT !.state = "ended"]
  <2>1. /\ DOMAIN b = Fields /\ b.state = "ended" /\ b.restarts = c.restarts /\ b.copy = c.copy
        /\ b.peer = c.peer /\ b.pending = c.pending /\ b.due = c.due
    BY <1>2 DEF Fields
  <2>2. Supervise(1, b, <<Gone(1)>>)
    BY <1>4 DEF NotInstalled
  <2> HIDE DEF b
  <2>3. IsClient(b) /\ ~HasCopy(b)
    BY <1>1, <2>1 DEF IsClient, HasCopy
  <2> QED
    BY <1>1, <2>1, <2>2, <2>3, SuperviseKeeps
<1> QED
  BY <1>3, <1>4 DEF Start, Handshake

LEMMA FailKeeps ==
  ASSUME IInv, ServerCount = 1, AttemptFails(1) \/ Restart(1)
  PROVE  IInv'
<1> DEFINE n == session[1].restarts
<1>1. n \in 0 .. RestartsMax /\ session[1].state # "ended"
  BY DEF IInv, IsConnection, IsClient, AttemptFails, Restart
<1>2. CASE AttemptFails(1)
  <2> DEFINE b == [Starting(n) EXCEPT !.state = "failed"]
  <2>1. IsClient(b) /\ ~HasCopy(b) /\ b.state = "failed"
    BY <1>1, StartingFacts
  <2>2. Supervise(1, b, <<Failed(1, 0)>>)
    BY <1>2 DEF AttemptFails
  <2> QED
    BY <1>1, <2>1, <2>2, SuperviseKeeps
<1>3. CASE n < RestartsMax /\ Supervise(1, Starting(n + 1), <<Restarted(1)>>)
  <2>1. n + 1 \in 0 .. RestartsMax
    BY <1>1, <1>3, LanguageAssumption DEF LanguageAssumption
  <2>2. IsClient(Starting(n + 1)) /\ ~HasCopy(Starting(n + 1)) /\ Starting(n + 1).state = "starting"
    BY <2>1, StartingFacts
  <2> QED
    BY <1>1, <1>3, <2>2, SuperviseKeeps
<1>4. CASE Supervise(1, [Starting(n) EXCEPT !.state = "ended"], <<Gone(1)>>)
  <2>1. /\ IsClient([Starting(n) EXCEPT !.state = "ended"])
        /\ ~HasCopy([Starting(n) EXCEPT !.state = "ended"])
        /\ [Starting(n) EXCEPT !.state = "ended"].state = "ended"
    BY <1>1, StartingFacts
  <2> QED
    BY <1>1, <1>4, <2>1, SuperviseKeeps
<1> QED
  BY <1>2, <1>3, <1>4 DEF Restart

\* A frame is written: a reply, with the text of the copy or nothing.
LEMMA WriteKeeps ==
  ASSUME IInv, ServerCount = 1, PublishDiagnostics(1) \/ Reply(1)
  PROVE  IInv'
<1> DEFINE c == session[1]
           w == wire[1]
<1>1. /\ IsClient(c) /\ w \in Seq(Frames) /\ Replies(c, w) /\ DOMAIN wire = Servers
      /\ Servers = {1}
  BY OneServer DEF IInv, IsConnection
<1>2. PICK f \in Frames : /\ Write(1, f)
                          /\ f.kind = "reply" => f.text \in {Empty, c.peer.text}
  <2>1. CASE PublishDiagnostics(1)
    <3> DEFINE f == [kind |-> "diagnostics", version |-> c.peer.version, text |-> c.peer.text]
    <3>1. f \in Frames /\ f.kind = "diagnostics"
      BY <1>1 DEF Frames, IsClient
    <3>2. Write(1, f)
      BY <2>1 DEF PublishDiagnostics
    <3> QED
      BY <3>1, <3>2
  <2>2. CASE Reply(1)
    <3>1. PICK p \in c.pending, text \in {c.peer.text, Empty} :
            Write(1, [kind |-> "reply", id |-> p.id, text |-> text])
      BY <2>2 DEF Reply
    <3> DEFINE f == [kind |-> "reply", id |-> p.id, text |-> text]
    <3>2. text \in {Empty, c.peer.text} /\ text \in Int /\ p.id \in Nat
      BY <1>1, <3>1 DEF IsClient, Pending, Empty
    <3>3. f \in Frames /\ f.text \in {Empty, c.peer.text}
      BY <3>2 DEF Frames
    <3>4. Write(1, f)
      BY <3>1
    <3> QED
      BY <3>3, <3>4
  <2> QED
    BY <2>1, <2>2
<1>3. /\ session' = session /\ queue' = queue /\ events' = events /\ orphaned' = orphaned
      /\ doc' = doc /\ lang' = lang /\ passes' = passes /\ running' = running
      /\ shown' = shown /\ issued' = issued /\ applied' = applied
  BY DEF PublishDiagnostics, Reply, Write, editor
<1>4. c.state = "serving" /\ Len(w) < WireMax /\ wire' = [wire EXCEPT ![1] = Append(w, f)]
  BY <1>2 DEF Write
<1>5. wire'[1] = Append(w, f) /\ DOMAIN wire' = Servers
  BY <1>1, <1>4
<1>6. /\ Append(w, f) \in Seq(Frames) /\ Items(Append(w, f)) = Items(w) \cup {f}
      /\ Len(Append(w, f)) = Len(w) + 1 /\ Len(w) \in Nat
  BY <1>1, <1>2, AppendFacts
<1>7. Len(wire'[1]) <= WireMax
  BY <1>4, <1>5, <1>6, LanguageAssumption DEF LanguageAssumption
<1>8. Replies(c, wire'[1])
  <2>1. \A p \in c.pending : f.kind = "reply" => f.text \in {Empty, c.copy.rev}
    BY <1>1, <1>2 DEF IsClient
  <2> QED
    BY <1>1, <1>5, <1>6, <2>1 DEF Replies
<1>9. IsConnection(c, queue[1], wire'[1], events)
  BY <1>5, <1>6, <1>7, <1>8 DEF IInv, IsConnection
<1> QED
  BY <1>3, <1>5, <1>9 DEF IInv

-----------------------------------------------------------------------------
(* The transitions of the editor. *)

LEMMA NthFacts == Nth({1}, 1) = 1 /\ Cardinality({1}) = 1
<1>1. Cardinality({1}) = 1
  BY FS_Singleton
<1>2. {k \in {1} : k <= 1} = {1}
  OBVIOUS
<1> QED
  BY <1>1, <1>2 DEF Nth

LEMMA WithoutChangesFacts ==
  /\ WithoutChanges(<<>>) = <<>>
  /\ \A x : x.kind # "change" => WithoutChanges(<<x>>) = <<x>>
<1>1. WithoutChanges(<<>>) = <<>>
  <2>1. {i \in DOMAIN <<>> : <<>>[i].kind # "change"} = {} /\ Cardinality({}) = 0
    BY FS_EmptySet
  <2>2. \A f : [n \in 1 .. 0 |-> f[n]] = <<>>
    OBVIOUS
  <2> QED
    BY <2>1, <2>2 DEF WithoutChanges
<1>2. ASSUME NEW x, x.kind # "change" PROVE WithoutChanges(<<x>>) = <<x>>
  <2>1. {i \in DOMAIN <<x>> : <<x>>[i].kind # "change"} = {1}
    BY <1>2
  <2>2. WithoutChanges(<<x>>) = [n \in 1 .. 1 |-> <<x>>[Nth({1}, n)]]
    BY <2>1, NthFacts DEF WithoutChanges
  <2>3. \A n \in 1 .. 1 : <<x>>[Nth({1}, n)] = x
    BY NthFacts
  <2>4. WithoutChanges(<<x>>) = [n \in 1 .. 1 |-> x]
    BY <2>2, <2>3
  <2> QED
    BY <2>4
<1> QED
  BY <1>1, <1>2

LEMMA OutboxFacts ==
  ASSUME NEW d, NEW l, NEW n, IsEditor(d, l, n), n = 0 \/ l.resync
  PROVE  \/ l.question.state # "queued" /\ l.outbox = <<>>
         \/ /\ l.question.state = "queued" /\ l.outbox = <<QueryOf(l.question)>>
            /\ QueryOf(l.question).kind = "query" /\ l.resync
<1>1. \A q : QueryOf(q).kind = "query"
  BY DEF QueryOf, Query
<1>2. \A x : <<x>> # <<>>
  OBVIOUS
<1>3. ~(n > 0) \/ l.resync
  OBVIOUS
<1>4. n = DISPATCH_PASSES_MAX => n > 0
  BY DEF DISPATCH_PASSES_MAX
<1> QED
  BY <1>1, <1>2, <1>3, <1>4 DEF IsEditor, OutboxInOrder

LEMMA MarkResyncFacts ==
  ASSUME NEW d, NEW l, NEW n, IsEditor(d, l, n), n = 0 \/ l.resync
  PROVE  /\ DOMAIN MarkResync(l) = {"outbox", "resync", "question"}
         /\ MarkResync(l).outbox = l.outbox /\ MarkResync(l).resync = TRUE
         /\ MarkResync(l).question = l.question
         /\ DOMAIN Forget(l) = {"outbox", "resync", "question"}
         /\ Forget(l).outbox = l.outbox /\ Forget(l).resync = FALSE
         /\ Forget(l).question = l.question
<1>1. WithoutChanges(l.outbox) = l.outbox
  BY OutboxFacts, WithoutChangesFacts
<1>2. DOMAIN l = {"outbox", "resync", "question"}
  BY DEF IsEditor
<1> QED
  BY <1>1, <1>2 DEF MarkResync, Forget

LEMMA PassesFacts ==
  /\ DISPATCH_PASSES_MAX \in 0 .. DISPATCH_PASSES_MAX
  /\ DISPATCH_PASSES_MAX # 0 /\ DISPATCH_PASSES_MAX > 0
BY DEF DISPATCH_PASSES_MAX

\* An edit continues the synchronized text, or the mark stands for it.
LEMMA SynchronizeFacts ==
  ASSUME NEW d, NEW l, IsEditor(d, l, 0), d.loaded, d.rev < RevisionMax
  PROVE  LET t == [d EXCEPT !.rev = @ + 1]
             m == Synchronize(l, d.rev, d.rev + 1)
         IN /\ IsEditor(t, m, DISPATCH_PASSES_MAX) /\ m.question = l.question
            /\ \A c, q, e : Owed(d, l, c, q, e) => Owed(t, m, c, q, e)
<1> DEFINE t == [d EXCEPT !.rev = @ + 1]
           m == Synchronize(l, d.rev, d.rev + 1)
<1>1. /\ d \in [rev : Revisions, loaded : BOOLEAN] /\ d.rev \in Revisions
      /\ DOMAIN l = {"outbox", "resync", "question"}
      /\ IsQuestion(l.question) /\ l.resync \in BOOLEAN
      /\ RevisionMax \in Nat
  BY LanguageAssumption DEF IsEditor, LanguageAssumption
<1>2. /\ t \in [rev : Revisions, loaded : BOOLEAN] /\ t.loaded /\ t.rev = d.rev + 1
      /\ d.rev < t.rev
  BY <1>1 DEF Revisions
<1>3. DISPATCH_PASSES_MAX \in 0 .. DISPATCH_PASSES_MAX /\ DISPATCH_PASSES_MAX # 0
  BY DEF DISPATCH_PASSES_MAX
<1> HIDE DEF t
<1>4. CASE l.resync
  <2>1. m = l
    BY <1>4 DEF Synchronize
  <2>2. OutboxInOrder(t, l, DISPATCH_PASSES_MAX)
    BY <1>4, OutboxFacts DEF OutboxInOrder
  <2>3. IsEditor(t, l, DISPATCH_PASSES_MAX)
    BY <1>1, <1>2, <1>3, <2>2 DEF IsEditor
  <2>4. \A c, q, e : Owed(t, l, c, q, e)
    BY <1>4 DEF Owed
  <2> QED
    BY <2>1, <2>3, <2>4 DEF t
<1>5. CASE ~l.resync
  <2>1. l.question.state # "queued" /\ l.outbox = <<>>
    BY <1>5, OutboxFacts
  <2>2. m = [l EXCEPT !.outbox = Append(l.outbox, Change(d.rev, d.rev + 1))]
    BY <1>5 DEF Synchronize, Enqueue
  <2>3. Append(<<>>, Change(d.rev, d.rev + 1)) = <<Change(d.rev, t.rev)>>
    BY <1>2
  <2> HIDE DEF m
  <2>4. /\ DOMAIN m = {"outbox", "resync", "question"} /\ m.resync = l.resync
        /\ m.question = l.question /\ m.outbox = <<Change(d.rev, t.rev)>>
    BY <1>1, <2>1, <2>2, <2>3
  <2>5. OutboxInOrder(t, m, DISPATCH_PASSES_MAX)
    BY <1>1, <1>2, <1>5, <2>1, <2>4 DEF OutboxInOrder
  <2>6. IsEditor(t, m, DISPATCH_PASSES_MAX)
    BY <1>1, <1>2, <1>3, <2>4, <2>5 DEF IsEditor
  <2>7. Target(d, l) = d.rev
    BY <2>1 DEF Target
  <2>8. Target(t, m) = d.rev
    <3>1. m.outbox # <<>> /\ m.outbox[1] = Change(d.rev, t.rev)
      BY <2>4
    <3>2. Change(d.rev, t.rev).kind = "change" /\ Change(d.rev, t.rev).from = d.rev
      BY DEF Change
    <3> QED
      BY <3>1, <3>2 DEF Target
  <2>9. \A c, q, e : Owed(d, l, c, q, e) => Owed(t, m, c, q, e)
    BY <1>2, <1>5, <2>4, <2>7, <2>8 DEF Owed
  <2> QED
    BY <2>4, <2>6, <2>9 DEF t, m
<1> QED
  BY <1>4, <1>5

\* A transition changes the editor only.
LEMMA UserKeeps ==
  ASSUME IInv, UserStep, IsEditor(doc', lang', DISPATCH_PASSES_MAX),
         Owed(doc', lang', session[1], queue[1], events),
         DOMAIN shown' = Servers, shown'[1].pulled => shown'[1].text = shown'[1].rev,
         lang'.question = lang.question \/ lang'.question.state # "accepted"
  PROVE  IInv'
<1>1. /\ passes' = DISPATCH_PASSES_MAX /\ applied' = NothingApplied
      /\ session' = session /\ queue' = queue /\ wire' = wire /\ events' = events
      /\ running' = running /\ issued' = issued /\ orphaned' = orphaned
  BY DEF UserStep, Iterate, clients
<1>2. Identified(lang'.question, issued[1], session[1], queue[1], events)
  BY DEF IInv, Identified, Exact
<1>3. Awaited(lang'.question, issued[1], orphaned, session[1], queue[1], events)
  BY DEF IInv, Awaited
<1>4. applied'.texts \subseteq {applied'.onto}
  BY <1>1 DEF NothingApplied
<1> QED
  BY <1>1, <1>2, <1>3, <1>4 DEF IInv

LEMMA EditKeeps ==
  ASSUME IInv, Edit
  PROVE  IInv'
<1>1. /\ UserStep /\ passes = 0 /\ doc.loaded /\ doc.rev < RevisionMax
      /\ doc' = [doc EXCEPT !.rev = @ + 1]
      /\ lang' = Synchronize(lang, doc.rev, doc.rev + 1) /\ shown' = shown
  BY DEF Edit, MayEdit, UserStep, Iterate
<1>2. IsEditor(doc, lang, 0)
  BY <1>1 DEF IInv
<1>3. /\ IsEditor(doc', lang', DISPATCH_PASSES_MAX) /\ lang'.question = lang.question
      /\ \A c, q, e : Owed(doc, lang, c, q, e) => Owed(doc', lang', c, q, e)
  BY <1>1, <1>2, SynchronizeFacts
<1> QED
  BY <1>1, <1>3, UserKeeps DEF IInv

LEMMA NoSetFacts ==
  ASSUME ServerCount = 1, shown' = [s \in Servers |-> NoSet]
  PROVE  DOMAIN shown' = Servers /\ (shown'[1].pulled => shown'[1].text = shown'[1].rev)
BY OneServer DEF NoSet

LEMMA RewriteKeeps ==
  ASSUME IInv, ServerCount = 1, NEW forget \in BOOLEAN, Rewrite(forget)
  PROVE  IInv'
<1>1. /\ UserStep /\ passes = 0 /\ doc.loaded /\ doc.rev < RevisionMax
      /\ doc' = [doc EXCEPT !.rev = @ + 1]
      /\ lang' = IF lang.resync /\ ~forget THEN lang ELSE MarkResync(lang)
      /\ shown' = IF forget THEN [s \in Servers |-> NoSet] ELSE shown
  BY DEF Rewrite, MayEdit, UserStep, Iterate
<1>2. IsEditor(doc, lang, 0)
  BY <1>1 DEF IInv
<1>3. /\ DOMAIN lang' = {"outbox", "resync", "question"} /\ lang'.resync = TRUE
      /\ lang'.outbox = lang.outbox /\ lang'.question = lang.question
  <2>1. CASE lang.resync /\ ~forget
    BY <1>1, <1>2, <2>1 DEF IsEditor
  <2>2. CASE ~(lang.resync /\ ~forget)
    BY <1>1, <1>2, <2>2, MarkResyncFacts
  <2> QED
    BY <2>1, <2>2
<1>4. doc' \in [rev : Revisions, loaded : BOOLEAN] /\ doc'.loaded
  BY <1>1, <1>2, LanguageAssumption DEF IsEditor, Revisions, LanguageAssumption
<1>5. OutboxInOrder(doc', lang', DISPATCH_PASSES_MAX)
  BY <1>2, <1>3, OutboxFacts DEF OutboxInOrder
<1>6. IsEditor(doc', lang', DISPATCH_PASSES_MAX)
  <2>1. lang'.resync \in BOOLEAN /\ IsQuestion(lang'.question)
    BY <1>2, <1>3 DEF IsEditor
  <2> QED
    BY <1>3, <1>4, <1>5, <2>1, PassesFacts DEF IsEditor
<1>7. Owed(doc', lang', session[1], queue[1], events)
  BY <1>3 DEF Owed
<1>8. DOMAIN shown' = Servers /\ (shown'[1].pulled => shown'[1].text = shown'[1].rev)
  BY <1>1, NoSetFacts DEF IInv
<1> QED
  BY <1>1, <1>3, <1>6, <1>7, <1>8, UserKeeps

LEMMA PairFacts ==
  ASSUME NEW x, NEW y
  PROVE  Append(<<x>>, y) = <<x, y>>
<1>1. <<x>> \in Seq({x, y}) /\ Len(<<x>>) = 1
  OBVIOUS
<1>2. Append(<<x>>, y) \in Seq({x, y}) /\ Len(Append(<<x>>, y)) = 2
  BY <1>1
<1>3. Append(<<x>>, y)[1] = x /\ Append(<<x>>, y)[2] = y
  BY <1>1
<1>4. Append(<<x>>, y) = [i \in 1 .. 2 |-> Append(<<x>>, y)[i]]
  BY <1>2
<1>5. <<x, y>> = [i \in 1 .. 2 |-> <<x, y>>[i]] /\ <<x, y>>[1] = x /\ <<x, y>>[2] = y
  OBVIOUS
<1>6. \A i \in 1 .. 2 : i = 1 \/ i = 2
  OBVIOUS
<1>7. \A i \in 1 .. 2 : Append(<<x>>, y)[i] = <<x, y>>[i]
  BY <1>3, <1>5, <1>6
<1> QED
  BY <1>4, <1>5, <1>7

LEMMA CloseBufferKeeps ==
  ASSUME IInv, ServerCount = 1, CloseBuffer
  PROVE  IInv'
<1> DEFINE l == Forget(lang)
<1>1. /\ UserStep /\ passes = 0 /\ doc.loaded
      /\ doc' = [doc EXCEPT !.loaded = FALSE]
      /\ lang' = [l EXCEPT !.outbox = Append(l.outbox, Close)]
      /\ shown' = [s \in Servers |-> NoSet]
  BY DEF CloseBuffer, UserStep, Iterate, Enqueue
<1>2. IsEditor(doc, lang, 0)
  BY <1>1 DEF IInv
<1>3. /\ DOMAIN l = {"outbox", "resync", "question"} /\ l.outbox = lang.outbox
      /\ l.resync = FALSE /\ l.question = lang.question
  BY <1>2, MarkResyncFacts
<1> HIDE DEF l
<1>4. /\ DOMAIN lang' = {"outbox", "resync", "question"} /\ lang'.resync = FALSE
      /\ lang'.outbox = Append(lang.outbox, Close) /\ lang'.question = lang.question
  BY <1>1, <1>3
<1>5. doc' \in [rev : Revisions, loaded : BOOLEAN] /\ ~doc'.loaded
  BY <1>1, <1>2 DEF IsEditor
<1>6. OutboxInOrder(doc', lang', DISPATCH_PASSES_MAX)
  <2> DEFINE x == QueryOf(lang.question)
  <2>1. CASE lang.question.state # "queued" /\ lang.outbox = <<>>
    <3>1. lang'.outbox = <<Close>>
      BY <1>4, <2>1
    <3> QED
      BY <1>4, <1>5, <2>1, <3>1, PassesFacts DEF OutboxInOrder
  <2>2. CASE lang.question.state = "queued" /\ lang.outbox = <<x>>
    <3>1. lang'.outbox = <<x, Close>>
      <4> HIDE DEF x
      <4>1. Append(<<x>>, Close) = <<x, Close>>
        BY PairFacts
      <4> QED
        BY <1>4, <2>2, <4>1
    <3> QED
      BY <1>4, <1>5, <2>2, <3>1 DEF OutboxInOrder
  <2> QED
    BY <1>2, <2>1, <2>2, OutboxFacts
<1>7. IsEditor(doc', lang', DISPATCH_PASSES_MAX)
  <2>1. lang'.resync \in BOOLEAN /\ IsQuestion(lang'.question)
    BY <1>2, <1>4 DEF IsEditor
  <2> QED
    BY <1>4, <1>5, <1>6, <2>1, PassesFacts DEF IsEditor
<1>8. Owed(doc', lang', session[1], queue[1], events)
  BY <1>5 DEF Owed
<1> QED
  BY <1>1, <1>4, <1>7, <1>8, NoSetFacts, UserKeeps

LEMMA LoadKeeps ==
  ASSUME IInv, Load
  PROVE  IInv'
<1>1. /\ UserStep /\ passes = 0 /\ ~doc.loaded /\ doc.rev < RevisionMax
      /\ doc' = [rev |-> doc.rev + 1, loaded |-> TRUE]
      /\ lang' = MarkResync(lang) /\ shown' = shown
  BY DEF Load, UserStep, Iterate
<1>2. IsEditor(doc, lang, 0)
  BY <1>1 DEF IInv
<1>3. /\ DOMAIN lang' = {"outbox", "resync", "question"} /\ lang'.resync = TRUE
      /\ lang'.outbox = lang.outbox /\ lang'.question = lang.question
  BY <1>1, <1>2, MarkResyncFacts
<1>4. doc' \in [rev : Revisions, loaded : BOOLEAN] /\ doc'.loaded
  BY <1>1, <1>2, LanguageAssumption DEF IsEditor, Revisions, LanguageAssumption
<1>5. OutboxInOrder(doc', lang', DISPATCH_PASSES_MAX)
  BY <1>2, <1>3, OutboxFacts DEF OutboxInOrder
<1>6. IsEditor(doc', lang', DISPATCH_PASSES_MAX)
  <2>1. lang'.resync \in BOOLEAN /\ IsQuestion(lang'.question)
    BY <1>2, <1>3 DEF IsEditor
  <2> QED
    BY <1>3, <1>4, <1>5, <2>1, PassesFacts DEF IsEditor
<1>7. Owed(doc', lang', session[1], queue[1], events)
  BY <1>3 DEF Owed
<1> QED
  BY <1>1, <1>3, <1>6, <1>7, UserKeeps DEF IInv

LEMMA AskKeeps ==
  ASSUME IInv, NEW purpose \in Purposes, Ask(purpose)
  PROVE  IInv'
<1> DEFINE query == Query(purpose, doc.rev, 0)
           question == Queued(purpose, doc.rev)
           l == [lang EXCEPT !.question = question]
<1>1. /\ UserStep /\ passes = 0 /\ doc.loaded /\ lang.question = NoQuestion
      /\ doc' = doc /\ shown' = shown
      /\ lang' = [l EXCEPT !.outbox = Append(l.outbox, query)]
  BY DEF Ask, UserStep, Iterate, Enqueue
<1>2. IsEditor(doc, lang, 0)
  BY <1>1 DEF IInv
<1>3. lang.outbox = <<>>
  BY <1>1, <1>2, OutboxFacts DEF NoQuestion
<1>4. /\ DOMAIN l = {"outbox", "resync", "question"} /\ l.outbox = lang.outbox
      /\ l.resync = lang.resync /\ l.question = question
  BY <1>2 DEF IsEditor
<1> HIDE DEF l
<1>5. /\ DOMAIN lang' = {"outbox", "resync", "question"} /\ lang'.resync = lang.resync
      /\ lang'.outbox = Append(<<>>, query) /\ lang'.question = question
  BY <1>1, <1>3, <1>4
<1>6. /\ question.state = "queued" /\ IsQuestion(question) /\ QueryOf(question) = query
      /\ query.kind = "query"
  BY <1>2 DEF Queued, IsQuestion, QueryOf, Query, IsEditor
<1>7. lang'.outbox = <<query>>
  BY <1>5
<1> HIDE DEF question, query
<1>8. OutboxInOrder(doc', lang', DISPATCH_PASSES_MAX)
  BY <1>5, <1>6, <1>7 DEF OutboxInOrder
<1>9. IsEditor(doc', lang', DISPATCH_PASSES_MAX)
  BY <1>1, <1>2, <1>5, <1>6, <1>8 DEF IsEditor, DISPATCH_PASSES_MAX
<1>10. Target(doc', lang') = Target(doc, lang)
  BY <1>1, <1>3, <1>6, <1>7 DEF Target
<1>11. Owed(doc', lang', session[1], queue[1], events)
  BY <1>1, <1>5, <1>10 DEF IInv, Owed
<1> QED
  BY <1>1, <1>5, <1>6, <1>9, <1>11, UserKeeps DEF IInv

LEMMA UserActionKeeps ==
  ASSUME IInv, ServerCount = 1, UserAction
  PROVE  IInv'
<1>1. CASE OtherOutcome
  <2>1. UserStep /\ passes = 0 /\ doc' = doc /\ lang' = lang /\ shown' = shown
    BY <1>1 DEF OtherOutcome, UserStep, Iterate
  <2>2. IsEditor(doc, lang, 0)
    BY <2>1 DEF IInv
  <2>3. OutboxInOrder(doc, lang, DISPATCH_PASSES_MAX)
    BY <2>2, OutboxFacts DEF OutboxInOrder
  <2>4. IsEditor(doc, lang, DISPATCH_PASSES_MAX)
    BY <2>2, <2>3 DEF IsEditor, DISPATCH_PASSES_MAX
  <2> QED
    BY <2>1, <2>4, UserKeeps DEF IInv
<1> QED
  BY <1>1, EditKeeps, RewriteKeeps, CloseBufferKeeps, LoadKeeps, AskKeeps
     DEF UserAction, AskAtCursor, RequestFormat, Purposes

-----------------------------------------------------------------------------
(* The dispatch. *)

\* A session takes a request that continues what its queue holds.
LEMMA AppendConnection ==
  ASSUME NEW c, NEW q, NEW w, NEW e, IsConnection(c, q, w, e), NEW x \in Requests,
         Len(q) < QueueMax, x.kind = "change" => Arrives(c, q, x.from)
  PROVE  IsConnection(c, Append(q, x), w, e) /\ Items(Append(q, x)) = Items(q) \cup {x}
<1>1. q \in Seq(Requests) /\ Linked(c, q)
  BY DEF IsConnection
<1>2. /\ Append(q, x) \in Seq(Requests) /\ Items(Append(q, x)) = Items(q) \cup {x}
      /\ Len(Append(q, x)) = Len(q) + 1 /\ Len(q) \in Nat
  BY <1>1, AppendFacts
<1>3. Linked(c, Append(q, x))
  BY <1>1, LinkedAppend
<1>4. Len(Append(q, x)) <= QueueMax
  BY <1>2, LanguageAssumption DEF LanguageAssumption
<1> QED
  BY <1>2, <1>3, <1>4 DEF IsConnection

\* Who is asked: every running server, a formatting question the formatter.
LEMMA TargetsFacts ==
  ASSUME IInv, ServerCount = 1, NEW r
  PROVE  /\ Targets(r) = running /\ running \subseteq {1}
         /\ Drifted(r) <=> 1 \in running /\ session[1].state # "ended"
         /\ Takers(r) = {1} <=> Drifted(r) /\ Len(queue[1]) < QueueMax
         /\ Takers(r) # {} <=> Takers(r) = {1}
<1>1. running \subseteq {1}
  BY OneServer DEF IInv
<1>2. Targets(r) = running
  BY <1>1 DEF Targets, Formatter
<1>3. 1 \in running => Min(running) = 1
  <2>1. IsFiniteSet({1})
    BY FS_Singleton
  <2>2. Min({1}) \in {1}
    BY <2>1, LeastIsMember
  <2> QED
    BY <1>1, <2>2
<1>4. Drifted(r) <=> 1 \in running /\ session[1].state # "ended"
  BY <1>1, <1>2, <1>3 DEF Drifted, Ended
<1>5. \A s : s \in Takers(r) <=> s = 1 /\ Drifted(r) /\ Len(queue[1]) < QueueMax
  BY <1>1, <1>2, <1>4 DEF Takers, Ended
<1> QED
  BY <1>1, <1>2, <1>4, <1>5

\* The request that goes out carries the identity that the handle issued.
Stamped(r, n) == IF r.kind = "query" THEN [r EXCEPT !.req = n] ELSE r

\* A request is taken, or nobody takes it: the queue is full, or no session runs.
LEMMA DispatchFacts ==
  ASSUME IInv, ServerCount = 1, Dispatch
  PROVE  /\ passes > 0 /\ (lang.resync \/ lang.outbox # <<>>)
         /\ issued'[1] = IF Request.kind = "query" /\ 1 \in running
                         THEN issued[1] + 1 ELSE issued[1]
         /\ DOMAIN queue' = Servers
         /\ \/ /\ 1 \in running /\ session[1].state # "ended" /\ Len(queue[1]) < QueueMax
               /\ queue'[1] = Append(queue[1], Stamped(Request, issued'[1]))
               /\ lang' = [Taken EXCEPT !.question =
                     IF Request.kind # "query" \/ @ = NoQuestion THEN @
                     ELSE [@ EXCEPT !.state = "accepted",
                                    !.slots = <<[server |-> 1, req |-> issued'[1],
                                                 answer |-> Unanswered]>>]]
               /\ passes' = passes
            \/ /\ queue'[1] = queue[1]
               /\ lang' = Refused(Taken, Request)
               /\ passes' = IF Drifted(Request) THEN passes - 1 ELSE passes
               /\ ~Drifted(Request) => session[1].state = "ended"
         /\ doc' = doc /\ running' = running /\ shown' = shown /\ session' = session
         /\ wire' = wire /\ events' = events /\ orphaned' = orphaned /\ applied' = applied
<1> DEFINE r == Request
           ids == [s \in Servers |-> IF r.kind = "query" /\ s \in Targets(r)
                                     THEN issued[s] + 1 ELSE issued[s]]
           Sent(s) == IF r.kind = "query" THEN [r EXCEPT !.req = ids[s]] ELSE r
<1>1. /\ passes > 0 /\ (lang.resync \/ lang.outbox # <<>>)
      /\ issued' = ids
      /\ queue' = [s \in Servers |->
           IF s \in Takers(r) THEN Append(queue[s], Sent(s)) ELSE queue[s]]
      /\ \/ /\ Takers(r) # {}
            /\ lang' = [Taken EXCEPT !.question = Accepted(@, r, ids)]
            /\ passes' = passes
         \/ /\ Takers(r) = {}
            /\ lang' = Refused(Taken, r)
            /\ passes' = IF Drifted(r) THEN passes - 1 ELSE passes
      /\ doc' = doc /\ running' = running /\ shown' = shown /\ session' = session
      /\ wire' = wire /\ events' = events /\ orphaned' = orphaned /\ applied' = applied
  BY DEF Dispatch
<1>2. /\ Targets(r) = running /\ running \subseteq {1}
      /\ Drifted(r) <=> 1 \in running /\ session[1].state # "ended"
      /\ Takers(r) = {1} <=> Drifted(r) /\ Len(queue[1]) < QueueMax
      /\ Takers(r) # {} <=> Takers(r) = {1}
      /\ Servers = {1}
  BY TargetsFacts, OneServer
<1> HIDE DEF r
<1>3. ids[1] = IF r.kind = "query" /\ 1 \in running THEN issued[1] + 1 ELSE issued[1]
  BY <1>2
<1>4. Sent(1) = Stamped(r, ids[1])
  BY DEF Stamped
<1>5. queue'[1] = IF 1 \in Takers(r) THEN Append(queue[1], Sent(1)) ELSE queue[1]
  BY <1>1, <1>2
<1>6. DOMAIN queue' = Servers
  BY <1>1
<1> HIDE DEF ids, Sent
<1>7. CASE Takers(r) = {1}
  <2> DEFINE slots == <<[server |-> 1, req |-> ids[1], answer |-> Unanswered]>>
  <2>1. [i \in 1 .. Cardinality(Takers(r)) |->
           LET s == Nth(Takers(r), i)
           IN [server |-> s, req |-> ids[s], answer |-> Unanswered]] = slots
    <3>1. [i \in 1 .. Cardinality(Takers(r)) |->
             LET s == Nth(Takers(r), i)
             IN [server |-> s, req |-> ids[s], answer |-> Unanswered]]
          = [i \in 1 .. 1 |-> [server |-> Nth({1}, i), req |-> ids[Nth({1}, i)],
                               answer |-> Unanswered]]
      BY <1>7, NthFacts
    <3>2. \A i \in 1 .. 1 : Nth({1}, i) = 1
      BY NthFacts
    <3>3. [i \in 1 .. 1 |-> [server |-> Nth({1}, i), req |-> ids[Nth({1}, i)],
                             answer |-> Unanswered]]
          = [i \in 1 .. 1 |-> [server |-> 1, req |-> ids[1], answer |-> Unanswered]]
      BY <3>2
    <3>4. \A x : [i \in 1 .. 1 |-> x] = <<x>>
      OBVIOUS
    <3> QED
      BY <3>1, <3>3, <3>4
  <2>2. \A x : Accepted(x, r, ids) =
                 IF r.kind # "query" \/ x = NoQuestion THEN x
                 ELSE [x EXCEPT !.state = "accepted", !.slots = slots]
    BY <2>1 DEF Accepted
  <2>3. lang' = [Taken EXCEPT !.question = Accepted(@, r, ids)] /\ passes' = passes
    BY <1>1, <1>7
  <2> HIDE DEF slots
  <2>4. lang' = [Taken EXCEPT !.question =
                   IF r.kind # "query" \/ @ = NoQuestion THEN @
                   ELSE [@ EXCEPT !.state = "accepted", !.slots = slots]]
    BY <2>2, <2>3
  <2> QED
    BY <1>1, <1>2, <1>3, <1>4, <1>5, <1>6, <1>7, <2>3, <2>4 DEF r, slots
<1>8. CASE Takers(r) = {}
  <2>1. ~Drifted(r) => session[1].state = "ended"
    BY <1>2 DEF IInv
  <2> QED
    BY <1>1, <1>3, <1>5, <1>6, <1>8, <2>1 DEF r
<1> QED
  BY <1>2, <1>7, <1>8
\* A dispatch changes the outbox and the queue of the session.
LEMMA DispatchedKeeps ==
  ASSUME IInv, ServerCount = 1, Dispatch, issued'[1] \in Nat,
         IsEditor(doc, lang', passes'),
         IsConnection(session[1], queue'[1], wire[1], events),
         Owed(doc, lang', session[1], queue'[1], events),
         Identified(lang'.question, issued'[1], session[1], queue'[1], events),
         Awaited(lang'.question, issued'[1], orphaned, session[1], queue'[1], events)
  PROVE  IInv'
<1>1. /\ DOMAIN queue' = Servers
      /\ doc' = doc /\ running' = running /\ shown' = shown /\ session' = session
      /\ wire' = wire /\ events' = events /\ orphaned' = orphaned /\ applied' = applied
  BY DispatchFacts
<1> QED
  BY <1>1 DEF IInv

\* What takes no query: the identities stay.
LEMMA OtherRequestFacts ==
  ASSUME IInv, ServerCount = 1, Dispatch, Request \in Requests, Request.kind # "query",
         lang'.question = lang.question,
         queue'[1] = queue[1] \/ Items(queue'[1]) = Items(queue[1]) \cup {Request}
  PROVE  /\ issued'[1] \in Nat
         /\ Identified(lang'.question, issued'[1], session[1], queue'[1], events)
         /\ Awaited(lang'.question, issued'[1], orphaned, session[1], queue'[1], events)
<1>1. issued'[1] = issued[1] /\ issued[1] \in Nat
  BY DispatchFacts DEF IInv
<1>2. /\ Identified(lang.question, issued[1], session[1], queue[1], events)
      /\ Awaited(lang.question, issued[1], orphaned, session[1], queue[1], events)
  BY DEF IInv
<1>3. Identified(lang.question, issued[1], session[1], queue'[1], events)
  BY <1>2 DEF Identified
<1>4. OnWay(issued[1], session[1], queue[1], events)
        => OnWay(issued[1], session[1], queue'[1], events)
  BY DEF OnWay
<1>5. Awaited(lang.question, issued[1], orphaned, session[1], queue'[1], events)
  BY <1>2, <1>4 DEF Awaited
<1> QED
  BY <1>1, <1>3, <1>5

LEMMA DispatchOpen ==
  ASSUME IInv, ServerCount = 1, Dispatch, lang.resync
  PROVE  IInv'
<1> DEFINE r == Open(doc.rev)
           c == session[1]
           q == queue[1]
<1>1. /\ IsEditor(doc, lang, passes) /\ IsConnection(c, q, wire[1], events) /\ doc.loaded
      /\ DOMAIN lang = {"outbox", "resync", "question"} /\ doc.rev \in Revisions
      /\ IsQuestion(lang.question)
  BY DEF IInv, IsEditor
<1>2. Request = r /\ Taken = [lang EXCEPT !.resync = FALSE]
  BY DEF Request, Taken
<1>3. r \in Requests /\ r.kind = "open" /\ r.rev = doc.rev /\ IsSync(r)
  BY <1>1 DEF Open, Opens, Requests, IsSync
<1>4. /\ DOMAIN Taken = {"outbox", "resync", "question"} /\ Taken.outbox = lang.outbox
      /\ Taken.resync = FALSE /\ Taken.question = lang.question
  BY <1>1, <1>2
<1>5. /\ lang.question.state # "queued" /\ lang.outbox = <<>>
      \/ /\ lang.question.state = "queued" /\ lang.outbox = <<QueryOf(lang.question)>>
         /\ QueryOf(lang.question).kind = "query"
  BY <1>1, OutboxFacts
<1>6. WithoutChanges(lang.outbox) = lang.outbox
  BY <1>5, WithoutChangesFacts
<1>7. Stamped(r, issued'[1]) = r
  BY <1>3 DEF Stamped
<1> HIDE DEF r
<1>8. CASE /\ c.state # "ended" /\ Len(q) < QueueMax
           /\ queue'[1] = Append(q, r) /\ passes' = passes
           /\ lang' = [Taken EXCEPT !.question = @]
  <2>1. /\ DOMAIN lang' = {"outbox", "resync", "question"} /\ lang'.outbox = lang.outbox
        /\ lang'.resync = FALSE /\ lang'.question = lang.question
    BY <1>4, <1>8
  <2>2. IsEditor(doc, lang', passes')
    <3>1. OutboxInOrder(doc, lang', passes')
      BY <1>5, <2>1 DEF OutboxInOrder
    <3>2. passes' # 0 /\ passes' \in 0 .. DISPATCH_PASSES_MAX
      BY <1>1, <1>8, DispatchFacts DEF IsEditor
    <3> QED
      BY <1>1, <2>1, <3>1, <3>2 DEF IsEditor
  <2>3. IsConnection(c, Append(q, r), wire[1], events) /\ Items(Append(q, r)) = Items(q) \cup {r}
    BY <1>1, <1>3, <1>8, AppendConnection
  <2>4. Target(doc, lang') = doc.rev
    BY <1>5, <2>1 DEF Target
  <2>5. Arrives(c, Append(q, r), doc.rev) /\ Opened(c, Append(q, r))
    <3>1. q \in Seq(Requests)
      BY <1>1 DEF IsConnection
    <3> QED
      BY <1>3, <3>1, ArrivesAppend, OpenedAppend
  <2>6. Owed(doc, lang', c, Append(q, r), events)
    BY <2>4, <2>5 DEF Owed
  <2> QED
    BY <1>2, <1>3, <1>8, <2>1, <2>2, <2>3, <2>6, OtherRequestFacts, DispatchedKeeps
<1>9. CASE /\ queue'[1] = q /\ lang' = Refused(Taken, r)
           /\ passes' = IF Drifted(r) THEN passes - 1 ELSE passes
           /\ ~Drifted(r) => c.state = "ended"
  <2>1. /\ DOMAIN lang' = {"outbox", "resync", "question"} /\ lang'.outbox = lang.outbox
        /\ lang'.resync = Drifted(r) /\ lang'.question = lang.question
    <3>1. CASE Drifted(r)
      <4>1. lang' = [Taken EXCEPT !.outbox = WithoutChanges(@), !.resync = TRUE]
        BY <1>3, <1>9, <3>1 DEF Refused, MarkResync
      <4> QED
        BY <1>4, <1>6, <3>1, <4>1
    <3>2. CASE ~Drifted(r)
      <4>1. lang' = Taken
        BY <1>3, <1>9, <3>2 DEF Refused
      <4>2. Drifted(r) = FALSE
        BY <3>2 DEF Drifted
      <4> QED
        BY <1>4, <4>1, <4>2
    <3> QED
      BY <3>1, <3>2
  <2>2. IsEditor(doc, lang', passes')
    <3>1. OutboxInOrder(doc, lang', passes')
      BY <1>5, <2>1 DEF OutboxInOrder
    <3>2. passes \in 0 .. DISPATCH_PASSES_MAX /\ passes > 0
      BY <1>1, DispatchFacts DEF IsEditor
    <3>3. passes' \in 0 .. DISPATCH_PASSES_MAX /\ (passes' = 0 => lang'.resync)
      BY <1>9, <2>1, <3>2 DEF DISPATCH_PASSES_MAX
    <3>4. lang'.resync \in BOOLEAN
      BY <2>1 DEF Drifted
    <3> QED
      BY <1>1, <2>1, <3>1, <3>3, <3>4 DEF IsEditor
  <2>3. Owed(doc, lang', c, q, events)
    BY <1>9, <2>1 DEF Owed
  <2> QED
    BY <1>1, <1>2, <1>3, <1>9, <2>1, <2>2, <2>3, OtherRequestFacts, DispatchedKeeps
<1> QED
  BY <1>2, <1>3, <1>7, <1>8, <1>9, DispatchFacts

LEMMA HeadFacts ==
  ASSUME NEW x, NEW y
  PROVE  /\ Head(<<x>>) = x /\ Tail(<<x>>) = <<>>
         /\ Head(<<x, y>>) = x /\ Tail(<<x, y>>) = <<y>>
<1>1. Head(<<x>>) = x /\ Tail(<<x>>) = <<>> /\ Head(<<x, y>>) = x
  OBVIOUS
<1>2. <<x, y>> \in Seq({x, y}) /\ Len(<<x, y>>) = 2 /\ <<x, y>>[2] = y /\ <<x, y>> # <<>>
  OBVIOUS
<1>3. Tail(<<x, y>>) \in Seq({x, y}) /\ Len(Tail(<<x, y>>)) = 1 /\ Tail(<<x, y>>)[1] = y
  BY <1>2
<1>4. \A t \in Seq({x, y}) : Len(t) = 1 /\ t[1] = y => t = <<y>>
  OBVIOUS
<1> QED
  BY <1>1, <1>3, <1>4

LEMMA DispatchChange ==
  ASSUME IInv, ServerCount = 1, Dispatch, ~lang.resync, NEW from \in Revisions,
         from < doc.rev, lang.outbox = <<Change(from, doc.rev)>>, doc.loaded,
         lang.question.state # "queued", passes = DISPATCH_PASSES_MAX
  PROVE  IInv'
<1> DEFINE r == Change(from, doc.rev)
           c == session[1]
           q == queue[1]
<1>1. /\ IsEditor(doc, lang, passes) /\ IsConnection(c, q, wire[1], events)
      /\ DOMAIN lang = {"outbox", "resync", "question"} /\ doc.rev \in Revisions
      /\ IsQuestion(lang.question) /\ Owed(doc, lang, c, q, events)
      /\ lang.resync = FALSE
  BY DEF IInv, IsEditor
<1>2. /\ Request = r /\ Taken = [lang EXCEPT !.outbox = <<>>]
      /\ lang.outbox[1] = r /\ lang.outbox # <<>>
  <2> HIDE DEF r
  <2>1. lang.outbox = <<r>>
    BY DEF r
  <2>2. Head(<<r>>) = r /\ Tail(<<r>>) = <<>>
    BY HeadFacts
  <2> QED
    BY <2>1, <2>2 DEF Request, Taken
<1>3. r \in Requests /\ r.kind = "change" /\ r.from = from /\ r.rev = doc.rev /\ IsSync(r)
  BY <1>1 DEF Change, Changes, Requests, IsSync
<1>4. /\ DOMAIN Taken = {"outbox", "resync", "question"} /\ Taken.outbox = <<>>
      /\ Taken.resync = lang.resync /\ Taken.question = lang.question
  BY <1>1, <1>2
<1>5. Stamped(r, issued'[1]) = r
  BY <1>3 DEF Stamped
<1>6. Target(doc, lang) = from
  BY <1>2, <1>3 DEF Target
<1> HIDE DEF r
<1>7. CASE /\ c.state # "ended" /\ Len(q) < QueueMax
           /\ queue'[1] = Append(q, r) /\ passes' = passes
           /\ lang' = [Taken EXCEPT !.question = @]
  <2>1. /\ DOMAIN lang' = {"outbox", "resync", "question"} /\ lang'.outbox = <<>>
        /\ lang'.resync = lang.resync /\ lang'.question = lang.question
    BY <1>4, <1>7
  <2>2. IsEditor(doc, lang', passes')
    BY <1>1, <1>7, <2>1 DEF IsEditor, OutboxInOrder
  <2>3. /\ Arrives(c, q, from)
        /\ c.state \in {"starting", "serving"} => Opened(c, q) \/ Restarted(1) \in Items(events)
    BY <1>1, <1>6, <1>7 DEF Owed
  <2>4. IsConnection(c, Append(q, r), wire[1], events) /\ Items(Append(q, r)) = Items(q) \cup {r}
    BY <1>1, <1>3, <1>7, <2>3, AppendConnection
  <2>5. Target(doc, lang') = doc.rev
    BY <2>1 DEF Target
  <2>6. Arrives(c, Append(q, r), doc.rev) /\ (Opened(c, q) => Opened(c, Append(q, r)))
    <3>1. q \in Seq(Requests)
      BY <1>1 DEF IsConnection
    <3> QED
      BY <1>3, <3>1, ArrivesAppend, OpenedAppend
  <2>7. Owed(doc, lang', c, Append(q, r), events)
    BY <2>3, <2>5, <2>6 DEF Owed
  <2> QED
    BY <1>2, <1>3, <1>7, <2>1, <2>2, <2>4, <2>7, OtherRequestFacts, DispatchedKeeps
<1>8. CASE /\ queue'[1] = q /\ lang' = Refused(Taken, r)
           /\ passes' = IF Drifted(r) THEN passes - 1 ELSE passes
           /\ ~Drifted(r) => c.state = "ended"
  <2>1. /\ DOMAIN lang' = {"outbox", "resync", "question"} /\ lang'.outbox = <<>>
        /\ lang'.resync = Drifted(r) /\ lang'.question = lang.question
    <3>1. CASE Drifted(r)
      <4>1. lang' = [Taken EXCEPT !.outbox = WithoutChanges(@), !.resync = TRUE]
        BY <1>3, <1>8, <3>1 DEF Refused, MarkResync
      <4> QED
        BY <1>4, <3>1, <4>1, WithoutChangesFacts
    <3>2. CASE ~Drifted(r)
      <4>1. lang' = Taken
        BY <1>3, <1>8, <3>2 DEF Refused
      <4>2. Drifted(r) = FALSE
        BY <3>2 DEF Drifted
      <4> QED
        BY <1>1, <1>4, <4>1, <4>2
    <3> QED
      BY <3>1, <3>2
  <2>2. IsEditor(doc, lang', passes')
    <3>1. OutboxInOrder(doc, lang', passes')
      BY <2>1 DEF OutboxInOrder
    <3>2. passes' \in 0 .. DISPATCH_PASSES_MAX
      BY <1>8 DEF DISPATCH_PASSES_MAX
    <3>3. lang'.resync \in BOOLEAN
      BY <2>1 DEF Drifted
    <3> QED
      BY <1>1, <2>1, <3>1, <3>2, <3>3 DEF IsEditor
  <2>3. Owed(doc, lang', c, q, events)
    BY <1>8, <2>1 DEF Owed
  <2> QED
    BY <1>1, <1>2, <1>3, <1>8, <2>1, <2>2, <2>3, OtherRequestFacts, DispatchedKeeps
<1> QED
  BY <1>2, <1>3, <1>5, <1>7, <1>8, DispatchFacts

LEMMA DispatchClose ==
  ASSUME IInv, ServerCount = 1, Dispatch, ~lang.resync, lang.outbox = <<Close>>,
         ~doc.loaded, lang.question.state # "queued"
  PROVE  IInv'
<1> DEFINE c == session[1]
           q == queue[1]
<1>1. /\ IsEditor(doc, lang, passes) /\ IsConnection(c, q, wire[1], events)
      /\ DOMAIN lang = {"outbox", "resync", "question"}
      /\ IsQuestion(lang.question)
  BY DEF IInv, IsEditor
<1>2. Request = Close /\ Taken = [lang EXCEPT !.outbox = <<>>]
  BY HeadFacts DEF Request, Taken
<1>3. Close \in Requests /\ Close.kind = "close"
  BY DEF Close, Requests
<1>4. /\ DOMAIN Taken = {"outbox", "resync", "question"} /\ Taken.outbox = <<>>
      /\ Taken.resync = lang.resync /\ Taken.question = lang.question
  BY <1>1, <1>2
<1>5. Stamped(Close, issued'[1]) = Close
  BY <1>3 DEF Stamped
<1>6. /\ DOMAIN lang' = {"outbox", "resync", "question"} /\ lang'.outbox = <<>>
      /\ lang'.resync = lang.resync /\ lang'.question = lang.question
  <2>1. \/ lang' = [Taken EXCEPT !.question = @]
        \/ lang' = Refused(Taken, Close)
    BY <1>2, <1>3, DispatchFacts
  <2>2. Refused(Taken, Close) = Taken
    BY <1>3 DEF Refused
  <2> QED
    BY <1>4, <2>1, <2>2
<1>7. IsEditor(doc, lang', passes')
  <2>1. OutboxInOrder(doc, lang', passes')
    BY <1>6 DEF OutboxInOrder
  <2>2. passes \in 0 .. DISPATCH_PASSES_MAX /\ passes > 0
    BY <1>1, DispatchFacts DEF IsEditor
  <2>3. passes' = passes \/ passes' = passes - 1
    BY DispatchFacts
  <2>4. passes' \in 0 .. DISPATCH_PASSES_MAX
    BY <2>2, <2>3 DEF DISPATCH_PASSES_MAX
  <2> QED
    BY <1>1, <1>6, <2>1, <2>4 DEF IsEditor
<1>8. Owed(doc, lang', c, queue'[1], events)
  BY DEF Owed
<1>9. CASE Len(q) < QueueMax /\ queue'[1] = Append(q, Close)
  <2>1. /\ IsConnection(c, Append(q, Close), wire[1], events)
        /\ Items(Append(q, Close)) = Items(q) \cup {Close}
    BY <1>1, <1>3, <1>9, AppendConnection
  <2> QED
    BY <1>2, <1>3, <1>6, <1>7, <1>8, <1>9, <2>1, OtherRequestFacts, DispatchedKeeps
<1>10. CASE queue'[1] = q
  BY <1>1, <1>2, <1>3, <1>6, <1>7, <1>8, <1>10, OtherRequestFacts, DispatchedKeeps
<1> QED
  BY <1>2, <1>5, <1>9, <1>10, DispatchFacts

\* The newest identity is above every other one.
LEMMA NewestFacts ==
  ASSUME IInv, NEW question, NEW k \in Nat, k = issued[1] + 1
  PROVE  /\ \A x \in Items(queue[1]) : x.kind = "query" => Exact(x, question, k)
         /\ \A p \in session[1].pending : p.req # 0 => Exact(p, question, k)
         /\ \A x \in Items(events) : x.kind = "answer" => Exact(x, question, k)
<1>1. issued[1] \in Nat /\ issued[1] < k
  BY DEF IInv
<1>2. /\ \A x \in Items(queue[1]) : x.kind = "query" => x.req \in Nat
      /\ \A p \in session[1].pending : p.req \in Nat
      /\ \A x \in Items(events) : x.kind = "answer" => x.req \in Nat
  <2>1. queue[1] \in Seq(Requests) /\ events \in Seq(Results) /\ IsClient(session[1])
    BY DEF IInv, IsConnection
  <2>2. Items(queue[1]) \subseteq Requests /\ Items(events) \subseteq Results
    BY <2>1, JoinFacts
  <2>3. \A p \in session[1].pending : p.req \in Nat
    BY <2>1 DEF IsClient, Pending
  <2> QED
    BY <2>2, <2>3, KindFacts
<1>3. /\ \A x \in Items(queue[1]) : x.kind = "query" => x.req <= issued[1]
      /\ \A p \in session[1].pending : p.req # 0 => p.req <= issued[1]
      /\ \A x \in Items(events) : x.kind = "answer" => x.req <= issued[1]
  BY DEF IInv, Identified, Exact
<1>4. \A n \in Nat : n <= issued[1] => n <= k /\ n # k
  BY <1>1
<1> QED
  BY <1>2, <1>3, <1>4 DEF Exact

LEMMA DispatchQuery ==
  ASSUME IInv, ServerCount = 1, Dispatch, ~lang.resync, lang.question.state = "queued",
         \/ lang.outbox = <<QueryOf(lang.question)>>
         \/ /\ lang.outbox = <<QueryOf(lang.question), Close>> /\ ~doc.loaded
            /\ passes = DISPATCH_PASSES_MAX
  PROVE  IInv'
<1> DEFINE r == QueryOf(lang.question)
           c == session[1]
           q == queue[1]
           k == issued'[1]
           rest == Tail(lang.outbox)
<1>1. /\ IsEditor(doc, lang, passes) /\ IsConnection(c, q, wire[1], events)
      /\ DOMAIN lang = {"outbox", "resync", "question"} /\ lang.resync = FALSE
      /\ IsQuestion(lang.question) /\ Owed(doc, lang, c, q, events)
      /\ Identified(lang.question, issued[1], c, q, events) /\ issued[1] \in Nat
      /\ passes \in 0 .. DISPATCH_PASSES_MAX /\ passes > 0
  BY DispatchFacts DEF IInv, IsEditor
<1>2. /\ lang.question # NoQuestion
      /\ DOMAIN lang.question = {"state", "purpose", "rev", "slots"}
      /\ lang.question.purpose \in Purposes /\ lang.question.rev \in Revisions
  BY <1>1 DEF IsQuestion, NoQuestion
<1>3. /\ Head(lang.outbox) = r /\ lang.outbox[1] = r
      /\ rest = <<>> \/ (rest = <<Close>> /\ ~doc.loaded /\ passes = DISPATCH_PASSES_MAX)
  <2> HIDE DEF r
  <2>1. \A x, y : <<x>>[1] = x /\ <<x, y>>[1] = x
    OBVIOUS
  <2>2. CASE lang.outbox = <<r>>
    BY <2>1, <2>2, HeadFacts
  <2>3. CASE /\ lang.outbox = <<r, Close>> /\ ~doc.loaded
             /\ passes = DISPATCH_PASSES_MAX
    BY <2>1, <2>3, HeadFacts
  <2> QED
    BY <2>2, <2>3 DEF r
<1>4. Request = r /\ Taken = [lang EXCEPT !.outbox = rest]
  BY <1>1, <1>3 DEF Request, Taken
<1>5. /\ r.kind = "query" /\ r.purpose = lang.question.purpose /\ r.rev = lang.question.rev
      /\ DOMAIN r = {"kind", "purpose", "rev", "req"}
  BY DEF QueryOf, Query
<1> HIDE DEF r, rest
<1>6. /\ DOMAIN Taken = {"outbox", "resync", "question"} /\ Taken.outbox = rest
      /\ Taken.resync = FALSE /\ Taken.question = lang.question
  BY <1>1, <1>4
<1>7. rest = <<>> \/ rest[1].kind # "change"
  <2>1. <<Close>>[1] = Close /\ Close.kind = "close"
    BY DEF Close
  <2> QED
    BY <1>3, <2>1
<1>8. k \in Nat /\ issued[1] <= k
  BY <1>1, DispatchFacts
<1>9. CASE /\ 1 \in running /\ Len(q) < QueueMax
           /\ queue'[1] = Append(q, Stamped(r, k)) /\ passes' = passes
           /\ lang' = [Taken EXCEPT !.question =
                 [@ EXCEPT !.state = "accepted",
                           !.slots = <<[server |-> 1, req |-> k, answer |-> Unanswered]>>]]
  <2> DEFINE x == Stamped(r, k)
             slots == <<[server |-> 1, req |-> k, answer |-> Unanswered]>>
             question == [lang.question EXCEPT !.state = "accepted", !.slots = slots]
  <2>1. k = issued[1] + 1
    BY <1>4, <1>5, <1>9, DispatchFacts
  <2>2. /\ DOMAIN question = {"state", "purpose", "rev", "slots"}
        /\ question.state = "accepted" /\ question.purpose = r.purpose
        /\ question.rev = r.rev /\ question.slots = slots
    <3> HIDE DEF slots
    <3> QED
      BY <1>2, <1>5
  <2>3. lang' = [Taken EXCEPT !.question = question]
    BY <1>6, <1>9
  <2> HIDE DEF question, slots
  <2>4. /\ DOMAIN lang' = {"outbox", "resync", "question"} /\ lang'.outbox = rest
        /\ lang'.resync = FALSE /\ lang'.question = question
    BY <1>6, <2>3
  <2>5. x = [r EXCEPT !.req = k]
    BY <1>5 DEF Stamped
  <2>6. /\ x \in Requests /\ x.kind = "query" /\ x.req = k /\ x.purpose = r.purpose
        /\ x.rev = r.rev /\ ~IsSync(x)
    <3>1. r = Query(lang.question.purpose, lang.question.rev, 0)
      BY DEF r, QueryOf
    <3>2. x = Query(lang.question.purpose, lang.question.rev, k)
      BY <2>5, <3>1 DEF Query
    <3> HIDE DEF x
    <3>3. /\ x \in Queries /\ x.kind = "query" /\ x.req = k /\ x.purpose = lang.question.purpose
          /\ x.rev = lang.question.rev
      BY <1>2, <1>8, <3>2 DEF Query, Queries
    <3> QED
      BY <1>5, <3>3 DEF Requests, IsSync
  <2> HIDE DEF x
  <2>7. queue'[1] = Append(q, x)
    BY <1>9 DEF x
  <2>8. IsConnection(c, Append(q, x), wire[1], events) /\ Items(Append(q, x)) = Items(q) \cup {x}
    BY <1>1, <1>9, <2>6, AppendConnection
  <2>9. IsEditor(doc, lang', passes')
    <3>1. OutboxInOrder(doc, lang', passes')
      BY <1>1, <1>3, <1>9, <2>2, <2>4 DEF OutboxInOrder
    <3>2. IsQuestion(lang'.question)
      BY <1>2, <1>5, <2>2, <2>4 DEF IsQuestion
    <3>3. passes' # 0 /\ passes' \in 0 .. DISPATCH_PASSES_MAX
      BY <1>1, <1>9
    <3> QED
      BY <1>1, <2>4, <3>1, <3>2, <3>3 DEF IsEditor
  <2>10. Target(doc, lang') = Target(doc, lang)
    BY <1>3, <1>5, <1>7, <2>4 DEF Target
  <2>11. /\ \A t : Arrives(c, q, t) => Arrives(c, Append(q, x), t)
         /\ Opened(c, q) => Opened(c, Append(q, x))
    <3>1. q \in Seq(Requests)
      BY <1>1 DEF IsConnection
    <3> QED
      BY <2>6, <3>1, ArrivesAppend, OpenedAppend
  <2>12. Owed(doc, lang', c, Append(q, x), events)
    BY <1>1, <2>4, <2>10, <2>11 DEF Owed
  <2>13. Identified(question, k, c, Append(q, x), events)
    <3>1. Exact(x, question, k)
      BY <1>8, <2>2, <2>6 DEF Exact
    <3> QED
      BY <1>8, <2>1, <2>8, <3>1, NewestFacts DEF Identified
  <2>14. Awaited(question, k, orphaned, c, Append(q, x), events)
    <3>1. k # 0
      BY <1>1, <2>1
    <3>2. OnWay(k, c, Append(q, x), events)
      BY <2>6, <2>8 DEF OnWay
    <3> QED
      BY <2>2, <3>1, <3>2 DEF Awaited, slots
  <2> QED
    BY <1>8, <2>4, <2>7, <2>8, <2>9, <2>12, <2>13, <2>14, DispatchedKeeps
<1>10. CASE /\ queue'[1] = q /\ lang' = Refused(Taken, r)
            /\ passes' = IF Drifted(r) THEN passes - 1 ELSE passes
  <2>1. lang' = [Taken EXCEPT !.question = NoQuestion]
    BY <1>5, <1>10 DEF Refused
  <2>2. /\ DOMAIN lang' = {"outbox", "resync", "question"} /\ lang'.outbox = rest
        /\ lang'.resync = FALSE /\ lang'.question = NoQuestion
    BY <1>6, <2>1
  <2>3. NoQuestion.state = "none"
    BY DEF NoQuestion
  <2>4. IsEditor(doc, lang', passes')
    <3>1. /\ passes' \in 0 .. DISPATCH_PASSES_MAX
          /\ passes = DISPATCH_PASSES_MAX => passes' > 0
      BY <1>1, <1>10 DEF DISPATCH_PASSES_MAX
    <3>2. OutboxInOrder(doc, lang', passes')
      BY <1>3, <2>2, <2>3, <3>1 DEF OutboxInOrder
    <3>3. passes' = 0 => lang'.outbox = <<>>
      BY <1>3, <2>2, <3>1
    <3> QED
      BY <1>1, <2>2, <3>1, <3>2, <3>3 DEF IsEditor, IsQuestion
  <2>5. Target(doc, lang') = Target(doc, lang)
    BY <1>3, <1>5, <1>7, <2>2 DEF Target
  <2>6. Owed(doc, lang', c, q, events)
    BY <1>1, <2>2, <2>5 DEF Owed
  <2>7. Identified(NoQuestion, k, c, q, events)
    <3>1. CASE k = issued[1]
      BY <1>1, <2>3, <3>1 DEF Identified, Exact
    <3>2. CASE k = issued[1] + 1
      BY <1>8, <3>2, NewestFacts DEF Identified
    <3> QED
      BY <3>1, <3>2, DispatchFacts
  <2>8. Awaited(NoQuestion, k, orphaned, c, q, events)
    BY <2>3 DEF Awaited
  <2> QED
    BY <1>1, <1>8, <1>10, <2>2, <2>4, <2>6, <2>7, <2>8, DispatchedKeeps
<1>11. \/ /\ 1 \in running /\ Len(q) < QueueMax
          /\ queue'[1] = Append(q, Stamped(r, k)) /\ passes' = passes
          /\ lang' = [Taken EXCEPT !.question =
                IF r.kind # "query" \/ @ = NoQuestion THEN @
                ELSE [@ EXCEPT !.state = "accepted",
                               !.slots = <<[server |-> 1, req |-> k, answer |-> Unanswered]>>]]
       \/ /\ queue'[1] = q /\ lang' = Refused(Taken, r)
          /\ passes' = IF Drifted(r) THEN passes - 1 ELSE passes
  BY <1>4, DispatchFacts
<1> QED
  BY <1>2, <1>5, <1>6, <1>9, <1>10, <1>11

LEMMA DispatchKeeps ==
  ASSUME IInv, ServerCount = 1, Dispatch
  PROVE  IInv'
<1>1. lang.resync \/ lang.outbox # <<>>
  BY DispatchFacts
<1>2. IsEditor(doc, lang, passes) /\ OutboxInOrder(doc, lang, passes)
  BY DEF IInv, IsEditor
<1>3. CASE lang.resync
  BY <1>3, DispatchOpen
<1>4. CASE ~lang.resync
  BY <1>1, <1>2, <1>4, DispatchChange, DispatchClose, DispatchQuery DEF OutboxInOrder
<1> QED
  BY <1>3, <1>4

LEMMA DispatchEndsKeeps ==
  ASSUME IInv, DispatchEnds
  PROVE  IInv'
<1>1. /\ ~lang.resync /\ lang.outbox = <<>> /\ passes' = 0 /\ applied' = NothingApplied
      /\ doc' = doc /\ lang' = lang /\ running' = running /\ shown' = shown
      /\ session' = session /\ queue' = queue /\ wire' = wire /\ events' = events
      /\ issued' = issued /\ orphaned' = orphaned
  BY DEF DispatchEnds, clients
<1>2. IsEditor(doc, lang, 0)
  <2>1. IsEditor(doc, lang, passes)
    BY DEF IInv
  <2>2. OutboxInOrder(doc, lang, 0)
    <3>1. \A x, y : <<x>> # <<>> /\ <<x, y>> # <<>>
      OBVIOUS
    <3> QED
      BY <1>1, <2>1, <3>1 DEF IsEditor, OutboxInOrder
  <2>3. 0 \in 0 .. DISPATCH_PASSES_MAX
    BY DEF DISPATCH_PASSES_MAX
  <2> QED
    BY <1>1, <2>1, <2>2, <2>3 DEF IsEditor
<1>3. applied'.texts \subseteq {applied'.onto}
  BY <1>1 DEF NothingApplied
<1> QED
  BY <1>1, <1>2, <1>3 DEF IInv

-----------------------------------------------------------------------------
(* The results of the session. *)

\* The question that is answered, or given up, is complete.
LEMMA SlotFacts ==
  ASSUME IInv, lang.question.state = "accepted"
  PROVE  /\ issued[1] \in Nat \ {0}
         /\ \A req : Owns(lang.question, req) <=> req = issued[1]
         /\ \A a : a # Unanswered =>
              LET q == Resolve(lang.question, issued[1], a)
              IN /\ Complete(q) /\ Texts(q) = {a} \ {Empty}
                 /\ q.purpose = lang.question.purpose /\ q.rev = lang.question.rev
         /\ LET q == Abandon(lang.question, 1)
            IN /\ Complete(q) /\ Texts(q) = {}
               /\ q.purpose = lang.question.purpose /\ q.rev = lang.question.rev
<1> DEFINE question == lang.question
           k == issued[1]
           slot == [server |-> 1, req |-> k, answer |-> Unanswered]
<1>1. /\ k \in Nat \ {0} /\ question.slots = <<slot>>
      /\ DOMAIN question = {"state", "purpose", "rev", "slots"}
  BY DEF IInv, Awaited, IsEditor, IsQuestion, NoQuestion
<1>2. /\ DOMAIN question.slots = {1} /\ question.slots[1] = slot
      /\ \A x : DOMAIN <<x>> = {1} /\ <<x>>[1] = x
  BY <1>1
<1>3. slot.server = 1 /\ slot.req = k /\ slot.answer = Unanswered
      /\ DOMAIN slot = {"server", "req", "answer"}
  OBVIOUS
<1> HIDE DEF slot
<1>4. \A req : Owns(question, req) <=> req = k
  BY <1>2, <1>3 DEF Owns
<1>5. Empty # Unanswered
  BY DEF Empty, Unanswered
<1>6. ASSUME NEW q, NEW a, a # Unanswered, DOMAIN q.slots = {1}, q.slots[1].answer = a
      PROVE  Complete(q) /\ Texts(q) = {a} \ {Empty}
  BY <1>6 DEF Complete, Texts
<1>7. ASSUME NEW a, a # Unanswered
      PROVE  LET q == Resolve(question, k, a)
             IN /\ Complete(q) /\ Texts(q) = {a} \ {Empty}
                /\ q.purpose = question.purpose /\ q.rev = question.rev
  <2> DEFINE q == Resolve(question, k, a)
             answered == [slot EXCEPT !.answer = a]
  <2>1. {i \in DOMAIN question.slots : question.slots[i].req = k} = {1}
    BY <1>2, <1>3
  <2>2. Min({1}) = 1
    <3>1. IsFiniteSet({1})
      BY FS_Singleton
    <3>2. Min({1}) \in {1}
      BY <3>1, LeastIsMember
    <3> QED
      BY <3>2
  <2>3. q = [question EXCEPT !.slots = [question.slots EXCEPT ![1] = answered]]
    <3> DEFINE n == Min({i \in DOMAIN question.slots : question.slots[i].req = k})
    <3>1. n = 1
      BY <2>1, <2>2
    <3>2. q = IF question.slots[n].answer = Unanswered
              THEN [question EXCEPT !.slots =
                      [question.slots EXCEPT ![n] = [question.slots[n] EXCEPT !.answer = a]]]
              ELSE question
      BY DEF Resolve
    <3> HIDE DEF n, q
    <3> QED
      BY <1>2, <1>3, <3>1, <3>2
  <2>4. answered.answer = a
    BY <1>3
  <2> HIDE DEF q, answered
  <2>5. q.slots = [question.slots EXCEPT ![1] = answered]
        /\ q.purpose = question.purpose /\ q.rev = question.rev
    BY <1>1, <2>3
  <2>6. DOMAIN q.slots = {1} /\ q.slots[1] = answered
    BY <1>2, <2>5
  <2>7. Complete(q) /\ Texts(q) = {a} \ {Empty}
    BY <1>6, <1>7, <2>4, <2>6
  <2> QED
    BY <2>5, <2>7 DEF q
<1>8. LET q == Abandon(question, 1)
      IN /\ Complete(q) /\ Texts(q) = {}
         /\ q.purpose = question.purpose /\ q.rev = question.rev
  <2> DEFINE q == Abandon(question, 1)
             given == [slot EXCEPT !.answer = Empty]
             slots == [i \in DOMAIN question.slots |->
                         IF question.slots[i].server = 1
                              /\ question.slots[i].answer = Unanswered
                         THEN [question.slots[i] EXCEPT !.answer = Empty]
                         ELSE question.slots[i]]
  <2>1. q = [question EXCEPT !.slots = slots]
    BY DEF Abandon
  <2>2. given.answer = Empty
    BY <1>3
  <2>3. DOMAIN slots = {1} /\ slots[1] = given
    BY <1>2, <1>3
  <2> HIDE DEF q, given, slots
  <2>4. q.slots = slots /\ q.purpose = question.purpose /\ q.rev = question.rev
    BY <1>1, <2>1
  <2>5. Complete(q) /\ Texts(q) = {Empty} \ {Empty}
    BY <1>5, <1>6, <2>2, <2>3, <2>4
  <2> QED
    BY <2>4, <2>5 DEF q
<1> QED
  BY <1>1, <1>4, <1>7, <1>8

\* The release of a question, with the edits of its answer or without.
LEMMA FinishFacts ==
  ASSUME NEW n, IsEditor(doc, lang, n), n = 0, lang.question.state = "accepted", NEW q, NEW a,
         Texts(q) = {a} \ {Empty},
         a # Empty /\ (q.purpose = "hover" \/ q.rev = doc.rev) => a = doc.rev,
         Finish(q)
  PROVE  /\ IsEditor(doc', lang', DISPATCH_PASSES_MAX) /\ lang'.question = NoQuestion
         /\ \A c, x, e : Owed(doc, lang, c, x, e) => Owed(doc', lang', c, x, e)
         /\ applied'.texts \subseteq {applied'.onto}
<1> DEFINE released == [lang EXCEPT !.question = NoQuestion]
<1>1. /\ lang.outbox = <<>> /\ IsEditor(doc, lang, 0)
      /\ DOMAIN lang = {"outbox", "resync", "question"} /\ lang.resync \in BOOLEAN
  BY OutboxFacts DEF IsEditor
<1>2. /\ DOMAIN released = {"outbox", "resync", "question"} /\ released.outbox = <<>>
      /\ released.resync = lang.resync /\ released.question = NoQuestion
      /\ NoQuestion.state = "none"
  BY <1>1 DEF NoQuestion
<1>3. /\ applied' = IF Texts(q) # {} /\ (q.purpose = "hover" \/ Formats(q))
                    THEN [texts |-> Texts(q), onto |-> doc.rev] ELSE NothingApplied
      /\ \/ /\ Formats(q) /\ MayEdit
            /\ doc' = [doc EXCEPT !.rev = @ + 1]
            /\ lang' = Synchronize(released, doc.rev, doc.rev + 1)
         \/ lang' = released /\ doc' = doc
  BY DEF Finish
<1> HIDE DEF released
<1>4. IsEditor(doc, released, 0) /\ IsEditor(doc, released, DISPATCH_PASSES_MAX)
  <2>1. OutboxInOrder(doc, released, 0) /\ OutboxInOrder(doc, released, DISPATCH_PASSES_MAX)
    BY <1>2 DEF OutboxInOrder
  <2> QED
    BY <1>1, <1>2, <2>1, PassesFacts DEF IsEditor, IsQuestion
<1>5. \A c, x, e : Owed(doc, lang, c, x, e) => Owed(doc, released, c, x, e)
  BY <1>1, <1>2 DEF Owed, Target
<1>6. applied'.texts \subseteq {applied'.onto}
  <2>1. CASE Texts(q) # {} /\ (q.purpose = "hover" \/ Formats(q))
    <3>1. Texts(q) = {a} /\ a = doc.rev
      BY <2>1 DEF Formats
    <3> QED
      BY <1>3, <2>1, <3>1
  <2>2. CASE ~(Texts(q) # {} /\ (q.purpose = "hover" \/ Formats(q)))
    BY <1>3, <2>2 DEF NothingApplied
  <2> QED
    BY <2>1, <2>2
<1>7. CASE lang' = released /\ doc' = doc
  BY <1>2, <1>4, <1>5, <1>6, <1>7
<1>8. CASE /\ MayEdit /\ doc' = [doc EXCEPT !.rev = @ + 1]
           /\ lang' = Synchronize(released, doc.rev, doc.rev + 1)
  <2>1. doc.loaded /\ doc.rev < RevisionMax
    BY <1>8 DEF MayEdit
  <2>2. /\ IsEditor(doc', lang', DISPATCH_PASSES_MAX) /\ lang'.question = released.question
        /\ \A c, x, e : Owed(doc, released, c, x, e) => Owed(doc', lang', c, x, e)
    BY <1>4, <1>8, <2>1, SynchronizeFacts
  <2> QED
    BY <1>2, <1>5, <1>6, <2>2
<1> QED
  BY <1>3, <1>7, <1>8

\* A result leaves the queue.
LEMMA ResultFacts ==
  ASSUME IInv, NEW kind, Result(kind)
  PROVE  /\ passes = 0 /\ passes' = DISPATCH_PASSES_MAX
         /\ session' = session /\ queue' = queue /\ wire' = wire /\ issued' = issued
         /\ Result1 \in Results /\ Result1.kind = kind
         /\ events' \in Seq(Results) /\ Len(events') <= EventsMax
         /\ Items(events) = {Result1} \cup Items(events')
<1>1. /\ passes = 0 /\ passes' = DISPATCH_PASSES_MAX /\ events # <<>>
      /\ session' = session /\ queue' = queue /\ wire' = wire /\ issued' = issued
      /\ Result1 = Head(events) /\ Result1.kind = kind /\ events' = Tail(events)
  BY DEF Result, Iterate, clients, Result1
<1>2. events \in Seq(Results) /\ Len(events) <= EventsMax
  BY DEF IInv, IsConnection
<1>3. /\ Tail(events) \in Seq(Results) /\ Len(events) \in Nat
      /\ Len(Tail(events)) = Len(events) - 1 /\ Head(events) \in Results
      /\ Items(events) = {Head(events)} \cup Items(Tail(events))
  BY <1>1, <1>2, TailFacts
<1>4. Len(events') <= EventsMax
  BY <1>1, <1>2, <1>3, LanguageAssumption DEF LanguageAssumption
<1> QED
  BY <1>1, <1>3, <1>4

\* What an open question waits for is not the result that leaves it open.
Supports(x, k) ==
  x.kind \in {"restarted", "gone"} \/ (x.kind \in {"answer", "failed"} /\ x.req \in {0, k})

LEMMA AppliedKeeps ==
  ASSUME IInv, NEW kind, Result(kind),
         orphaned' = (orphaned /\ lang'.question # NoQuestion),
         IsEditor(doc', lang', DISPATCH_PASSES_MAX),
         Owed(doc', lang', session[1], queue[1], events'),
         \/ lang'.question = NoQuestion
         \/ lang'.question = lang.question
            /\ (lang.question.state = "accepted" => ~Supports(Result1, issued[1])),
         running' \subseteq Servers, 1 \notin running' => session[1].state = "ended",
         DOMAIN shown' = Servers, shown'[1].pulled => shown'[1].text = shown'[1].rev,
         applied'.texts \subseteq {applied'.onto}
  PROVE  IInv'
<1> DEFINE c == session[1]
           q == queue[1]
           k == issued[1]
<1>1. /\ passes' = DISPATCH_PASSES_MAX
      /\ session' = session /\ queue' = queue /\ wire' = wire /\ issued' = issued
      /\ Result1 \in Results
      /\ events' \in Seq(Results) /\ Len(events') <= EventsMax
      /\ Items(events) = {Result1} \cup Items(events')
  BY ResultFacts
<1>2. NoQuestion.state = "none"
  BY DEF NoQuestion
<1>3. IsConnection(c, q, wire[1], events')
  BY <1>1 DEF IInv, IsConnection
<1>4. Identified(lang'.question, k, c, q, events')
  <2>1. Identified(lang.question, k, c, q, events)
    BY DEF IInv
  <2>2. lang'.question = lang.question \/ lang'.question.state # "accepted"
    BY <1>2
  <2> QED
    BY <1>1, <2>1, <2>2 DEF Identified, Exact
<1>5. Awaited(lang'.question, k, orphaned', c, q, events')
  <2>1. SUFFICES ASSUME lang'.question.state = "accepted", ~orphaned', k # 0,
                        OnWay(k, c, q, events)
                 PROVE  OnWay(k, c, q, events')
    <3>1. CASE lang'.question.state # "accepted"
      BY <3>1 DEF Awaited
    <3>2. CASE lang'.question.state = "accepted"
      <4>1. lang'.question = lang.question /\ lang'.question # NoQuestion
        BY <1>2, <3>2
      <4>2. ~orphaned' => ~orphaned
        BY <4>1
      <4>3. Awaited(lang.question, k, orphaned, c, q, events)
        BY DEF IInv
      <4> QED
        BY <2>1, <3>2, <4>1, <4>2, <4>3 DEF Awaited
    <3> QED
      BY <3>1, <3>2
  <2>2. ~Supports(Result1, k)
    BY <1>2, <2>1
  <2>3. Restarted(1).kind = "restarted" /\ Gone(1).kind = "gone"
    BY DEF Restarted, Gone
  <2> QED
    BY <1>1, <2>1, <2>2, <2>3 DEF OnWay, Supports
<1> QED
  BY <1>1, <1>3, <1>4, <1>5 DEF IInv

\* What is owed does not depend on a result that is no restart.
LEMMA OwedFacts ==
  ASSUME IInv, NEW kind, Result(kind), kind # "restarted", NEW d, NEW l, NEW c, NEW q,
         Owed(d, l, c, q, events)
  PROVE  Owed(d, l, c, q, events')
<1>1. Result1.kind = kind /\ Items(events) = {Result1} \cup Items(events')
  BY ResultFacts
<1>2. Restarted(1).kind = "restarted"
  BY DEF Restarted
<1>3. Restarted(1) \in Items(events) => Restarted(1) \in Items(events')
  BY <1>1, <1>2
<1> QED
  BY <1>3 DEF Owed

\* Nothing changes but the pass: the dispatch begins again.
LEMMA NothingFacts ==
  ASSUME IInv, NEW kind, Result(kind), kind # "restarted", Nothing, lang' = lang
  PROVE  /\ IsEditor(doc', lang', DISPATCH_PASSES_MAX)
         /\ Owed(doc', lang', session[1], queue[1], events')
         /\ applied'.texts \subseteq {applied'.onto}
<1>1. doc' = doc /\ applied' = NothingApplied /\ passes = 0
  BY ResultFacts DEF Nothing
<1>2. IsEditor(doc, lang, 0) /\ Owed(doc, lang, session[1], queue[1], events)
  BY <1>1 DEF IInv
<1>3. applied'.texts \subseteq {applied'.onto}
  BY <1>1 DEF NothingApplied
<1>4. OutboxInOrder(doc, lang, DISPATCH_PASSES_MAX)
  BY <1>2, OutboxFacts DEF OutboxInOrder
<1>5. IsEditor(doc, lang, DISPATCH_PASSES_MAX)
  BY <1>2, <1>4, PassesFacts DEF IsEditor
<1>6. Owed(doc, lang, session[1], queue[1], events')
  BY <1>2, OwedFacts
<1> QED
  BY <1>1, <1>3, <1>5, <1>6

LEMMA GivenUpFacts ==
  ASSUME IInv, NEW kind, Result(kind), kind # "restarted", Nothing,
         lang.question.state = "accepted", lang' = [lang EXCEPT !.question = NoQuestion]
  PROVE  /\ IsEditor(doc', lang', DISPATCH_PASSES_MAX)
         /\ Owed(doc', lang', session[1], queue[1], events')
         /\ applied'.texts \subseteq {applied'.onto}
         /\ lang'.question = NoQuestion
<1>1. doc' = doc /\ applied' = NothingApplied /\ passes = 0
  BY ResultFacts DEF Nothing
<1>2. IsEditor(doc, lang, 0) /\ Owed(doc, lang, session[1], queue[1], events)
  BY <1>1 DEF IInv
<1>3. applied'.texts \subseteq {applied'.onto}
  BY <1>1 DEF NothingApplied
<1>4. lang.outbox = <<>> /\ DOMAIN lang = {"outbox", "resync", "question"}
      /\ lang.resync \in BOOLEAN
  BY <1>2, OutboxFacts DEF IsEditor
<1>5. /\ DOMAIN lang' = {"outbox", "resync", "question"} /\ lang'.outbox = <<>>
      /\ lang'.resync = lang.resync /\ lang'.question = NoQuestion
      /\ NoQuestion.state = "none"
  BY <1>4 DEF NoQuestion
<1>6. OutboxInOrder(doc, lang', DISPATCH_PASSES_MAX)
  BY <1>5 DEF OutboxInOrder
<1>7. IsEditor(doc, lang', DISPATCH_PASSES_MAX)
  BY <1>2, <1>4, <1>5, <1>6, PassesFacts DEF IsEditor, IsQuestion
<1>8. Owed(doc, lang', session[1], queue[1], events)
  BY <1>2, <1>4, <1>5 DEF Owed, Target
<1>9. Owed(doc, lang', session[1], queue[1], events')
  BY <1>8, OwedFacts
<1> QED
  BY <1>1, <1>3, <1>5, <1>7, <1>9

\* The sets that show stay true.
LEMMA SameShown ==
  ASSUME IInv, shown' = shown, running' = running
  PROVE  /\ running' \subseteq Servers /\ (1 \notin running' => session[1].state = "ended")
         /\ DOMAIN shown' = Servers /\ (shown'[1].pulled => shown'[1].text = shown'[1].rev)
BY DEF IInv

LEMMA ApplyDiagnosticsKeeps ==
  ASSUME IInv, ServerCount = 1, ApplyDiagnostics,
         orphaned' = (orphaned /\ lang'.question # NoQuestion)
  PROVE  IInv'
<1> DEFINE e == Result1
           set == [rev |-> e.rev, text |-> e.text, pulled |-> e.pulled]
<1>1. /\ Result("diagnostics") /\ Nothing /\ lang' = lang /\ running' = running
      /\ shown' = IF SetIsCurrent(e) THEN [shown EXCEPT ![e.server] = set] ELSE shown
  BY DEF ApplyDiagnostics
<1>2. e \in Results /\ e.kind = "diagnostics"
  BY <1>1, ResultFacts
<1>3. e.server = 1 /\ (e.pulled => e.text = e.rev)
  BY <1>2, KindFacts
<1>4. set.pulled => set.text = set.rev
  BY <1>3
<1> HIDE DEF set
<1>5. DOMAIN shown' = Servers /\ (shown'[1].pulled => shown'[1].text = shown'[1].rev)
  BY <1>1, <1>3, <1>4, OneServer DEF IInv
<1>6. ~Supports(e, issued[1])
  BY <1>2 DEF Supports
<1>7. /\ IsEditor(doc', lang', DISPATCH_PASSES_MAX)
      /\ Owed(doc', lang', session[1], queue[1], events')
      /\ applied'.texts \subseteq {applied'.onto}
  BY <1>1, NothingFacts
<1>8. running \subseteq Servers /\ (1 \notin running => session[1].state = "ended")
  BY DEF IInv
<1> QED
  BY <1>1, <1>5, <1>6, <1>7, <1>8, AppliedKeeps

\* A complete question is released by what settles it.
LEMMA SettledKeeps ==
  ASSUME IInv, NEW kind, Result(kind), kind # "restarted",
         orphaned' = (orphaned /\ lang'.question # NoQuestion),
         lang.question.state = "accepted", NEW q, NEW a, Complete(q),
         Texts(q) = {a} \ {Empty},
         a # Empty /\ (q.purpose = "hover" \/ q.rev = doc.rev) => a = doc.rev,
         Settled(q),
         running' \subseteq Servers, 1 \notin running' => session[1].state = "ended",
         DOMAIN shown' = Servers, shown'[1].pulled => shown'[1].text = shown'[1].rev
  PROVE  IInv'
<1>1. Finish(q) /\ passes = 0
  BY ResultFacts DEF Settled
<1>2. IsEditor(doc, lang, passes) /\ Owed(doc, lang, session[1], queue[1], events)
  BY DEF IInv
<1>3. /\ IsEditor(doc', lang', DISPATCH_PASSES_MAX) /\ lang'.question = NoQuestion
      /\ \A c, x, e : Owed(doc, lang, c, x, e) => Owed(doc', lang', c, x, e)
      /\ applied'.texts \subseteq {applied'.onto}
  BY <1>1, <1>2, FinishFacts
<1>4. Owed(doc', lang', session[1], queue[1], events')
  BY <1>2, <1>3, OwedFacts
<1> QED
  BY <1>3, <1>4, AppliedKeeps

LEMMA ApplyAnswerKeeps ==
  ASSUME IInv, ServerCount = 1, ApplyAnswer,
         orphaned' = (orphaned /\ lang'.question # NoQuestion)
  PROVE  IInv'
<1> DEFINE e == Result1
           question == lang.question
           q == Resolve(question, e.req, e.text)
<1>1. /\ Result("answer") /\ running' = running /\ shown' = shown
      /\ IF ~Owns(question, e.req) THEN Nothing /\ lang' = lang
         ELSE IF e.purpose = "hover" /\ ~AnswerIsCurrent(question, e)
         THEN lang' = [lang EXCEPT !.question = NoQuestion] /\ Nothing
         ELSE Settled(q)
  BY DEF ApplyAnswer
<1>2. e \in Results /\ e.kind = "answer" /\ Items(events) = {e} \cup Items(events')
  BY <1>1, ResultFacts
<1>3. e.req \in Nat \ {0} /\ e.purpose \in Purposes /\ e.rev \in Revisions /\ e.text = e.rev
  BY <1>2, KindFacts
<1>4. Exact(e, question, issued[1])
  BY <1>2 DEF IInv, Identified
<1>5. CASE ~Owns(question, e.req)
  <2>1. question.state = "accepted" => ~Supports(e, issued[1])
    BY <1>2, <1>3, <1>5, SlotFacts DEF Supports
  <2>2. /\ IsEditor(doc', lang', DISPATCH_PASSES_MAX)
        /\ Owed(doc', lang', session[1], queue[1], events')
        /\ applied'.texts \subseteq {applied'.onto}
    BY <1>1, <1>5, NothingFacts
  <2> QED
    BY <1>1, <1>5, <2>1, <2>2, SameShown, AppliedKeeps
<1>6. CASE Owns(question, e.req)
  <2>1. question.state = "accepted"
    BY <1>6 DEF Owns
  <2>2. e.req = issued[1]
    BY <1>6, <2>1, SlotFacts
  <2>3. e.purpose = question.purpose /\ e.rev = question.rev
    BY <1>4, <2>1, <2>2 DEF Exact
  <2>4. CASE e.purpose = "hover" /\ ~AnswerIsCurrent(question, e)
    <3>1. lang' = [lang EXCEPT !.question = NoQuestion] /\ Nothing
      BY <1>1, <1>6, <2>4
    <3>2. /\ IsEditor(doc', lang', DISPATCH_PASSES_MAX)
          /\ Owed(doc', lang', session[1], queue[1], events')
          /\ applied'.texts \subseteq {applied'.onto}
          /\ lang'.question = NoQuestion
      BY <1>1, <2>1, <3>1, GivenUpFacts
    <3> QED
      BY <1>1, <3>2, SameShown, AppliedKeeps
  <2>5. CASE ~(e.purpose = "hover" /\ ~AnswerIsCurrent(question, e))
    <3>1. Settled(q)
      BY <1>1, <1>6, <2>5
    <3>2. e.text # Unanswered
      BY <1>3 DEF Revisions, Unanswered
    <3>3. /\ Complete(q) /\ Texts(q) = {e.text} \ {Empty}
          /\ q.purpose = question.purpose /\ q.rev = question.rev
      BY <2>1, <2>2, <3>2, SlotFacts
    <3>4. q.purpose = "hover" \/ q.rev = doc.rev => e.text = doc.rev
      BY <1>3, <2>3, <2>5, <3>3 DEF AnswerIsCurrent
    <3> HIDE DEF q
    <3> QED
      BY <1>1, <2>1, <3>1, <3>3, <3>4, SameShown, SettledKeeps
  <2> QED
    BY <2>4, <2>5
<1> QED
  BY <1>5, <1>6

LEMMA ApplyFailureKeeps ==
  ASSUME IInv, ServerCount = 1, ApplyFailure,
         orphaned' = (orphaned /\ lang'.question # NoQuestion)
  PROVE  IInv'
<1> DEFINE e == Result1
           question == lang.question
           q == IF e.req = 0 THEN Abandon(question, e.server) ELSE Resolve(question, e.req, Empty)
<1>1. /\ Result("failed") /\ running' = running /\ shown' = shown
      /\ IF question.state # "accepted" \/ (e.req # 0 /\ ~Owns(question, e.req))
         THEN Nothing /\ lang' = lang ELSE Settled(q)
  BY DEF ApplyFailure
<1>2. e \in Results /\ e.kind = "failed"
  BY <1>1, ResultFacts
<1>3. e.server = 1
  BY <1>2, KindFacts
<1>4. CASE question.state # "accepted" \/ (e.req # 0 /\ ~Owns(question, e.req))
  <2>1. question.state = "accepted" => ~Supports(e, issued[1])
    BY <1>2, <1>4, SlotFacts DEF Supports
  <2>2. /\ IsEditor(doc', lang', DISPATCH_PASSES_MAX)
        /\ Owed(doc', lang', session[1], queue[1], events')
        /\ applied'.texts \subseteq {applied'.onto}
    BY <1>1, <1>4, NothingFacts
  <2> QED
    BY <1>1, <1>4, <2>1, <2>2, SameShown, AppliedKeeps
<1>5. CASE question.state = "accepted" /\ (e.req = 0 \/ Owns(question, e.req))
  <2>1. Settled(q)
    BY <1>1, <1>5
  <2>2. Empty # Unanswered
    BY DEF Empty, Unanswered
  <2>3. Complete(q) /\ Texts(q) = {}
    <3>1. CASE e.req = 0
      BY <1>3, <1>5, <3>1, SlotFacts
    <3>2. CASE e.req # 0
      <4>1. e.req = issued[1]
        BY <1>5, <3>2, SlotFacts
      <4> QED
        BY <1>5, <2>2, <3>2, <4>1, SlotFacts
    <3> QED
      BY <3>1, <3>2
  <2> HIDE DEF q
  <2>4. Texts(q) = {Empty} \ {Empty}
    BY <2>3
  <2> QED
    BY <1>1, <1>5, <2>1, <2>3, <2>4, SameShown, SettledKeeps
<1> QED
  BY <1>4, <1>5

\* reopen_documents: the mark stands for everything, and the question is given up.
LEMMA ApplyRestartedKeeps ==
  ASSUME IInv, ServerCount = 1, ApplyRestarted,
         orphaned' = (orphaned /\ lang'.question # NoQuestion)
  PROVE  IInv'
<1>1. /\ Result("restarted") /\ running' = running
      /\ shown' = [s \in Servers |-> NoSet]
      /\ doc' = doc /\ applied' = NothingApplied
      /\ lang' = [ResyncAll(lang) EXCEPT !.question = NoQuestion]
  BY DEF ApplyRestarted, Nothing
<1>2. IsEditor(doc, lang, passes)
  BY DEF IInv
<1>3. /\ DOMAIN lang' = {"outbox", "resync", "question"} /\ lang'.outbox = <<>>
      /\ lang'.resync = doc.loaded /\ lang'.question = NoQuestion
      /\ NoQuestion.state = "none"
  BY <1>1, <1>2 DEF IsEditor, ResyncAll, NoQuestion
<1>4. OutboxInOrder(doc, lang', DISPATCH_PASSES_MAX)
  BY <1>3 DEF OutboxInOrder
<1>5. IsEditor(doc, lang', DISPATCH_PASSES_MAX)
  BY <1>2, <1>3, <1>4, PassesFacts DEF IsEditor, IsQuestion
<1>6. Owed(doc, lang', session[1], queue[1], events')
  BY <1>3 DEF Owed
<1>7. applied'.texts \subseteq {applied'.onto}
  BY <1>1 DEF NothingApplied
<1>8. running \subseteq Servers /\ (1 \notin running => session[1].state = "ended")
  BY DEF IInv
<1> QED
  BY <1>1, <1>3, <1>5, <1>6, <1>7, <1>8, NoSetFacts, AppliedKeeps

LEMMA ApplyGoneKeeps ==
  ASSUME IInv, ServerCount = 1, ApplyGone,
         orphaned' = (orphaned /\ lang'.question # NoQuestion)
  PROVE  IInv'
<1> DEFINE e == Result1
           question == lang.question
           q == Abandon(question, e.server)
<1>1. /\ Result("gone") /\ running' = running \ {e.server} /\ shown' = shown
      /\ IF question.state # "accepted" THEN Nothing /\ lang' = lang ELSE Settled(q)
  BY DEF ApplyGone
<1>2. e \in Results /\ e.kind = "gone" /\ Items(events) = {e} \cup Items(events')
  BY <1>1, ResultFacts
<1>3. e.server = 1 /\ e = Gone(1)
  BY <1>2, KindFacts
<1>4. session[1].state = "ended"
  BY <1>2, <1>3 DEF IInv, IsConnection
<1>5. /\ running' \subseteq Servers /\ (1 \notin running' => session[1].state = "ended")
      /\ DOMAIN shown' = Servers /\ (shown'[1].pulled => shown'[1].text = shown'[1].rev)
  BY <1>1, <1>4 DEF IInv
<1>6. CASE question.state # "accepted"
  <2>1. /\ IsEditor(doc', lang', DISPATCH_PASSES_MAX)
        /\ Owed(doc', lang', session[1], queue[1], events')
        /\ applied'.texts \subseteq {applied'.onto}
    BY <1>1, <1>6, NothingFacts
  <2> QED
    BY <1>1, <1>5, <1>6, <2>1, AppliedKeeps
<1>7. CASE question.state = "accepted"
  <2>1. Settled(q) /\ Complete(q) /\ Texts(q) = {}
    BY <1>1, <1>3, <1>7, SlotFacts
  <2> HIDE DEF q
  <2>2. Texts(q) = {Empty} \ {Empty}
    BY <2>1
  <2> QED
    BY <1>1, <1>5, <1>7, <2>1, <2>2, SettledKeeps
<1> QED
  BY <1>6, <1>7

LEMMA ApplyKeeps ==
  ASSUME IInv, ServerCount = 1, Apply
  PROVE  IInv'
BY ApplyDiagnosticsKeeps, ApplyAnswerKeeps, ApplyFailureKeeps, ApplyRestartedKeeps,
   ApplyGoneKeeps DEF Apply

-----------------------------------------------------------------------------
(* What the invariant says, and the theorems. *)

LEMMA NextKeeps ==
  ASSUME IInv, ServerCount = 1, [Next]_vars
  PROVE  IInv'
<1>1. CASE UNCHANGED vars
  BY <1>1 DEF vars, IInv
<1>2. ASSUME NEW s \in Servers, SessionAction(s) \/ ServerAction(s) PROVE IInv'
  <2>1. s = 1
    BY OneServer
  <2>2. SessionAction(1) \/ ServerAction(1)
    BY <1>2, <2>1
  <2>3. CASE Serve(1)
    BY <2>3, HandleOpenKeeps, HandleChangeKeeps, HandleCloseKeeps, HandleQueryKeeps DEF Serve
  <2>4. CASE Receive(1)
    BY <2>4, ReadDiagnosticsKeeps, ReadStrayKeeps, ReadAnswerKeeps, ReadPulledKeeps DEF Receive
  <2>5. CASE ReadRefresh(1) \/ SettleDelay(1)
    BY <2>5, DueKeeps
  <2>6. ASSUME NEW question \in BOOLEAN, Expire(1, question) PROVE IInv'
    BY <2>6, ExpireKeeps
  <2>7. CASE Start(1) \/ AttemptFails(1) \/ Restart(1)
    BY <2>7, StartKeeps, FailKeeps
  <2>8. CASE ServerAction(1)
    BY <2>8, WriteKeeps DEF ServerAction
  <2> QED
    BY <2>2, <2>3, <2>4, <2>5, <2>6, <2>7, <2>8 DEF SessionAction
<1> QED
  BY <1>1, <1>2, UserActionKeeps, DispatchKeeps, DispatchEndsKeeps, ApplyKeeps DEF Next

LEMMA TypeHolds ==
  ASSUME IInv, ServerCount = 1
  PROVE  TypeOK
<1>1. IsEditor(doc, lang, passes) /\ IsConnection(session[1], queue[1], wire[1], events)
  BY DEF IInv
<1>2. lang.question.state \in {"none", "queued", "accepted"}
  BY <1>1 DEF IsEditor, IsQuestion, NoQuestion
<1>3. session[1].copy.rev \in 0 .. RevisionMax
  BY <1>1 DEF IsConnection, IsClient
<1> QED
  BY <1>1, <1>2, <1>3, OneServer DEF TypeOK, IInv, IsEditor, IsConnection, IsClient, Revisions

LEMMA RestartFacts ==
  ASSUME IInv
  PROVE  RestartQueued <=> Restarted(1) \in Items(events)
<1>1. events \in Seq(Results) /\ DOMAIN events = 1 .. Len(events)
  BY DEF IInv, IsConnection
<1>2. \A i \in 1 .. Len(events) : events[i] \in Results
  BY <1>1
<1>3. Restarted(1).kind = "restarted"
  BY DEF Restarted
<1> QED
  BY <1>1, <1>2, <1>3, KindFacts DEF RestartQueued, Items

\* What the queue and the outbox together lead to.
LEMMA CopyHolds ==
  ASSUME IInv, ServerCount = 1
  PROVE  CopyIsCurrentOrOwed
<1> DEFINE c == session[1]
           q == queue[1]
           requests == q \o lang.outbox
<1>1. SUFFICES ASSUME c.state = "serving", doc.loaded, ~lang.resync, ~RestartQueued,
                      ~(HasCopy(c) /\ ~c.sync)
               PROVE  /\ Reaches(c.copy.rev, requests, doc.rev)
                      /\ HasCopy(c) => c.peer.text = c.copy.rev
  BY OneServer DEF CopyIsCurrentOrOwed, IInv, HasCopy
<1>2. /\ IsEditor(doc, lang, passes) /\ IsClient(c) /\ q \in Seq(Requests)
      /\ Owed(doc, lang, c, q, events)
  BY DEF IInv, IsConnection
<1>3. Arrives(c, q, Target(doc, lang)) /\ Opened(c, q)
  BY <1>1, <1>2, RestartFacts DEF Owed
<1>4. Len(q) \in Nat /\ \A i \in 1 .. Len(q) : q[i] \in Requests
  BY <1>2
<1>5. (\A i \in 1 .. Len(q) : ~IsSync(q[i])) => c.copy.rev = Target(doc, lang)
  <2>1. SUFFICES ASSUME \A i \in 1 .. Len(q) : ~IsSync(q[i])
                 PROVE  c.copy.rev = Target(doc, lang)
    OBVIOUS
  <2>2. HasCopy(c)
    BY <1>3, <1>4, <2>1 DEF Opened, IsSync
  <2>3. Synced(c)
    BY <1>1, <2>2 DEF Synced
  <2> QED
    BY <1>3, <2>1, <2>3 DEF Arrives, IsLast
<1>6. ASSUME NEW x, lang.outbox = <<x>>
      PROVE  /\ DOMAIN requests = 1 .. Len(q) + 1
             /\ requests[Len(q) + 1] = x /\ \A i \in 1 .. Len(q) : requests[i] = q[i]
  <2>1. q \in Seq(Requests \cup {x})
    BY <1>2
  <2>2. requests = Append(q, x)
    BY <1>6, <2>1, JoinFacts
  <2>3. /\ requests \in Seq(Requests \cup {x}) /\ Len(requests) = Len(q) + 1
        /\ requests[Len(q) + 1] = x /\ \A i \in 1 .. Len(q) : requests[i] = q[i]
    BY <2>1, <2>2, AppendFacts
  <2> HIDE DEF requests
  <2> QED
    BY <2>3
<1>7. CASE lang.outbox = <<>> \/ lang.outbox = <<QueryOf(lang.question)>>
  <2> DEFINE x == QueryOf(lang.question)
  <2>1. x.kind = "query" /\ ~IsSync(x)
    BY DEF QueryOf, Query, IsSync
  <2>2. Target(doc, lang) = doc.rev
    <3>1. \A y : <<y>>[1] = y
      OBVIOUS
    <3> QED
      BY <1>7, <2>1, <3>1 DEF Target
  <2>3. /\ \A i \in 1 .. Len(q) : i \in DOMAIN requests /\ requests[i] = q[i]
        /\ \A i \in DOMAIN requests : i \in 1 .. Len(q) \/ ~IsSync(requests[i])
    <3>1. CASE lang.outbox = <<>>
      <4>1. requests = q
        BY <1>2, <3>1, JoinFacts
      <4> QED
        BY <1>2, <4>1
    <3>2. CASE lang.outbox = <<x>>
      <4> HIDE DEF requests, x
      <4>1. /\ DOMAIN requests = 1 .. Len(q) + 1
            /\ requests[Len(q) + 1] = x /\ \A i \in 1 .. Len(q) : requests[i] = q[i]
        BY <1>6, <3>2
      <4> QED
        BY <1>4, <2>1, <4>1
    <3> QED
      BY <1>7, <3>1, <3>2
  <2> HIDE DEF requests
  <2>4. (\A i \in DOMAIN requests : ~IsSync(requests[i])) => c.copy.rev = doc.rev
    BY <1>5, <2>2, <2>3
  <2>5. ASSUME NEW i \in DOMAIN requests, IsSync(requests[i]),
               \A j \in DOMAIN requests : IsSync(requests[j]) => j <= i
        PROVE  requests[i].rev = doc.rev
    <3>1. i \in 1 .. Len(q) /\ requests[i] = q[i]
      BY <2>3, <2>5
    <3>2. IsLast(q, i)
      <4>1. \A k \in 1 .. Len(q) : IsSync(q[k]) => k <= i
        BY <2>3, <2>5
      <4> QED
        BY <1>4, <3>1, <4>1 DEF IsLast
    <3> QED
      BY <1>3, <2>2, <2>5, <3>1, <3>2 DEF Arrives
  <2> QED
    BY <1>2, <2>4, <2>5 DEF Reaches, IsClient
<1>8. ASSUME NEW from \in Revisions, lang.outbox = <<Change(from, doc.rev)>>
      PROVE  Reaches(c.copy.rev, requests, doc.rev)
  <2> DEFINE x == Change(from, doc.rev)
  <2>1. IsSync(x) /\ x.rev = doc.rev
    BY DEF Change, IsSync
  <2> HIDE DEF requests, x
  <2>2. /\ DOMAIN requests = 1 .. Len(q) + 1
        /\ requests[Len(q) + 1] = x /\ \A i \in 1 .. Len(q) : requests[i] = q[i]
    BY <1>6, <1>8 DEF x
  <2>3. Len(q) + 1 \in DOMAIN requests
    BY <1>4, <2>2
  <2>4. \A i \in DOMAIN requests : Len(q) + 1 <= i => i = Len(q) + 1
    BY <1>4, <2>2
  <2> QED
    BY <2>1, <2>2, <2>3, <2>4 DEF Reaches
<1> QED
  BY <1>1, <1>2, <1>7, <1>8 DEF IsEditor, OutboxInOrder, IsClient

LEMMA QuestionHolds ==
  ASSUME IInv, ServerCount = 1
  PROVE  QuestionIsAccountedFor
<1> DEFINE question == lang.question
           asking == {i \in DOMAIN lang.outbox : lang.outbox[i].kind = "query"}
           k == issued[1]
<1>1. OutboxInOrder(doc, lang, passes)
  BY DEF IInv, IsEditor
<1>2. asking = IF question.state = "queued" THEN {1} ELSE {}
  <2>1. /\ \A x : DOMAIN <<x>> = {1} /\ <<x>>[1] = x
        /\ \A x, y : DOMAIN <<x, y>> = {1, 2} /\ <<x, y>>[1] = x /\ <<x, y>>[2] = y
        /\ DOMAIN <<>> = {}
    OBVIOUS
  <2>2. /\ QueryOf(question).kind = "query" /\ Close.kind = "close"
        /\ \A from : Change(from, doc.rev).kind = "change"
    BY DEF QueryOf, Query, Close, Change
  <2>3. CASE question.state = "queued" /\ lang.outbox = <<QueryOf(question)>>
    BY <2>1, <2>2, <2>3
  <2>4. CASE question.state = "queued" /\ lang.outbox = <<QueryOf(question), Close>>
    BY <2>1, <2>2, <2>4
  <2>5. CASE question.state # "queued" /\ lang.outbox = <<>>
    BY <2>1, <2>5
  <2>6. CASE question.state # "queued" /\ lang.outbox = <<Close>>
    BY <2>1, <2>2, <2>6
  <2>7. ASSUME NEW from, question.state # "queued", lang.outbox = <<Change(from, doc.rev)>>
        PROVE  asking = {}
    BY <2>1, <2>2, <2>7
  <2> QED
    BY <1>1, <2>3, <2>4, <2>5, <2>6, <2>7 DEF OutboxInOrder
<1>3. Cardinality(asking) = IF question.state = "queued" THEN 1 ELSE 0
  BY <1>2, FS_EmptySet, FS_Singleton
<1>4. ASSUME question.state = "accepted", ~orphaned
      PROVE  \A i \in DOMAIN question.slots : UnderWay(question.slots[i])
  <2> DEFINE slot == [server |-> 1, req |-> k, answer |-> Unanswered]
  <2>1. question.slots = <<slot>> /\ OnWay(k, session[1], queue[1], events)
    BY <1>4 DEF IInv, Awaited
  <2>2. slot.server = 1 /\ slot.req = k
    OBVIOUS
  <2> HIDE DEF slot
  <2>3. /\ queue[1] \in Seq(Requests) /\ DOMAIN queue[1] = 1 .. Len(queue[1])
        /\ events \in Seq(Results) /\ DOMAIN events = 1 .. Len(events)
    BY DEF IInv, IsConnection
  <2>4. \A i \in 1 .. Len(events) : events[i] \in Results /\ events[i].server = 1
    BY <2>3, KindFacts
  <2>5. Gone(1).kind = "gone"
    BY DEF Gone
  <2>6. UnderWay(slot)
    <3>1. CASE \E r \in Items(queue[1]) : r.kind = "query" /\ r.req = k
      BY <2>2, <2>3, <3>1 DEF UnderWay, Items
    <3>2. CASE (\E p \in session[1].pending : p.req = k) \/ session[1].state = "failed"
      BY <2>2, <3>2 DEF UnderWay
    <3>3. CASE Restarted(1) \in Items(events)
      BY <3>3, RestartFacts DEF UnderWay
    <3>4. CASE Gone(1) \in Items(events)
      BY <2>2, <2>3, <2>4, <2>5, <3>4 DEF UnderWay, Items
    <3>5. CASE \E x \in Items(events) : x.kind \in {"answer", "failed"} /\ x.req \in {0, k}
      BY <2>2, <2>3, <2>4, <3>5 DEF UnderWay, Items
    <3> QED
      BY <2>1, <3>1, <3>2, <3>3, <3>4, <3>5 DEF OnWay
  <2>7. DOMAIN question.slots = {1} /\ question.slots[1] = slot
    BY <2>1
  <2> QED
    BY <2>6, <2>7
<1> QED
  BY <1>3, <1>4 DEF QuestionIsAccountedFor

\* With one server, the copy is owed exactly what the queue and the outbox bring,
\* every request that travels under the newest identity is the open question, and
\* every reply describes the revision its request names: in every reachable state.
THEOREM LanguageInvariance ==
  ASSUME ServerCount = 1
  PROVE  Spec => []IInv
<1>1. Init => IInv
  BY InitKeeps, LanguageAssumption
<1>2. IInv /\ [Next]_vars => IInv'
  BY NextKeeps
<1> QED
  BY <1>1, <1>2, PTL DEF Spec

\* The copy of the one server is the current text or is owed the synchronization
\* that makes it so, and the open question is accounted for: for every size of the
\* queues, every number of restarts and revisions.
THEOREM SyncCorrect ==
  ASSUME ServerCount = 1
  PROVE  Spec => []SyncInvariant
<1>1. IInv => SyncInvariant
  BY TypeHolds, CopyHolds, QuestionHolds DEF SyncInvariant
<1>2. Spec => []IInv
  BY LanguageInvariance
<1> QED
  BY <1>1, <1>2, PTL

\* Edits, floats and pulled diagnostics of the one server describe the text that
\* the editor uses them for.
THEOREM AnswersCorrect ==
  ASSUME ServerCount = 1
  PROVE  Spec => []AnswersDescribeTheirText
<1>1. IInv => AnswersDescribeTheirText
  BY OneServer DEF IInv, AnswersDescribeTheirText
<1>2. Spec => []IInv
  BY LanguageInvariance
<1> QED
  BY <1>1, <1>2, PTL
=============================================================================
