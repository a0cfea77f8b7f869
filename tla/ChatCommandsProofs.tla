------------------------- MODULE ChatCommandsProofs -------------------------
(***************************************************************************)
(* Proofs about ChatCommands, for every plugin directory, any number of    *)
(* players and controllers and any texts.  Of the tokens of a chat line    *)
(* nothing is needed; those of a command.invoke request are the ones that  *)
(* were sent, which is shown by induction over its arguments and bytes.    *)
(***************************************************************************)
EXTENDS ChatCommands, SequenceTheorems, WellFoundedInduction, TLAPS

(***************************************************************************)
(* The invariant, in parts.                                                *)
(***************************************************************************)
Controller == [uid : Players, attached : BOOLEAN, admin : BOOLEAN]

IsSeq(s) == s \in Seq(Range(s))
OverPlugins(f) == f = [p \in Plugins |-> f[p]]

Types ==
  /\ declared \in Sets /\ loaded \in 0..Len(declared) /\ registered \in Nat
  /\ controllers \in Seq(Controller)
  /\ OverPlugins(queue) /\ OverPlugins(events) /\ OverPlugins(running)
  /\ OverPlugins(current) /\ OverPlugins(currentEvent)
  /\ \A p \in Plugins : IsSeq(queue[p]) /\ IsSeq(events[p])

(* A player has one controller with a player state; only this one counts,  *)
(* and what it says of the player is still true.                           *)
Session ==
  /\ \A i, j \in DOMAIN controllers :
       /\ controllers[i].attached /\ controllers[j].attached
       /\ controllers[i].uid = controllers[j].uid
       => i = j
  /\ \A i \in DOMAIN controllers :
       controllers[i].attached /\ controllers[i].admin => controllers[i].uid \in admins

(* What waits in the queues and what runs. *)
Arrives(c) ==
  c.sender.by = "operator" /\ ValidName(c.sender.sent.command) =>
    /\ c.args = NonEmpty(c.sender.sent.args)
    /\ Canonical(c.name) = Canonical(c.sender.sent.command)
Entitled(c) == c.kind = "command" /\ (c.admin => c.sender.entitled) /\ Arrives(c)
Waiting(p) ==
  /\ \A c \in Range(queue[p]) : Entitled(c)
  /\ \A e \in Range(events[p]) : e.kind = "event"
Callback(p) ==
  /\ running[p].kind = "command" => Entitled(running[p])
  /\ current[p] \in {Idle, running[p]}
  /\ current[p] = Idle => currentEvent[p] = running[p]
Work == \A p \in Plugins : Waiting(p) /\ Callback(p)

(* The commands registered so far: all those of the plugins dealt with,    *)
(* unless one was refused, and the first of the next plugin's.  An entry   *)
(* is filed under the canonical form of its name.                          *)
Routes(p, i) ==
  LET key == Canonical(declared[p][i].name)
  IN key \in DOMAIN commands /\ commands[key].plugin = p
Filed == \A k \in DOMAIN commands : Canonical(commands[k].spec.name) = k
Registry ==
  /\ Filed
  /\ errors \/ \A p \in 1..loaded : \A i \in DOMAIN declared[p] : Routes(p, i)
  /\ loaded < Len(declared) =>
       /\ registered <= Len(declared[Loading])
       /\ \A i \in 1..registered : Routes(Loading, i)

ChatInv == Types /\ Session /\ Work /\ Registry /\ ActorIsIssuer

-----------------------------------------------------------------------------
(* Appending to a sequence and taking its head, by elements. *)
LEMMA AppendRange ==
  ASSUME NEW s, IsSeq(s), NEW e
  PROVE  IsSeq(Append(s, e)) /\ Range(Append(s, e)) = Range(s) \cup {e}
<1> DEFINE r == Append(s, e)
<1>1. s \in Seq(Range(s) \cup {e}) /\ e \in Range(s) \cup {e}
  BY DEF IsSeq
<1>2. /\ r \in Seq(Range(s) \cup {e}) /\ Len(r) = Len(s) + 1 /\ Len(s) \in Nat
      /\ DOMAIN r = 1..Len(r) /\ DOMAIN s = 1..Len(s)
      /\ \A i \in 1..Len(s) : r[i] = s[i]
      /\ r[Len(r)] = e
  BY <1>1
<1> HIDE DEF r
<1>3. Range(r) = Range(s) \cup {e}
  <2>1. ASSUME NEW x \in Range(r) PROVE x \in Range(s) \cup {e}
    BY <1>2, <2>1 DEF Range
  <2>2. e \in Range(r)
    BY <1>2 DEF Range
  <2>3. ASSUME NEW x \in Range(s) PROVE x \in Range(r)
    <3>1. PICK i \in 1..Len(s) : x = s[i]
      BY <1>2, <2>3 DEF Range
    <3>2. i \in DOMAIN r /\ r[i] = x
      BY <1>2, <3>1
    <3> QED BY <3>2 DEF Range
  <2> QED BY <2>1, <2>2, <2>3
<1> QED BY <1>2, <1>3 DEF IsSeq, r

LEMMA TailRange ==
  ASSUME NEW s, IsSeq(s), s # <<>>
  PROVE  IsSeq(Tail(s)) /\ Range(Tail(s)) \subseteq Range(s) /\ Head(s) \in Range(s)
<1> DEFINE r == Tail(s)
<1>1. /\ s \in Seq(Range(s)) /\ Len(s) \in Nat \ {0} /\ DOMAIN s = 1..Len(s)
      /\ r \in Seq(Range(s)) /\ Len(r) = Len(s) - 1 /\ DOMAIN r = 1..Len(r)
      /\ \A i \in 1..Len(r) : r[i] = s[i + 1]
      /\ Head(s) = s[1]
  BY DEF IsSeq
<1> HIDE DEF r
<1>2. Range(r) \subseteq Range(s)
  <2>1. ASSUME NEW i \in DOMAIN r PROVE r[i] \in Range(s)
    <3>1. i + 1 \in DOMAIN s /\ r[i] = s[i + 1]
      BY <1>1
    <3> QED BY <3>1 DEF Range
  <2> QED BY <2>1 DEF Range
<1>3. Head(s) \in Range(s)
  <2>1. 1 \in DOMAIN s
    BY <1>1
  <2> QED BY <1>1, <2>1 DEF Range
<1>4. \A i \in 1..Len(r) : r[i] \in Range(r)
  BY <1>1 DEF Range
<1>5. r \in Seq(Range(r))
  BY <1>1, <1>4
<1> QED BY <1>2, <1>3, <1>5 DEF IsSeq, r

(* A sequence without its i-th element. *)
LEMMA RemoveAtElements ==
  ASSUME NEW S, NEW s \in Seq(S), NEW i \in 1..Len(s)
  PROVE  /\ RemoveAt(s, i) \in Seq(S)
         /\ Len(RemoveAt(s, i)) = Len(s) - 1
         /\ \A j \in 1..(Len(s) - 1) :
              RemoveAt(s, i)[j] = IF j < i THEN s[j] ELSE s[j + 1]
<1> DEFINE a == SubSeq(s, 1, i - 1)  b == SubSeq(s, i + 1, Len(s))
<1>1. Len(s) \in Nat /\ i \in Nat /\ \A j \in 1..Len(s) : s[j] \in S
  OBVIOUS
<1>2. a \in Seq(S) /\ Len(a) = i - 1 /\ \A j \in 1..(i - 1) : a[j] = s[j]
  BY <1>1
<1>3. b \in Seq(S) /\ Len(b) = Len(s) - i /\ \A j \in 1..(Len(s) - i) : b[j] = s[i + j]
  BY <1>1
<1> HIDE DEF a, b
<1>4. /\ a \o b \in Seq(S) /\ Len(a \o b) = Len(a) + Len(b)
      /\ \A j \in 1..(Len(a) + Len(b)) :
           (a \o b)[j] = IF j <= Len(a) THEN a[j] ELSE b[j - Len(a)]
  BY <1>2, <1>3, ConcatProperties, Zenon
<1> DEFINE r == a \o b
<1>r. RemoveAt(s, i) = r
  BY DEF RemoveAt, a, b
<1> HIDE DEF r
<1>5. ASSUME NEW j \in 1..(Len(s) - 1) PROVE r[j] = IF j < i THEN s[j] ELSE s[j + 1]
  <2>1. r[j] = IF j <= Len(a) THEN a[j] ELSE b[j - Len(a)]
    BY <1>1, <1>2, <1>3, <1>4 DEF r
  <2>2. CASE j < i
    BY <1>1, <1>2, <2>1, <2>2
  <2>3. CASE ~(j < i)
    <3>1. j - (i - 1) \in 1..(Len(s) - i) /\ i + (j - (i - 1)) = j + 1
      BY <1>1, <2>3
    <3>2. r[j] = b[j - (i - 1)]
      BY <1>1, <1>2, <2>1, <2>3
    <3>3. b[j - (i - 1)] = s[i + (j - (i - 1))]
      BY <1>3, <3>1
    <3> QED BY <2>3, <3>1, <3>2, <3>3
  <2> QED BY <2>2, <2>3
<1>6. r \in Seq(S) /\ Len(r) = Len(s) - 1
  BY <1>1, <1>2, <1>3, <1>4 DEF r
<1> QED BY <1>r, <1>5, <1>6

-----------------------------------------------------------------------------
(* Induction for sets of numbers and of sequences: the smallest            *)
(* counterexample.                                                         *)
LEMMA NumberInduction ==
  ASSUME NEW T \in SUBSET Nat, 0 \in T, \A n \in T : n + 1 \in T
  PROVE  T = Nat
<1> SUFFICES ASSUME Nat \ T # {} PROVE FALSE
  OBVIOUS
<1> DEFINE R == OpToRel(<, Nat)
<1>1. IsWellFoundedOn(R, Nat)
  BY NatLessThanWellFounded
<1>2. \A x, y \in Nat : x < y => <<x, y>> \in R
  BY DEF OpToRel
<1> HIDE DEF R
<1>3. PICK x \in Nat \ T : \A y \in Nat \ T : ~(<<y, x>> \in R)
  <2>1. Nat \ T \subseteq Nat
    OBVIOUS
  <2> QED BY <1>1, <2>1, WFMin
<1>4. x # 0 /\ x - 1 \in Nat /\ x - 1 < x /\ (x - 1) + 1 = x
  OBVIOUS
<1>5. x - 1 \in T
  BY <1>2, <1>3, <1>4
<1> QED BY <1>4, <1>5

LEMMA SequenceInduction ==
  ASSUME NEW B, NEW T \in SUBSET Seq(B), <<>> \in T,
         \A w \in T, c \in B : Append(w, c) \in T
  PROVE  T = Seq(B)
<1> DEFINE N == {n \in Nat : \A w \in Seq(B) : Len(w) = n => w \in T}
<1>1. 0 \in N
  <2>1. \A w \in Seq(B) : Len(w) = 0 => w = <<>>
    BY EmptySeq
  <2> QED BY <2>1
<1>2. ASSUME NEW n \in N PROVE n + 1 \in N
  <2>1. ASSUME NEW w \in Seq(B), Len(w) = n + 1 PROVE w \in T
    <3>1. w # <<>>
      BY <2>1
    <3>2. PICK v \in Seq(B), c \in B : w = Append(v, c)
      BY <3>1, SequenceEmptyOrAppend
    <3>3. Len(v) = n
      BY <2>1, <3>2
    <3>4. v \in T
      BY <3>3
    <3> QED BY <3>2, <3>4
  <2> QED BY <2>1
<1> HIDE DEF N
<1>3. N = Nat
  <2>1. N \in SUBSET Nat
    BY DEF N
  <2> QED BY <1>1, <1>2, <2>1, NumberInduction
<1>4. ASSUME NEW w \in Seq(B) PROVE w \in T
  <2>1. Len(w) \in N
    BY <1>3
  <2> QED BY <2>1 DEF N
<1> QED BY <1>4

LEMMA AppendConcat ==
  ASSUME NEW B, NEW u \in Seq(B), NEW v \in Seq(B), NEW c \in B
  PROVE  Append(v, c) \in Seq(B) /\ u \o Append(v, c) = Append(u \o v, c)
OBVIOUS

LEMMA SeqOfElements ==
  ASSUME NEW A, NEW B, NEW w \in Seq(A), \A n \in 1 .. Len(w) : w[n] \in B
  PROVE  w \in Seq(B)
<1>1. w \in [1 .. Len(w) -> A] /\ Len(w) \in Nat
  OBVIOUS
<1>2. w \in [1 .. Len(w) -> B]
  BY <1>1
<1> QED BY <1>1, <1>2

(* Loops.  h is the body as a function on states S and elements B.  g      *)
(* follows the loop over w; what follows it stays in S, exists, and has    *)
(* taken one more step when w is one element longer.                       *)
Follows(g, S, h, b, w) ==
  /\ g[0] = b
  /\ \A n \in 1 .. Len(w) : g[n - 1] \in S => g[n] = h[<<g[n - 1], w[n]>>]

LEMMA FollowsStays ==
  ASSUME NEW S, NEW B, NEW h \in [S \X B -> S], NEW b \in S, NEW w \in Seq(B),
         NEW g, Follows(g, S, h, b, w)
  PROVE  \A n \in 0 .. Len(w) : g[n] \in S
<1> DEFINE N == {n \in Nat : n <= Len(w) => g[n] \in S}
<1>1. 0 \in N
  BY DEF Follows
<1>2. ASSUME NEW n \in N PROVE n + 1 \in N
  <2> SUFFICES ASSUME n + 1 <= Len(w) PROVE g[n + 1] \in S
    BY DEF N
  <2>1. n + 1 \in 1 .. Len(w) /\ (n + 1) - 1 = n /\ n <= Len(w)
    OBVIOUS
  <2>2. g[n] \in S /\ w[n + 1] \in B
    BY <2>1
  <2>3. g[n + 1] = h[<<g[n], w[n + 1]>>]
    BY <2>1, <2>2 DEF Follows
  <2> QED BY <2>2, <2>3
<1> HIDE DEF N
<1>3. N = Nat
  <2>1. N \in SUBSET Nat
    BY DEF N
  <2> QED BY <1>1, <1>2, <2>1, NumberInduction
<1> QED BY <1>3 DEF N

LEMMA FollowsExists ==
  ASSUME NEW S, NEW B, NEW h \in [S \X B -> S], NEW b \in S, NEW w \in Seq(B)
  PROVE  \E g \in [0 .. Len(w) -> S] : Follows(g, S, h, b, w)
<1> DEFINE T == {v \in Seq(B) : \E g \in [0 .. Len(v) -> S] : Follows(g, S, h, b, v)}
<1>1. <<>> \in T
  <2>1. [n \in 0 .. 0 |-> b] \in [0 .. Len(<<>>) -> S]
    OBVIOUS
  <2>2. Follows([n \in 0 .. 0 |-> b], S, h, b, <<>>)
    BY DEF Follows
  <2> QED BY <2>1, <2>2
<1>2. ASSUME NEW v \in T, NEW c \in B PROVE Append(v, c) \in T
  <2>1. v \in Seq(B) /\ Len(v) \in Nat
    OBVIOUS
  <2>2. PICK g \in [0 .. Len(v) -> S] : Follows(g, S, h, b, v)
    OBVIOUS
  <2> DEFINE u == Append(v, c)
             f == [n \in 0 .. Len(v) + 1 |-> IF n <= Len(v) THEN g[n]
                                             ELSE h[<<g[Len(v)], c>>]]
  <2>3. /\ u \in Seq(B) /\ Len(u) = Len(v) + 1 /\ u[Len(v) + 1] = c
        /\ \A n \in 1 .. Len(v) : u[n] = v[n]
    BY <2>1
  <2>4. /\ \A n \in 0 .. Len(v) : f[n] = g[n] /\ f[n] \in S
        /\ f[Len(v) + 1] = h[<<g[Len(v)], c>>]
    <3>1. /\ \A n \in 0 .. Len(v) : n \in 0 .. Len(v) + 1 /\ n <= Len(v)
          /\ Len(v) + 1 \in 0 .. Len(v) + 1 /\ ~(Len(v) + 1 <= Len(v))
      BY <2>1
    <3>2. \A n \in 0 .. Len(v) : g[n] \in S
      OBVIOUS
    <3> QED BY <3>1, <3>2, Zenon
  <2>5. h[<<g[Len(v)], c>>] \in S
    <3>1. Len(v) \in 0 .. Len(v)
      BY <2>1
    <3>2. g[Len(v)] \in S
      BY <3>1, Zenon
    <3> QED BY <3>2
  <2>6. f \in [0 .. Len(u) -> S]
    BY <2>1, <2>3, <2>5
  <2> HIDE DEF f, u
  <2>7. ASSUME NEW n \in 1 .. Len(u) PROVE f[n] = h[<<f[n - 1], u[n]>>]
    <3>1. CASE n = Len(v) + 1
      <4>1. n - 1 = Len(v) /\ Len(v) \in 0 .. Len(v)
        BY <3>1, <2>1
      <4> QED BY <3>1, <4>1, <2>3, <2>4
    <3>2. CASE n # Len(v) + 1
      <4>1. n \in 1 .. Len(v) /\ n \in 0 .. Len(v) /\ n - 1 \in 0 .. Len(v)
        BY <3>2, <2>1, <2>3
      <4>2. g[n] = h[<<g[n - 1], v[n]>>]
        BY <4>1, <2>2, <2>4 DEF Follows
      <4> QED BY <4>1, <4>2, <2>3, <2>4
    <3> QED BY <3>1, <3>2
  <2>8. f[0] = b
    BY <2>1, <2>2, <2>4 DEF Follows
  <2>9. Follows(f, S, h, b, u)
    BY <2>7, <2>8 DEF Follows
  <2> QED BY <2>3, <2>6, <2>9 DEF u
<1> HIDE DEF T
<1>3. T = Seq(B)
  <2>1. T \in SUBSET Seq(B)
    BY DEF T
  <2> QED BY <1>1, <1>2, <2>1, SequenceInduction
<1> QED BY <1>3 DEF T

(* What a loop returns: the start for no element, and the body's value     *)
(* for one more element.                                                   *)
LoopBody(h, S, B) == h \in [S \X B -> S]
Yields(x, S, h, b, w) == \E g : x = g[Len(w)] /\ Follows(g, S, h, b, w)
Takes(y, h, x, c) == y = h[<<x, c>>]

LEMMA LoopEmpty ==
  ASSUME NEW S, NEW h, NEW b, NEW x, Yields(x, S, h, b, <<>>)
  PROVE  x = b
BY DEF Follows, Yields

LEMMA LoopType ==
  ASSUME NEW S, NEW B, NEW h, LoopBody(h, S, B), NEW b \in S, NEW w \in Seq(B),
         NEW x, Yields(x, S, h, b, w)
  PROVE  x \in S
<1>1. PICK g : x = g[Len(w)] /\ Follows(g, S, h, b, w)
  BY DEF Yields
<1>2. Len(w) \in 0 .. Len(w) /\ h \in [S \X B -> S]
  BY DEF LoopBody
<1> QED BY <1>1, <1>2, FollowsStays

LEMMA LoopAppend ==
  ASSUME NEW S, NEW B, NEW h, LoopBody(h, S, B), NEW b \in S, NEW w \in Seq(B), NEW c \in B,
         NEW x, Yields(x, S, h, b, w),
         NEW y, Yields(y, S, h, b, Append(w, c))
  PROVE  Takes(y, h, x, c)
<1>f. PICK f : x = f[Len(w)] /\ Follows(f, S, h, b, w)
  BY DEF Yields
<1>g. PICK g : y = g[Len(Append(w, c))] /\ Follows(g, S, h, b, Append(w, c))
  BY DEF Yields
<1>h. h \in [S \X B -> S]
  BY DEF LoopBody
<1> DEFINE u == Append(w, c)
<1>1. /\ u \in Seq(B) /\ Len(u) = Len(w) + 1 /\ u[Len(w) + 1] = c /\ Len(w) \in Nat
      /\ \A n \in 1 .. Len(w) : u[n] = w[n]
  OBVIOUS
<1>2. Follows(g, S, h, b, u)
  BY <1>g
<1> HIDE DEF u
<1>3. /\ \A n \in 0 .. Len(w) : f[n] \in S
      /\ \A n \in 0 .. Len(u) : g[n] \in S
  BY <1>1, <1>2, <1>f, <1>h, FollowsStays
<1> DEFINE N == {n \in Nat : n <= Len(w) => f[n] = g[n]}
<1>4. 0 \in N
  BY <1>2, <1>f DEF Follows
<1>5. ASSUME NEW n \in N PROVE n + 1 \in N
  <2> SUFFICES ASSUME n + 1 <= Len(w) PROVE f[n + 1] = g[n + 1]
    BY DEF N
  <2>1. /\ n + 1 \in 1 .. Len(w) /\ n + 1 \in 1 .. Len(u) /\ (n + 1) - 1 = n
        /\ n \in 0 .. Len(w) /\ n \in 0 .. Len(u)
    BY <1>1
  <2>2. f[n] = g[n] /\ f[n] \in S
    BY <2>1, <1>3
  <2>3. f[n + 1] = h[<<f[n], w[n + 1]>>]
    BY <2>1, <2>2, <1>f DEF Follows
  <2>4. g[n + 1] = h[<<g[n], u[n + 1]>>]
    BY <2>1, <2>2, <1>2 DEF Follows
  <2> QED BY <2>1, <2>2, <2>3, <2>4, <1>1
<1> HIDE DEF N
<1>6. N = Nat
  <2>1. N \in SUBSET Nat
    BY DEF N
  <2> QED BY <1>4, <1>5, <2>1, NumberInduction
<1>7. f[Len(w)] = g[Len(w)] /\ g[Len(w)] \in S
  BY <1>1, <1>3, <1>6 DEF N
<1>8. Len(w) + 1 \in 1 .. Len(u) /\ (Len(w) + 1) - 1 = Len(w)
  BY <1>1
<1>9. g[Len(w) + 1] = h[<<f[Len(w)], c>>]
  BY <1>1, <1>2, <1>7, <1>8 DEF Follows
<1>10. x = f[Len(w)] /\ y = g[Len(w) + 1]
  BY <1>1, <1>f, <1>g DEF u
<1> QED BY <1>9, <1>10 DEF Takes

-----------------------------------------------------------------------------
(* The parser on text without control bytes. *)
Plain == Byte \ {"control"}
State == [tokens : Seq(Seq(Plain)), current : Seq(Plain), quoted : BOOLEAN,
          escaped : BOOLEAN, bad : BOOLEAN]

LEMMA PlainBytes ==
  /\ {"slash", "space", "quote", "backslash"} \subseteq Plain
  /\ Letters \subseteq Plain /\ "control" \notin Plain
<1>1. /\ "slash" # "control" /\ "space" # "control" /\ "quote" # "control"
      /\ "backslash" # "control" /\ "a" # "control" /\ "b" # "control"
      /\ "A" # "control" /\ "B" # "control"
  OBVIOUS
<1>2. "slash" \in Plain /\ "space" \in Plain /\ "quote" \in Plain /\ "backslash" \in Plain
  BY <1>1, SlashAssumptions, Zenon DEF Plain, Escapable
<1>3. "a" \in Plain /\ "b" \in Plain /\ "A" \in Plain /\ "B" \in Plain
  BY <1>1, SlashAssumptions, Zenon DEF Plain, Letters
<1>4. "control" \notin Plain
  BY DEF Plain
<1> QED BY <1>2, <1>3, <1>4, Zenon DEF Letters

LEMMA StateFields ==
  ASSUME NEW s \in State
  PROVE  /\ s.tokens \in Seq(Seq(Plain)) /\ s.current \in Seq(Plain)
         /\ s.quoted \in BOOLEAN /\ s.escaped \in BOOLEAN /\ s.bad \in BOOLEAN
BY DEF State

(* The state that reading text has led to: an error, or these tokens and   *)
(* this beginning of the next one.                                         *)
Holds(s, done, text, inside) ==
  s.tokens = done /\ s.current = text /\ (s.quoted <=> inside)
At(s, done, text, inside) ==
  s \in State /\ (s.bad \/ (Holds(s, done, text, inside) /\ ~s.escaped))

LEMMA SetBad ==
  ASSUME NEW s \in State, NEW b \in BOOLEAN
  PROVE  /\ [s EXCEPT !.bad = b] \in State /\ [s EXCEPT !.bad = b].bad = b
         /\ [s EXCEPT !.bad = b].tokens = s.tokens /\ [s EXCEPT !.bad = b].current = s.current
         /\ [s EXCEPT !.bad = b].quoted = s.quoted /\ [s EXCEPT !.bad = b].escaped = s.escaped
BY Zenon DEF State

LEMMA SetEscaped ==
  ASSUME NEW s \in State, NEW b \in BOOLEAN
  PROVE  /\ [s EXCEPT !.escaped = b] \in State /\ [s EXCEPT !.escaped = b].escaped = b
         /\ [s EXCEPT !.escaped = b].tokens = s.tokens /\ [s EXCEPT !.escaped = b].current = s.current
         /\ [s EXCEPT !.escaped = b].quoted = s.quoted /\ [s EXCEPT !.escaped = b].bad = s.bad
BY Zenon DEF State

LEMMA SetQuoted ==
  ASSUME NEW s \in State, NEW b \in BOOLEAN
  PROVE  /\ [s EXCEPT !.quoted = b] \in State /\ [s EXCEPT !.quoted = b].quoted = b
         /\ [s EXCEPT !.quoted = b].tokens = s.tokens /\ [s EXCEPT !.quoted = b].current = s.current
         /\ [s EXCEPT !.quoted = b].escaped = s.escaped /\ [s EXCEPT !.quoted = b].bad = s.bad
BY Zenon DEF State

LEMMA PushFields ==
  ASSUME NEW s \in State, NEW c \in Plain
  PROVE  /\ Push(s, c) \in State /\ Push(s, c).current = Append(s.current, c)
         /\ Push(s, c).tokens = s.tokens /\ Push(s, c).quoted = s.quoted
         /\ Push(s, c).escaped = s.escaped /\ Push(s, c).bad = s.bad
<1>1. Append(s.current, c) \in Seq(Plain)
  BY StateFields
<1> QED BY <1>1, Zenon DEF Push, State

LEMMA FlushFields ==
  ASSUME NEW s \in State
  PROVE  /\ Flush(s) \in State /\ Flush(s).current = <<>>
         /\ Flush(s).tokens = IF s.current = <<>> THEN s.tokens ELSE Append(s.tokens, s.current)
         /\ Flush(s).quoted = s.quoted /\ Flush(s).escaped = s.escaped
         /\ Flush(s).bad = s.bad
<1>1. Append(s.tokens, s.current) \in Seq(Seq(Plain)) /\ <<>> \in Seq(Plain)
  BY StateFields
<1>2. CASE s.current = <<>>
  BY <1>2, Zenon DEF Flush
<1>3. CASE s.current # <<>>
  <2>1. Flush(s) = [s EXCEPT !.tokens = Append(@, s.current), !.current = <<>>]
    BY <1>3, Zenon DEF Flush
  <2> DEFINE m == [s EXCEPT !.tokens = Append(s.tokens, s.current)]
  <2>2. /\ m \in State /\ m.tokens = Append(s.tokens, s.current) /\ m.quoted = s.quoted
        /\ m.escaped = s.escaped /\ m.bad = s.bad
    BY <1>1, Zenon DEF State
  <2>3. Flush(s) = [m EXCEPT !.current = <<>>]
    BY <2>1, Zenon
  <2> HIDE DEF m
  <2>4. /\ [m EXCEPT !.current = <<>>] \in State /\ [m EXCEPT !.current = <<>>].current = <<>>
        /\ [m EXCEPT !.current = <<>>].tokens = m.tokens
        /\ [m EXCEPT !.current = <<>>].quoted = m.quoted
        /\ [m EXCEPT !.current = <<>>].escaped = m.escaped
        /\ [m EXCEPT !.current = <<>>].bad = m.bad
    BY <1>1, <2>2, Zenon DEF State
  <2> QED BY <1>3, <2>2, <2>3, <2>4, Zenon
<1> QED BY <1>2, <1>3

(* What a byte leads to, before the number of tokens is checked. *)
Reads(s, c) ==
  IF c = "control" THEN [s EXCEPT !.bad = TRUE]
  ELSE IF s.escaped THEN [Push(s, c) EXCEPT !.escaped = FALSE, !.bad = c \notin Escapable]
  ELSE IF c = "backslash" THEN [s EXCEPT !.escaped = TRUE]
  ELSE IF c = "quote" THEN [s EXCEPT !.quoted = ~@]
  ELSE IF ~s.quoted /\ c \in Blanks THEN Flush(s)
  ELSE [Push(s, c) EXCEPT !.bad = Len(s.current) >= MaxToken]

LEMMA ReadsCases ==
  ASSUME NEW s \in State, NEW c \in Plain
  PROVE  /\ s.escaped => Reads(s, c) = [Push(s, c) EXCEPT !.escaped = FALSE,
                                                           !.bad = c \notin Escapable]
         /\ ~s.escaped /\ c = "backslash" => Reads(s, c) = [s EXCEPT !.escaped = TRUE]
         /\ ~s.escaped /\ c = "quote" => Reads(s, c) = [s EXCEPT !.quoted = ~@]
         /\ ~s.escaped /\ c = "space" /\ ~s.quoted => Reads(s, c) = Flush(s)
         /\ ~s.escaped /\ c = "tab" /\ ~s.quoted => Reads(s, c) = Flush(s)
         /\ ~s.escaped /\ c \notin {"backslash", "quote"} /\ (s.quoted \/ c \notin Blanks)
            => Reads(s, c) = [Push(s, c) EXCEPT !.bad = Len(s.current) >= MaxToken]
<1>1. /\ c # "control" /\ "backslash" # "quote" /\ "space" # "quote" /\ "space" # "backslash"
      /\ "tab" # "quote" /\ "tab" # "backslash"
  BY PlainBytes
<1>2. "space" \in Blanks /\ "tab" \in Blanks /\ ("space" # "backslash") /\ ("tab" # "backslash")
  BY <1>1, Zenon DEF Blanks
<1>3. CASE s.escaped
  <2>1. Reads(s, c) = [Push(s, c) EXCEPT !.escaped = FALSE, !.bad = c \notin Escapable]
    BY <1>1, <1>3, Zenon DEF Reads
  <2> QED BY <1>1, <1>3, <2>1, Zenon
<1>4. CASE ~s.escaped /\ c = "backslash"
  <2>1. Reads(s, c) = [s EXCEPT !.escaped = TRUE]
    BY <1>1, <1>4, Zenon DEF Reads
  <2> QED BY <1>1, <1>4, <2>1, Zenon
<1>5. CASE ~s.escaped /\ c = "quote"
  <2>1. Reads(s, c) = [s EXCEPT !.quoted = ~@]
    BY <1>1, <1>5, Zenon DEF Reads
  <2> QED BY <1>1, <1>5, <2>1, Zenon
<1>6. CASE ~s.escaped /\ c # "backslash" /\ c # "quote" /\ ~s.quoted /\ c \in Blanks
  <2>1. Reads(s, c) = Flush(s)
    BY <1>1, <1>6, Zenon DEF Reads
  <2> QED BY <1>6, <2>1, Zenon
<1>7. CASE ~s.escaped /\ c # "backslash" /\ c # "quote" /\ (s.quoted \/ c \notin Blanks)
  <2>1. Reads(s, c) = [Push(s, c) EXCEPT !.bad = Len(s.current) >= MaxToken]
    BY <1>1, <1>7, Zenon DEF Reads
  <2>2. ~(~s.quoted /\ c = "space") /\ ~(~s.quoted /\ c = "tab")
    BY <1>2, <1>7, Zenon
  <2> QED BY <1>7, <2>1, <2>2, Zenon
<1> QED BY <1>3, <1>4, <1>5, <1>6, <1>7, Zenon

LEMMA ReadsType ==
  ASSUME NEW s \in State, NEW c \in Plain PROVE Reads(s, c) \in State
<1>1. (c \notin Escapable) \in BOOLEAN /\ (Len(s.current) >= MaxToken) \in BOOLEAN
  OBVIOUS
<1>2. [s EXCEPT !.escaped = TRUE] \in State /\ [s EXCEPT !.quoted = ~@] \in State
  BY SetEscaped, SetQuoted, Zenon
<1>3. [Push(s, c) EXCEPT !.bad = Len(s.current) >= MaxToken] \in State
  BY <1>1, PushFields, SetBad, Zenon
<1>4. [Push(s, c) EXCEPT !.escaped = FALSE, !.bad = c \notin Escapable] \in State
  <2>1. [Push(s, c) EXCEPT !.escaped = FALSE] \in State
    BY PushFields, SetEscaped, Zenon
  <2>2. [[Push(s, c) EXCEPT !.escaped = FALSE] EXCEPT !.bad = c \notin Escapable] \in State
    BY <1>1, <2>1, SetBad, Zenon
  <2> QED BY <2>2, Zenon
<1>5. Flush(s) \in State
  BY FlushFields, Zenon
<1>6. c \in Blanks => c = "space" \/ c = "tab"
  BY Zenon DEF Blanks
<1>7. c \in {"backslash", "quote"} => c = "backslash" \/ c = "quote"
  BY Zenon
<1> QED BY <1>2, <1>3, <1>4, <1>5, <1>6, <1>7, ReadsCases, Zenon

LEMMA ParseByteType ==
  ASSUME NEW s \in State, NEW c \in Plain
  PROVE  /\ ParseByte(s, c) \in State
         /\ s.bad => ParseByte(s, c) = s
         /\ ~s.bad => \/ ParseByte(s, c).bad
                      \/ /\ ~Reads(s, c).bad
                         /\ ParseByte(s, c).tokens = Reads(s, c).tokens
                         /\ ParseByte(s, c).current = Reads(s, c).current
                         /\ ParseByte(s, c).quoted = Reads(s, c).quoted
                         /\ ParseByte(s, c).escaped = Reads(s, c).escaped
<1>1. CASE s.bad
  BY <1>1, Zenon DEF ParseByte
<1>2. CASE ~s.bad
  <2> DEFINE r == Reads(s, c)
  <2>1. r \in State
    BY ReadsType
  <2>2. PICK b \in BOOLEAN : ParseByte(s, c) = [r EXCEPT !.bad = b] /\ (b \/ ~r.bad)
    <3> DEFINE v == r.bad \/ Len(r.tokens) > MaxTokens
    <3>1. ParseByte(s, c) = [r EXCEPT !.bad = v]
      BY <1>2, Zenon DEF ParseByte, Reads
    <3>2. r.bad \in BOOLEAN
      BY <2>1, StateFields, Zenon
    <3>3. v \in BOOLEAN /\ (v \/ ~r.bad)
      BY <3>2
    <3> HIDE DEF v, r
    <3> QED BY <3>1, <3>3
  <2> HIDE DEF r
  <2>3. /\ [r EXCEPT !.bad = b] \in State /\ [r EXCEPT !.bad = b].bad = b
        /\ [r EXCEPT !.bad = b].tokens = r.tokens /\ [r EXCEPT !.bad = b].current = r.current
        /\ [r EXCEPT !.bad = b].quoted = r.quoted /\ [r EXCEPT !.bad = b].escaped = r.escaped
    BY <2>1, SetBad, Zenon
  <2>4. /\ ParseByte(s, c) \in State /\ ParseByte(s, c).bad = b
        /\ ParseByte(s, c).tokens = r.tokens /\ ParseByte(s, c).current = r.current
        /\ ParseByte(s, c).quoted = r.quoted /\ ParseByte(s, c).escaped = r.escaped
    BY <2>2, <2>3, Zenon
  <2> QED BY <1>2, <2>2, <2>4, Zenon DEF r
<1> QED BY <1>1, <1>2

LEMMA PushByte ==
  ASSUME NEW s, NEW d, NEW x, NEW q \in BOOLEAN, At(s, d, x, q),
         NEW c \in Plain, c \notin {"backslash", "quote"}, q \/ c \notin Blanks
  PROVE  At(ParseByte(s, c), d, Append(x, c), q)
<1>1. s \in State
  BY DEF At
<1>2. CASE s.bad
  BY <1>1, <1>2, ParseByteType, Zenon DEF At
<1>3. CASE ~s.bad
  <2>1. s.tokens = d /\ s.current = x /\ (s.quoted <=> q) /\ ~s.escaped
    BY <1>3, Zenon DEF At, Holds
  <2>2. PICK v \in BOOLEAN : Reads(s, c) = [Push(s, c) EXCEPT !.bad = v]
    <3>1. Reads(s, c) = [Push(s, c) EXCEPT !.bad = Len(s.current) >= MaxToken]
      BY <1>1, <2>1, ReadsCases, Zenon
    <3>2. (Len(s.current) >= MaxToken) \in BOOLEAN
      OBVIOUS
    <3> QED BY <3>1, <3>2, Zenon
  <2>3. /\ [Push(s, c) EXCEPT !.bad = v].tokens = Push(s, c).tokens
        /\ [Push(s, c) EXCEPT !.bad = v].current = Push(s, c).current
        /\ [Push(s, c) EXCEPT !.bad = v].quoted = Push(s, c).quoted
        /\ [Push(s, c) EXCEPT !.bad = v].escaped = Push(s, c).escaped
    BY <1>1, PushFields, SetBad, Zenon
  <2>4. /\ Reads(s, c).tokens = s.tokens /\ Reads(s, c).current = Append(s.current, c)
        /\ Reads(s, c).quoted = s.quoted /\ Reads(s, c).escaped = s.escaped
    BY <1>1, <2>2, <2>3, PushFields, Zenon
  <2> QED BY <1>1, <1>3, <2>1, <2>4, ParseByteType, Zenon DEF At, Holds
<1> QED BY <1>2, <1>3

LEMMA QuoteByte ==
  ASSUME NEW s, NEW d, NEW x, NEW q \in BOOLEAN, At(s, d, x, q)
  PROVE  At(ParseByte(s, "quote"), d, x, ~q)
<1>1. s \in State /\ "quote" \in Plain
  BY PlainBytes, Zenon DEF At
<1>2. CASE s.bad
  BY <1>1, <1>2, ParseByteType, Zenon DEF At
<1>3. CASE ~s.bad
  <2>1. s.tokens = d /\ s.current = x /\ (s.quoted <=> q) /\ ~s.escaped
    BY <1>3, Zenon DEF At, Holds
  <2>2. PICK v \in BOOLEAN : Reads(s, "quote") = [s EXCEPT !.quoted = v] /\ (v <=> ~q)
    <3>1. Reads(s, "quote") = [s EXCEPT !.quoted = ~s.quoted]
      BY <1>1, <2>1, ReadsCases, Zenon
    <3>2. (~s.quoted) \in BOOLEAN /\ ((~s.quoted) <=> ~q)
      BY <2>1
    <3> QED BY <3>1, <3>2, Zenon
  <2>3. /\ Reads(s, "quote").tokens = s.tokens /\ Reads(s, "quote").current = s.current
        /\ Reads(s, "quote").quoted = v /\ Reads(s, "quote").escaped = s.escaped
    BY <1>1, <2>2, SetQuoted, Zenon
  <2> QED BY <1>1, <1>3, <2>1, <2>2, <2>3, ParseByteType, Zenon DEF At, Holds
<1> QED BY <1>2, <1>3

LEMMA SpaceByte ==
  ASSUME NEW s, NEW d, NEW x, At(s, d, x, FALSE)
  PROVE  At(ParseByte(s, "space"), IF x = <<>> THEN d ELSE Append(d, x), <<>>, FALSE)
<1>1. s \in State /\ "space" \in Plain
  BY PlainBytes, Zenon DEF At
<1>2. CASE s.bad
  BY <1>1, <1>2, ParseByteType, Zenon DEF At
<1>3. CASE ~s.bad
  <2>1. s.tokens = d /\ s.current = x /\ ~s.quoted /\ ~s.escaped
    BY <1>3, Zenon DEF At, Holds
  <2>2. Reads(s, "space") = Flush(s)
    BY <1>1, <2>1, ReadsCases, Zenon
  <2>3. /\ Reads(s, "space").tokens = IF x = <<>> THEN d ELSE Append(d, x)
        /\ Reads(s, "space").current = <<>>
        /\ ~Reads(s, "space").quoted /\ ~Reads(s, "space").escaped
    BY <1>1, <2>1, <2>2, FlushFields, Zenon
  <2> QED BY <1>1, <1>3, <2>3, ParseByteType, Zenon DEF At, Holds
<1> QED BY <1>2, <1>3

LEMMA EscapeBytes ==
  ASSUME NEW s, NEW d, NEW x, NEW q \in BOOLEAN, At(s, d, x, q),
         NEW c \in {"backslash", "quote"}
  PROVE  At(ParseByte(ParseByte(s, "backslash"), c), d, Append(x, c), q)
<1>1. s \in State /\ "backslash" \in Plain /\ c \in Plain
  BY PlainBytes, Zenon DEF At
<1> DEFINE e == ParseByte(s, "backslash")
<1>2. e \in State
  BY <1>1, ParseByteType, Zenon
<1>3. CASE e.bad
  BY <1>1, <1>2, <1>3, ParseByteType, Zenon DEF At
<1>4. CASE ~e.bad
  <2>1. ~s.bad
    BY <1>1, <1>4, ParseByteType, Zenon
  <2>2. s.tokens = d /\ s.current = x /\ (s.quoted <=> q) /\ ~s.escaped
    BY <2>1, Zenon DEF At, Holds
  <2>3. Reads(s, "backslash") = [s EXCEPT !.escaped = TRUE]
    BY <1>1, <2>2, ReadsCases, Zenon
  <2>4. /\ [s EXCEPT !.escaped = TRUE].tokens = s.tokens
        /\ [s EXCEPT !.escaped = TRUE].current = s.current
        /\ [s EXCEPT !.escaped = TRUE].quoted = s.quoted
        /\ [s EXCEPT !.escaped = TRUE].escaped = TRUE
    BY <1>1, SetEscaped, Zenon
  <2>5. e.tokens = d /\ e.current = x /\ (e.quoted <=> q) /\ e.escaped
    BY <1>1, <1>4, <2>1, <2>2, <2>3, <2>4, ParseByteType, Zenon
  <2> HIDE DEF e
  <2>6. PICK v \in BOOLEAN :
          Reads(e, c) = [Push(e, c) EXCEPT !.escaped = FALSE, !.bad = v]
    <3>1. Reads(e, c) = [Push(e, c) EXCEPT !.escaped = FALSE, !.bad = c \notin Escapable]
      BY <1>1, <1>2, <2>5, ReadsCases, Zenon
    <3>2. (c \notin Escapable) \in BOOLEAN
      OBVIOUS
    <3> QED BY <3>1, <3>2, Zenon
  <2> DEFINE m == [Push(e, c) EXCEPT !.escaped = FALSE]
  <2>7. /\ m \in State /\ m.tokens = Push(e, c).tokens /\ m.current = Push(e, c).current
        /\ m.quoted = Push(e, c).quoted /\ m.escaped = FALSE
    BY <1>1, <1>2, PushFields, SetEscaped, Zenon
  <2>8. Reads(e, c) = [m EXCEPT !.bad = v]
    BY <2>6, Zenon
  <2> HIDE DEF m
  <2>9. /\ Reads(e, c).tokens = m.tokens /\ Reads(e, c).current = m.current
        /\ Reads(e, c).quoted = m.quoted /\ Reads(e, c).escaped = m.escaped
    <3>1. /\ [m EXCEPT !.bad = v].tokens = m.tokens /\ [m EXCEPT !.bad = v].current = m.current
          /\ [m EXCEPT !.bad = v].quoted = m.quoted /\ [m EXCEPT !.bad = v].escaped = m.escaped
      BY <2>7, SetBad, Zenon
    <3> QED BY <2>8, <3>1, Zenon
  <2>10. /\ Reads(e, c).tokens = d /\ Reads(e, c).current = Append(x, c)
         /\ (Reads(e, c).quoted <=> q) /\ ~Reads(e, c).escaped
    BY <1>1, <1>2, <2>5, <2>7, <2>9, PushFields, Zenon
  <2>11. At(ParseByte(e, c), d, Append(x, c), q)
    BY <1>1, <1>2, <1>4, <2>10, ParseByteType, Zenon DEF At, Holds
  <2> QED BY <2>11 DEF e
<1> QED BY <1>3, <1>4

-----------------------------------------------------------------------------
(* The loops of the model, one by one: what each does for no element and   *)
(* for one more.                                                           *)
ParseStep == [z \in State \X Plain |-> ParseByte(z[1], z[2])]

LEMMA ParseStepType == LoopBody(ParseStep, State, Plain)
<1>1. \A z \in State \X Plain : ParseByte(z[1], z[2]) \in State
  BY ParseByteType
<1> QED BY <1>1 DEF ParseStep, LoopBody

LEMMA RunFollows ==
  ASSUME NEW s \in State, NEW w \in Seq(Plain)
  PROVE  Yields(Run(s, w), State, ParseStep, s, w)
<1> DEFINE F(g) == [n \in 0 .. Len(w) |-> IF n = 0 THEN s ELSE ParseByte(g[n - 1], w[n])]
           G == CHOOSE g : g = F(g)
<1>1. Run(s, w) = G[Len(w)]
  BY DEF Run, Loop
<1>2. PICK f \in [0 .. Len(w) -> State] : Follows(f, State, ParseStep, s, w)
  BY ParseStepType, FollowsExists DEF LoopBody
<1>3. \A n \in 1 .. Len(w) : f[n] = ParseByte(f[n - 1], w[n])
  <2> SUFFICES ASSUME NEW n \in 1 .. Len(w) PROVE f[n] = ParseByte(f[n - 1], w[n])
    OBVIOUS
  <2>1. n - 1 \in 0 .. Len(w) /\ w[n] \in Plain
    OBVIOUS
  <2>2. f[n - 1] \in State
    BY <2>1
  <2>3. f[n] = ParseStep[<<f[n - 1], w[n]>>]
    BY <1>2, <2>2 DEF Follows
  <2> QED BY <2>1, <2>2, <2>3 DEF ParseStep
<1>4. f = F(f)
  <2>1. \A n \in 0 .. Len(w) : n # 0 => n \in 1 .. Len(w)
    OBVIOUS
  <2>2. f[0] = s
    BY <1>2 DEF Follows
  <2>3. \A n \in 0 .. Len(w) : f[n] = IF n = 0 THEN s ELSE ParseByte(f[n - 1], w[n])
    BY <1>3, <2>1, <2>2, Zenon
  <2> QED BY <2>3, Zenon
<1>5. G = F(G)
  BY <1>4, Zenon
<1> HIDE DEF G
<1>6. Follows(G, State, ParseStep, s, w)
  <2>1. 0 \in 0 .. Len(w) /\ \A n \in 1 .. Len(w) : n \in 0 .. Len(w) /\ n # 0
    OBVIOUS
  <2>2. G[0] = s
    BY <1>5, <2>1, Zenon
  <2>3. \A n \in 1 .. Len(w) : G[n] = ParseByte(G[n - 1], w[n])
    BY <1>5, <2>1, Zenon
  <2>4. \A n \in 1 .. Len(w) : G[n - 1] \in State => G[n] = ParseStep[<<G[n - 1], w[n]>>]
    BY <2>3 DEF ParseStep
  <2> QED BY <2>2, <2>4 DEF Follows
<1> QED BY <1>1, <1>6 DEF Yields

LEMMA RunLoop ==
  ASSUME NEW s \in State, NEW w \in Seq(Plain)
  PROVE  /\ Run(s, <<>>) = s /\ Run(s, w) \in State
         /\ \A c \in Plain : Run(s, Append(w, c)) = ParseByte(Run(s, w), c)
<1>1. Run(s, <<>>) = s
  <2>1. Yields(Run(s, <<>>), State, ParseStep, s, <<>>)
    BY RunFollows, EmptySeq
  <2> QED BY <2>1, LoopEmpty
<1>2. Run(s, w) \in State
  BY RunFollows, ParseStepType, LoopType, Zenon
<1>3. ASSUME NEW c \in Plain PROVE Run(s, Append(w, c)) = ParseByte(Run(s, w), c)
  <2>1. Append(w, c) \in Seq(Plain)
    OBVIOUS
  <2>2. Takes(Run(s, Append(w, c)), ParseStep, Run(s, w), c)
    BY <2>1, RunFollows, ParseStepType, LoopAppend, Zenon
  <2> QED BY <1>2, <2>2 DEF Takes, ParseStep
<1> QED BY <1>1, <1>2, <1>3

EscapeStep == [z \in Seq(Plain) \X Plain |-> AppendEscaped(z[1], z[2])]

LEMMA EscapeStepType == LoopBody(EscapeStep, Seq(Plain), Plain)
<1>1. ASSUME NEW c \in Plain PROVE Escaped(c) \in Seq(Plain)
  <2>1. "backslash" \in Plain
    BY PlainBytes
  <2> QED BY <2>1 DEF Escaped
<1>2. \A z \in Seq(Plain) \X Plain : AppendEscaped(z[1], z[2]) \in Seq(Plain)
  <2> SUFFICES ASSUME NEW u \in Seq(Plain), NEW c \in Plain
               PROVE  AppendEscaped(u, c) \in Seq(Plain)
    OBVIOUS
  <2>1. Escaped(c) \in Seq(Plain)
    BY <1>1
  <2> QED BY <2>1 DEF AppendEscaped
<1> QED BY <1>2 DEF EscapeStep, LoopBody

LEMMA EscapedFollows ==
  ASSUME NEW w \in Seq(Plain)
  PROVE  Yields(EscapedText(w), Seq(Plain), EscapeStep, <<>>, w)
<1> DEFINE F(g) == [n \in 0 .. Len(w) |-> IF n = 0 THEN <<>> ELSE AppendEscaped(g[n - 1], w[n])]
           G == CHOOSE g : g = F(g)
<1>1. EscapedText(w) = G[Len(w)]
  BY DEF EscapedText, Loop
<1>2. PICK f \in [0 .. Len(w) -> Seq(Plain)] : Follows(f, Seq(Plain), EscapeStep, <<>>, w)
  <2>1. <<>> \in Seq(Plain)
    OBVIOUS
  <2> QED BY <2>1, EscapeStepType, FollowsExists, Zenon DEF LoopBody
<1>3. \A n \in 1 .. Len(w) : f[n] = AppendEscaped(f[n - 1], w[n])
  <2> SUFFICES ASSUME NEW n \in 1 .. Len(w) PROVE f[n] = AppendEscaped(f[n - 1], w[n])
    OBVIOUS
  <2>1. n - 1 \in 0 .. Len(w) /\ w[n] \in Plain
    OBVIOUS
  <2>2. f[n - 1] \in Seq(Plain)
    BY <2>1
  <2>3. f[n] = EscapeStep[<<f[n - 1], w[n]>>]
    BY <1>2, <2>2 DEF Follows
  <2> QED BY <2>1, <2>2, <2>3 DEF EscapeStep
<1>4. f = F(f)
  <2>1. \A n \in 0 .. Len(w) : n # 0 => n \in 1 .. Len(w)
    OBVIOUS
  <2>2. f[0] = <<>>
    BY <1>2 DEF Follows
  <2>3. \A n \in 0 .. Len(w) : f[n] = IF n = 0 THEN <<>> ELSE AppendEscaped(f[n - 1], w[n])
    BY <1>3, <2>1, <2>2, Zenon
  <2> QED BY <2>3, Zenon
<1>5. G = F(G)
  BY <1>4, Zenon
<1> HIDE DEF G
<1>6. Follows(G, Seq(Plain), EscapeStep, <<>>, w)
  <2>1. 0 \in 0 .. Len(w) /\ \A n \in 1 .. Len(w) : n \in 0 .. Len(w) /\ n # 0
    OBVIOUS
  <2>2. G[0] = <<>>
    BY <1>5, <2>1, Zenon
  <2>3. \A n \in 1 .. Len(w) : G[n] = AppendEscaped(G[n - 1], w[n])
    BY <1>5, <2>1, Zenon
  <2>4. \A n \in 1 .. Len(w) : G[n - 1] \in Seq(Plain) => G[n] = EscapeStep[<<G[n - 1], w[n]>>]
    BY <2>3 DEF EscapeStep
  <2> QED BY <2>2, <2>4 DEF Follows
<1> QED BY <1>1, <1>6 DEF Yields

LEMMA EscapedLoop ==
  ASSUME NEW w \in Seq(Plain)
  PROVE  /\ EscapedText(<<>>) = <<>> /\ EscapedText(w) \in Seq(Plain)
         /\ \A c \in Plain : EscapedText(Append(w, c)) = AppendEscaped(EscapedText(w), c)
<1>0. <<>> \in Seq(Plain)
  OBVIOUS
<1>1. EscapedText(<<>>) = <<>>
  <2>1. Yields(EscapedText(<<>>), Seq(Plain), EscapeStep, <<>>, <<>>)
    BY EscapedFollows, EmptySeq
  <2> QED BY <2>1, LoopEmpty
<1>2. EscapedText(w) \in Seq(Plain)
  BY EscapedFollows, EscapeStepType, LoopType, <1>0, Zenon
<1>3. ASSUME NEW c \in Plain PROVE EscapedText(Append(w, c)) = AppendEscaped(EscapedText(w), c)
  <2>1. Append(w, c) \in Seq(Plain)
    OBVIOUS
  <2>2. Takes(EscapedText(Append(w, c)), EscapeStep, EscapedText(w), c)
    BY <2>1, EscapedFollows, EscapeStepType, LoopAppend, <1>0, Zenon
  <2> QED BY <1>2, <2>2 DEF Takes, EscapeStep
<1> QED BY <1>1, <1>2, <1>3

Line(text, args) == Loop(AppendQuoted, text, args)
LineStep == [z \in Seq(Plain) \X Seq(Plain) |-> AppendQuoted(z[1], z[2])]

LEMMA LineStepType == LoopBody(LineStep, Seq(Plain), Seq(Plain))
<1>1. ASSUME NEW u \in Seq(Plain), NEW a \in Seq(Plain)
      PROVE  AppendQuoted(u, a) \in Seq(Plain)
  <2>1. "space" \in Plain /\ "quote" \in Plain
    BY PlainBytes
  <2>2. <<"space", "quote">> \in Seq(Plain) /\ <<"quote">> \in Seq(Plain)
    BY <2>1
  <2>3. EscapedText(a) \in Seq(Plain)
    BY EscapedLoop
  <2>4. <<"space", "quote">> \o EscapedText(a) \in Seq(Plain)
    BY <2>2, <2>3, ConcatProperties
  <2>5. <<"space", "quote">> \o EscapedText(a) \o <<"quote">> \in Seq(Plain)
    BY <2>2, <2>4, ConcatProperties
  <2> QED BY <2>5, ConcatProperties DEF AppendQuoted
<1>2. \A z \in Seq(Plain) \X Seq(Plain) : AppendQuoted(z[1], z[2]) \in Seq(Plain)
  BY <1>1
<1> QED BY <1>2 DEF LineStep, LoopBody

LEMMA LineFollows ==
  ASSUME NEW u \in Seq(Plain), NEW w \in Seq(Seq(Plain))
  PROVE  Yields(Line(u, w), Seq(Plain), LineStep, u, w)
<1> DEFINE F(g) == [n \in 0 .. Len(w) |-> IF n = 0 THEN u ELSE AppendQuoted(g[n - 1], w[n])]
           G == CHOOSE g : g = F(g)
<1>1. Line(u, w) = G[Len(w)]
  BY DEF Line, Loop
<1>2. PICK f \in [0 .. Len(w) -> Seq(Plain)] : Follows(f, Seq(Plain), LineStep, u, w)
  BY LineStepType, FollowsExists DEF LoopBody
<1>3. \A n \in 1 .. Len(w) : f[n] = AppendQuoted(f[n - 1], w[n])
  <2> SUFFICES ASSUME NEW n \in 1 .. Len(w) PROVE f[n] = AppendQuoted(f[n - 1], w[n])
    OBVIOUS
  <2>1. n - 1 \in 0 .. Len(w) /\ w[n] \in Seq(Plain)
    OBVIOUS
  <2>2. f[n - 1] \in Seq(Plain)
    BY <2>1
  <2>3. f[n] = LineStep[<<f[n - 1], w[n]>>]
    BY <1>2, <2>2 DEF Follows
  <2> QED BY <2>1, <2>2, <2>3 DEF LineStep
<1>4. f = F(f)
  <2>1. \A n \in 0 .. Len(w) : n # 0 => n \in 1 .. Len(w)
    OBVIOUS
  <2>2. f[0] = u
    BY <1>2 DEF Follows
  <2>3. \A n \in 0 .. Len(w) : f[n] = IF n = 0 THEN u ELSE AppendQuoted(f[n - 1], w[n])
    BY <1>3, <2>1, <2>2, Zenon
  <2> QED BY <2>3, Zenon
<1>5. G = F(G)
  BY <1>4, Zenon
<1> HIDE DEF G
<1>6. Follows(G, Seq(Plain), LineStep, u, w)
  <2>1. 0 \in 0 .. Len(w) /\ \A n \in 1 .. Len(w) : n \in 0 .. Len(w) /\ n # 0
    OBVIOUS
  <2>2. G[0] = u
    BY <1>5, <2>1, Zenon
  <2>3. \A n \in 1 .. Len(w) : G[n] = AppendQuoted(G[n - 1], w[n])
    BY <1>5, <2>1, Zenon
  <2>4. \A n \in 1 .. Len(w) : G[n - 1] \in Seq(Plain) => G[n] = LineStep[<<G[n - 1], w[n]>>]
    BY <2>3 DEF LineStep
  <2> QED BY <2>2, <2>4 DEF Follows
<1> QED BY <1>1, <1>6 DEF Yields

LEMMA LineLoop ==
  ASSUME NEW u \in Seq(Plain), NEW w \in Seq(Seq(Plain))
  PROVE  /\ Line(u, <<>>) = u /\ Line(u, w) \in Seq(Plain)
         /\ \A c \in Seq(Plain) : Line(u, Append(w, c)) = AppendQuoted(Line(u, w), c)
<1>1. Line(u, <<>>) = u
  <2>1. Yields(Line(u, <<>>), Seq(Plain), LineStep, u, <<>>)
    BY LineFollows, EmptySeq
  <2> QED BY <2>1, LoopEmpty
<1>2. Line(u, w) \in Seq(Plain)
  BY LineFollows, LineStepType, LoopType, Zenon
<1>3. ASSUME NEW c \in Seq(Plain) PROVE Line(u, Append(w, c)) = AppendQuoted(Line(u, w), c)
  <2>1. Append(w, c) \in Seq(Seq(Plain))
    OBVIOUS
  <2>2. Takes(Line(u, Append(w, c)), LineStep, Line(u, w), c)
    BY <2>1, LineFollows, LineStepType, LoopAppend, Zenon
  <2> QED BY <1>2, <2>2 DEF Takes, LineStep
<1> QED BY <1>1, <1>2, <1>3

KeepStep == [z \in Seq(Seq(Plain)) \X Seq(Plain) |-> KeepNonEmpty(z[1], z[2])]

LEMMA KeepStepType == LoopBody(KeepStep, Seq(Seq(Plain)), Seq(Plain))
<1>1. \A z \in Seq(Seq(Plain)) \X Seq(Plain) : KeepNonEmpty(z[1], z[2]) \in Seq(Seq(Plain))
  BY DEF KeepNonEmpty
<1> QED BY <1>1 DEF KeepStep, LoopBody

LEMMA NonEmptyFollows ==
  ASSUME NEW w \in Seq(Seq(Plain))
  PROVE  Yields(NonEmpty(w), Seq(Seq(Plain)), KeepStep, <<>>, w)
<1> DEFINE F(g) == [n \in 0 .. Len(w) |-> IF n = 0 THEN <<>> ELSE KeepNonEmpty(g[n - 1], w[n])]
           G == CHOOSE g : g = F(g)
<1>1. NonEmpty(w) = G[Len(w)]
  BY DEF NonEmpty, Loop
<1>2. PICK f \in [0 .. Len(w) -> Seq(Seq(Plain))] : Follows(f, Seq(Seq(Plain)), KeepStep, <<>>, w)
  <2>1. <<>> \in Seq(Seq(Plain))
    OBVIOUS
  <2> QED BY <2>1, KeepStepType, FollowsExists, Zenon DEF LoopBody
<1>3. \A n \in 1 .. Len(w) : f[n] = KeepNonEmpty(f[n - 1], w[n])
  <2> SUFFICES ASSUME NEW n \in 1 .. Len(w) PROVE f[n] = KeepNonEmpty(f[n - 1], w[n])
    OBVIOUS
  <2>1. n - 1 \in 0 .. Len(w) /\ w[n] \in Seq(Plain)
    OBVIOUS
  <2>2. f[n - 1] \in Seq(Seq(Plain))
    BY <2>1
  <2>3. f[n] = KeepStep[<<f[n - 1], w[n]>>]
    BY <1>2, <2>2 DEF Follows
  <2> QED BY <2>1, <2>2, <2>3 DEF KeepStep
<1>4. f = F(f)
  <2>1. \A n \in 0 .. Len(w) : n # 0 => n \in 1 .. Len(w)
    OBVIOUS
  <2>2. f[0] = <<>>
    BY <1>2 DEF Follows
  <2>3. \A n \in 0 .. Len(w) : f[n] = IF n = 0 THEN <<>> ELSE KeepNonEmpty(f[n - 1], w[n])
    BY <1>3, <2>1, <2>2, Zenon
  <2> QED BY <2>3, Zenon
<1>5. G = F(G)
  BY <1>4, Zenon
<1> HIDE DEF G
<1>6. Follows(G, Seq(Seq(Plain)), KeepStep, <<>>, w)
  <2>1. 0 \in 0 .. Len(w) /\ \A n \in 1 .. Len(w) : n \in 0 .. Len(w) /\ n # 0
    OBVIOUS
  <2>2. G[0] = <<>>
    BY <1>5, <2>1, Zenon
  <2>3. \A n \in 1 .. Len(w) : G[n] = KeepNonEmpty(G[n - 1], w[n])
    BY <1>5, <2>1, Zenon
  <2>4. \A n \in 1 .. Len(w) : G[n - 1] \in Seq(Seq(Plain)) => G[n] = KeepStep[<<G[n - 1], w[n]>>]
    BY <2>3 DEF KeepStep
  <2> QED BY <2>2, <2>4 DEF Follows
<1> QED BY <1>1, <1>6 DEF Yields

LEMMA NonEmptyLoop ==
  ASSUME NEW w \in Seq(Seq(Plain))
  PROVE  /\ NonEmpty(<<>>) = <<>> /\ NonEmpty(w) \in Seq(Seq(Plain))
         /\ \A c \in Seq(Plain) : NonEmpty(Append(w, c)) = KeepNonEmpty(NonEmpty(w), c)
<1>0. <<>> \in Seq(Seq(Plain))
  OBVIOUS
<1>1. NonEmpty(<<>>) = <<>>
  <2>1. Yields(NonEmpty(<<>>), Seq(Seq(Plain)), KeepStep, <<>>, <<>>)
    BY NonEmptyFollows, EmptySeq
  <2> QED BY <2>1, LoopEmpty
<1>2. NonEmpty(w) \in Seq(Seq(Plain))
  BY NonEmptyFollows, KeepStepType, LoopType, <1>0, Zenon
<1>3. ASSUME NEW c \in Seq(Plain) PROVE NonEmpty(Append(w, c)) = KeepNonEmpty(NonEmpty(w), c)
  <2>1. Append(w, c) \in Seq(Seq(Plain))
    OBVIOUS
  <2>2. Takes(NonEmpty(Append(w, c)), KeepStep, NonEmpty(w), c)
    BY <2>1, NonEmptyFollows, KeepStepType, LoopAppend, <1>0, Zenon
  <2> QED BY <1>2, <2>2 DEF Takes, KeepStep
<1> QED BY <1>1, <1>2, <1>3

-----------------------------------------------------------------------------
(* Reading a text in two parts, and reading single bytes. *)
LEMMA RunConcat ==
  ASSUME NEW s \in State, NEW u \in Seq(Plain), NEW v \in Seq(Plain)
  PROVE  Run(s, u \o v) = Run(Run(s, u), v)
<1> DEFINE T == {t \in Seq(Plain) : Run(s, u \o t) = Run(Run(s, u), t)}
<1>1. Run(s, u) \in State
  BY RunLoop, Zenon
<1>2. <<>> \in T
  <2>1. u \o <<>> = u /\ <<>> \in Seq(Plain)
    OBVIOUS
  <2>2. Run(Run(s, u), <<>>) = Run(s, u)
    BY <1>1, <2>1, RunLoop, Zenon
  <2> QED BY <2>1, <2>2
<1>3. ASSUME NEW t \in T, NEW c \in Plain PROVE Append(t, c) \in T
  <2>1. t \in Seq(Plain) /\ Run(s, u \o t) = Run(Run(s, u), t)
    OBVIOUS
  <2>2. /\ u \o Append(t, c) = Append(u \o t, c) /\ u \o t \in Seq(Plain)
        /\ Append(t, c) \in Seq(Plain)
    BY <2>1
  <2>3. Run(s, Append(u \o t, c)) = ParseByte(Run(s, u \o t), c)
    BY <2>2, RunLoop, Zenon
  <2>4. Run(Run(s, u), Append(t, c)) = ParseByte(Run(Run(s, u), t), c)
    BY <1>1, <2>1, RunLoop, Zenon
  <2>5. Run(s, u \o Append(t, c)) = Run(Run(s, u), Append(t, c))
    BY <2>1, <2>2, <2>3, <2>4, Zenon
  <2> QED BY <2>2, <2>5, Zenon
<1> HIDE DEF T
<1>4. T = Seq(Plain)
  <2>1. T \in SUBSET Seq(Plain)
    BY DEF T
  <2> QED BY <1>2, <1>3, <2>1, SequenceInduction
<1> QED BY <1>4 DEF T

LEMMA RunBytes ==
  ASSUME NEW s \in State, NEW b \in Plain, NEW c \in Plain
  PROVE  Run(s, <<b>>) = ParseByte(s, b) /\ Run(s, <<b, c>>) = ParseByte(ParseByte(s, b), c)
<1>1. /\ <<>> \in Seq(Plain) /\ <<b>> \in Seq(Plain)
      /\ <<b>> = Append(<<>>, b) /\ <<b, c>> = Append(<<b>>, c)
  OBVIOUS
<1>2. Run(s, <<>>) = s
  BY <1>1, RunLoop, Zenon
<1>3. Run(s, Append(<<>>, b)) = ParseByte(Run(s, <<>>), b)
  BY <1>1, RunLoop, Zenon
<1>4. Run(s, Append(<<b>>, c)) = ParseByte(Run(s, <<b>>), c)
  BY <1>1, RunLoop, Zenon
<1>5. Run(s, <<b>>) = ParseByte(s, b)
  BY <1>1, <1>2, <1>3
<1>6. Run(s, <<b, c>>) = ParseByte(Run(s, <<b>>), c)
  BY <1>1, <1>4
<1> QED BY <1>5, <1>6

(* A name is read as it stands. *)
LEMMA NameRead ==
  ASSUME NEW w \in Seq(Letters)
  PROVE  w \in Seq(Plain) /\ At(Run(Start, w), <<>>, w, FALSE)
<1> DEFINE T == {t \in Seq(Letters) : t \in Seq(Plain) /\ At(Run(Start, t), <<>>, t, FALSE)}
<1>1. Start \in State
  BY DEF Start, State
<1>2. <<>> \in T
  <2>1. <<>> \in Seq(Plain) /\ <<>> \in Seq(Letters)
    OBVIOUS
  <2>2. Run(Start, <<>>) = Start
    BY <1>1, <2>1, RunLoop, Zenon
  <2>3. Start.tokens = <<>> /\ Start.current = <<>> /\ ~Start.quoted /\ ~Start.escaped
    BY DEF Start
  <2>4. At(Start, <<>>, <<>>, FALSE)
    BY <1>1, <2>3, Zenon DEF At, Holds
  <2> QED BY <2>1, <2>2, <2>4, Zenon
<1>3. ASSUME NEW t \in T, NEW c \in Letters PROVE Append(t, c) \in T
  <2>1. t \in Seq(Letters) /\ t \in Seq(Plain) /\ At(Run(Start, t), <<>>, t, FALSE)
    OBVIOUS
  <2>2. c \in Plain
    BY PlainBytes
  <2>3. c \notin {"backslash", "quote"} /\ c \notin Blanks
    BY DEF Letters, Blanks
  <2>4. Append(t, c) \in Seq(Letters) /\ Append(t, c) \in Seq(Plain)
    BY <2>1, <2>2
  <2>5. Run(Start, Append(t, c)) = ParseByte(Run(Start, t), c)
    BY <1>1, <2>1, <2>2, RunLoop, Zenon
  <2>6. At(ParseByte(Run(Start, t), c), <<>>, Append(t, c), FALSE)
    BY <2>1, <2>2, <2>3, PushByte, Zenon
  <2> QED BY <2>4, <2>5, <2>6, Zenon
<1> HIDE DEF T
<1>4. T = Seq(Letters)
  <2>1. T \in SUBSET Seq(Letters)
    BY DEF T
  <2> QED BY <1>2, <1>3, <2>1, SequenceInduction
<1> QED BY <1>4 DEF T

(* Between quotes, an escaped text is read back as it was. *)
LEMMA EscapedRead ==
  ASSUME NEW s, NEW d, NEW x \in Seq(Plain), At(s, d, x, TRUE), NEW a \in Seq(Plain)
  PROVE  At(Run(s, EscapedText(a)), d, x \o a, TRUE)
<1> DEFINE T == {t \in Seq(Plain) : At(Run(s, EscapedText(t)), d, x \o t, TRUE)}
<1>1. s \in State
  BY DEF At
<1>2. <<>> \in T
  <2>1. <<>> \in Seq(Plain) /\ x \o <<>> = x
    OBVIOUS
  <2>2. EscapedText(<<>>) = <<>>
    BY <2>1, EscapedLoop, Zenon
  <2>3. Run(s, EscapedText(<<>>)) = s
    BY <1>1, <2>1, <2>2, RunLoop, Zenon
  <2> QED BY <2>1, <2>3
<1>3. ASSUME NEW t \in T, NEW c \in Plain PROVE Append(t, c) \in T
  <2>1. t \in Seq(Plain) /\ At(Run(s, EscapedText(t)), d, x \o t, TRUE)
    OBVIOUS
  <2>2. Append(t, c) \in Seq(Plain) /\ x \o Append(t, c) = Append(x \o t, c)
    BY <2>1
  <2>3. EscapedText(t) \in Seq(Plain) /\ EscapedText(Append(t, c)) = EscapedText(t) \o Escaped(c)
    BY <2>1, EscapedLoop, Zenon DEF AppendEscaped
  <2> DEFINE r == Run(s, EscapedText(t))
  <2>4. r \in State
    BY <2>1, Zenon DEF At
  <2>5. "backslash" \in Plain
    BY PlainBytes
  <2>6. Escaped(c) \in Seq(Plain)
    BY <2>5 DEF Escaped
  <2>7. Run(s, EscapedText(Append(t, c))) = Run(r, Escaped(c))
    <3>1. Run(s, EscapedText(t) \o Escaped(c)) = Run(Run(s, EscapedText(t)), Escaped(c))
      BY <1>1, <2>3, <2>6, RunConcat, Zenon
    <3> QED BY <2>3, <3>1, Zenon
  <2>8. At(Run(r, Escaped(c)), d, Append(x \o t, c), TRUE)
    <3> HIDE DEF r
    <3>0. At(r, d, x \o t, TRUE)
      BY <2>1 DEF r
    <3>1. CASE c \in {"backslash", "quote"}
      <4>1. Escaped(c) = <<"backslash", c>>
        BY <3>1, Zenon DEF Escaped
      <4>2. Run(r, <<"backslash", c>>) = ParseByte(ParseByte(r, "backslash"), c)
        BY <2>4, <2>5, RunBytes, Zenon
      <4>3. At(ParseByte(ParseByte(r, "backslash"), c), d, Append(x \o t, c), TRUE)
        BY <3>0, <3>1, EscapeBytes, Zenon
      <4> QED BY <4>1, <4>2, <4>3, Zenon
    <3>2. CASE c \notin {"backslash", "quote"}
      <4>1. Escaped(c) = <<c>>
        BY <3>2, Zenon DEF Escaped
      <4>2. Run(r, <<c>>) = ParseByte(r, c)
        BY <2>4, RunBytes, Zenon
      <4>3. At(ParseByte(r, c), d, Append(x \o t, c), TRUE)
        BY <3>0, <3>2, PushByte, Zenon
      <4> QED BY <4>1, <4>2, <4>3, Zenon
    <3> QED BY <3>1, <3>2
  <2> QED BY <2>2, <2>7, <2>8, Zenon
<1> HIDE DEF T
<1>4. T = Seq(Plain)
  <2>1. T \in SUBSET Seq(Plain)
    BY DEF T
  <2> QED BY <1>2, <1>3, <2>1, SequenceInduction
<1> QED BY <1>4 DEF T

(* The tokens that flushing at this point would leave. *)
Ready(s, toks) ==
  \E d, x : At(s, d, x, FALSE) /\ toks = IF x = <<>> THEN d ELSE Append(d, x)

(* A quoted argument adds one token, unless it is empty. *)
LEMMA QuotedRead ==
  ASSUME NEW s, NEW toks, Ready(s, toks), NEW a \in Seq(Plain)
  PROVE  Ready(Run(s, <<"space", "quote">> \o EscapedText(a) \o <<"quote">>),
               KeepNonEmpty(toks, a))
<1>1. PICK d, x : At(s, d, x, FALSE) /\ toks = IF x = <<>> THEN d ELSE Append(d, x)
  BY DEF Ready
<1>2. s \in State
  BY <1>1, Zenon DEF At
<1>3. "space" \in Plain /\ "quote" \in Plain
  BY PlainBytes
<1>4. /\ <<"space", "quote">> \in Seq(Plain) /\ <<"quote">> \in Seq(Plain)
      /\ <<>> \in Seq(Plain) /\ <<>> \o a = a
  BY <1>3
<1>5. EscapedText(a) \in Seq(Plain)
  BY EscapedLoop, Zenon
<1>6. <<"space", "quote">> \o EscapedText(a) \in Seq(Plain)
  BY <1>4, <1>5, ConcatProperties
<1> DEFINE o == Run(s, <<"space", "quote">>)
           r == Run(o, EscapedText(a))
<1>7. At(o, toks, <<>>, TRUE)
  <2>1. At(ParseByte(s, "space"), toks, <<>>, FALSE)
    BY <1>1, SpaceByte, Zenon
  <2>2. At(ParseByte(ParseByte(s, "space"), "quote"), toks, <<>>, ~FALSE)
    BY <2>1, QuoteByte, Zenon
  <2>3. o = ParseByte(ParseByte(s, "space"), "quote")
    BY <1>2, <1>3, RunBytes, Zenon
  <2>4. At(ParseByte(ParseByte(s, "space"), "quote"), toks, <<>>, TRUE)
    BY <2>2
  <2> QED BY <2>3, <2>4, Zenon
<1>8. o \in State
  BY <1>7, Zenon DEF At
<1> HIDE DEF o
<1>9. At(r, toks, a, TRUE)
  <2>1. At(r, toks, <<>> \o a, TRUE)
    BY <1>4, <1>7, EscapedRead, Zenon
  <2> QED BY <1>4, <2>1
<1>10. r \in State
  BY <1>9, Zenon DEF At
<1>11. Run(s, <<"space", "quote">> \o EscapedText(a)) = r
  BY <1>2, <1>4, <1>5, RunConcat DEF o
<1> HIDE DEF r
<1>12. Run(s, <<"space", "quote">> \o EscapedText(a) \o <<"quote">>) = ParseByte(r, "quote")
  <2>1. Run(s, <<"space", "quote">> \o EscapedText(a) \o <<"quote">>)
          = Run(Run(s, <<"space", "quote">> \o EscapedText(a)), <<"quote">>)
    BY <1>2, <1>4, <1>6, RunConcat, Zenon
  <2>2. Run(r, <<"quote">>) = ParseByte(r, "quote")
    BY <1>3, <1>10, RunBytes, Zenon
  <2> QED BY <1>11, <2>1, <2>2, Zenon
<1>13. At(ParseByte(r, "quote"), toks, a, FALSE)
  <2>1. At(ParseByte(r, "quote"), toks, a, ~TRUE)
    BY <1>9, QuoteByte, Zenon
  <2> QED BY <2>1
<1>14. Ready(ParseByte(r, "quote"), KeepNonEmpty(toks, a))
  BY <1>13, Zenon DEF Ready, KeepNonEmpty
<1> QED BY <1>12, <1>14, Zenon

(* The line written for a name and arguments is read back as the name and  *)
(* the arguments that are not empty.                                       *)
LEMMA LineRead ==
  ASSUME NEW w \in Seq(Letters), w # <<>>, NEW args \in Seq(Seq(Plain))
  PROVE  Ready(Run(Start, Line(w, args)), <<w>> \o NonEmpty(args))
<1> DEFINE T == {as \in Seq(Seq(Plain)) :
                   Ready(Run(Start, Line(w, as)), <<w>> \o NonEmpty(as))}
<1>1. Start \in State /\ w \in Seq(Plain)
  <2>1. Start \in State
    BY DEF Start, State
  <2> QED BY <2>1, NameRead, Zenon
<1>2. <<>> \in T
  <2>1. <<>> \in Seq(Seq(Plain)) /\ <<w>> \o <<>> = <<w>> /\ Append(<<>>, w) = <<w>>
    BY <1>1
  <2>2. Line(w, <<>>) = w /\ NonEmpty(<<>>) = <<>>
    BY <1>1, <2>1, LineLoop, NonEmptyLoop, Zenon
  <2>3. Ready(Run(Start, w), <<w>>)
    BY <2>1, NameRead, Zenon DEF Ready
  <2>4. Ready(Run(Start, Line(w, <<>>)), <<w>> \o NonEmpty(<<>>))
    BY <2>1, <2>2, <2>3, Zenon
  <2> QED BY <2>1, <2>4, Zenon
<1>3. ASSUME NEW as \in T, NEW a \in Seq(Plain) PROVE Append(as, a) \in T
  <2>1. as \in Seq(Seq(Plain)) /\ Ready(Run(Start, Line(w, as)), <<w>> \o NonEmpty(as))
    OBVIOUS
  <2>2. Append(as, a) \in Seq(Seq(Plain))
    BY <2>1, AppendConcat, Zenon
  <2> DEFINE q == <<"space", "quote">> \o EscapedText(a) \o <<"quote">>
  <2>3. Line(w, as) \in Seq(Plain) /\ Line(w, Append(as, a)) = Line(w, as) \o q
    BY <1>1, <2>1, LineLoop, Zenon DEF AppendQuoted
  <2>4. /\ NonEmpty(as) \in Seq(Seq(Plain))
        /\ NonEmpty(Append(as, a)) = KeepNonEmpty(NonEmpty(as), a)
    BY <2>1, NonEmptyLoop, Zenon
  <2>5. <<w>> \o NonEmpty(Append(as, a)) = KeepNonEmpty(<<w>> \o NonEmpty(as), a)
    <3>1. CASE a = <<>>
      BY <2>4, <3>1, Zenon DEF KeepNonEmpty
    <3>2. CASE a # <<>>
      <4>1. NonEmpty(Append(as, a)) = Append(NonEmpty(as), a)
        BY <2>4, <3>2, Zenon DEF KeepNonEmpty
      <4>2. <<w>> \in Seq(Seq(Plain))
        BY <1>1
      <4>3. <<w>> \o Append(NonEmpty(as), a) = Append(<<w>> \o NonEmpty(as), a)
        <5> DEFINE p == <<w>>  n == NonEmpty(as)
        <5>1. p \in Seq(Seq(Plain)) /\ n \in Seq(Seq(Plain))
          BY <2>4, <4>2
        <5> HIDE DEF p, n
        <5>2. p \o Append(n, a) = Append(p \o n, a)
          BY <5>1, AppendConcat
        <5> QED BY <5>2 DEF p, n
      <4> QED BY <3>2, <4>1, <4>3, Zenon DEF KeepNonEmpty
    <3> QED BY <3>1, <3>2
  <2>6. q \in Seq(Plain)
    <3>1. "space" \in Plain /\ "quote" \in Plain
      BY PlainBytes
    <3>2. <<"space", "quote">> \in Seq(Plain) /\ <<"quote">> \in Seq(Plain)
      BY <3>1
    <3>3. EscapedText(a) \in Seq(Plain)
      BY EscapedLoop, Zenon
    <3> QED BY <3>2, <3>3, ConcatProperties
  <2>7. Ready(Run(Run(Start, Line(w, as)), q), KeepNonEmpty(<<w>> \o NonEmpty(as), a))
    BY <2>1, QuotedRead, Zenon
  <2> HIDE DEF q
  <2>8. Run(Start, Line(w, as) \o q) = Run(Run(Start, Line(w, as)), q)
    BY <1>1, <2>3, <2>6, RunConcat, Zenon
  <2>9. Ready(Run(Start, Line(w, Append(as, a))), <<w>> \o NonEmpty(Append(as, a)))
    BY <2>3, <2>5, <2>7, <2>8, Zenon
  <2> QED BY <2>2, <2>9, Zenon
<1> HIDE DEF T
<1>4. T = Seq(Seq(Plain))
  <2>1. T \in SUBSET Seq(Seq(Plain))
    BY DEF T
  <2> QED BY <1>2, <1>3, <2>1, SequenceInduction
<1> QED BY <1>4 DEF T

LEMMA ConcatConcat ==
  ASSUME NEW u \in Seq(Plain), NEW v \in Seq(Plain), NEW w \in Seq(Plain)
  PROVE  (u \o v) \o w = u \o (v \o w)
BY ConcatAssociative

(* The slash stays in front. *)
LEMMA LineSlash ==
  ASSUME NEW w \in Seq(Plain), NEW args \in Seq(Seq(Plain))
  PROVE  Line(<<"slash">> \o w, args) = <<"slash">> \o Line(w, args)
<1> DEFINE T == {as \in Seq(Seq(Plain)) : Line(<<"slash">> \o w, as) = <<"slash">> \o Line(w, as)}
<1>1. <<"slash">> \in Seq(Plain) /\ <<"slash">> \o w \in Seq(Plain)
  BY PlainBytes
<1>2. <<>> \in T
  <2>1. <<>> \in Seq(Seq(Plain))
    OBVIOUS
  <2>2. Line(w, <<>>) = w /\ Line(<<"slash">> \o w, <<>>) = <<"slash">> \o w
    BY <1>1, <2>1, LineLoop, Zenon
  <2> QED BY <2>1, <2>2, Zenon
<1>3. ASSUME NEW as \in T, NEW a \in Seq(Plain) PROVE Append(as, a) \in T
  <2>1. as \in Seq(Seq(Plain)) /\ Line(<<"slash">> \o w, as) = <<"slash">> \o Line(w, as)
    OBVIOUS
  <2>2. Append(as, a) \in Seq(Seq(Plain))
    BY <2>1, AppendConcat, Zenon
  <2> DEFINE q == <<"space", "quote">> \o EscapedText(a) \o <<"quote">>
  <2>3. /\ Line(w, as) \in Seq(Plain) /\ Line(w, Append(as, a)) = Line(w, as) \o q
        /\ Line(<<"slash">> \o w, Append(as, a)) = Line(<<"slash">> \o w, as) \o q
    <3>1. Line(w, as) \in Seq(Plain) /\ Line(w, Append(as, a)) = Line(w, as) \o q
      BY <2>1, LineLoop, Zenon DEF AppendQuoted
    <3>2. Line(<<"slash">> \o w, Append(as, a)) = AppendQuoted(Line(<<"slash">> \o w, as), a)
      BY <1>1, <2>1, LineLoop, Zenon
    <3> QED BY <3>1, <3>2, Zenon DEF AppendQuoted
  <2>4. q \in Seq(Plain)
    <3>1. "space" \in Plain /\ "quote" \in Plain
      BY PlainBytes
    <3>2. <<"space", "quote">> \in Seq(Plain) /\ <<"quote">> \in Seq(Plain)
      BY <3>1
    <3>3. EscapedText(a) \in Seq(Plain)
      BY EscapedLoop, Zenon
    <3> QED BY <3>2, <3>3, ConcatProperties
  <2> HIDE DEF q
  <2>5. (<<"slash">> \o Line(w, as)) \o q = <<"slash">> \o (Line(w, as) \o q)
    <3> DEFINE p == <<"slash">>  n == Line(w, as)
    <3>1. p \in Seq(Plain) /\ n \in Seq(Plain)
      BY <1>1, <2>3
    <3> HIDE DEF p, n
    <3>2. (p \o n) \o q = p \o (n \o q)
      BY <2>4, <3>1, ConcatConcat, Zenon
    <3> QED BY <3>2 DEF p, n
  <2>6. Line(<<"slash">> \o w, Append(as, a)) = <<"slash">> \o Line(w, Append(as, a))
    BY <2>1, <2>3, <2>5, Zenon
  <2> QED BY <2>2, <2>6, Zenon
<1> HIDE DEF T
<1>4. T = Seq(Seq(Plain))
  <2>1. T \in SUBSET Seq(Seq(Plain))
    BY DEF T
  <2> QED BY <1>2, <1>3, <2>1, SequenceInduction
<1> QED BY <1>4 DEF T

LEMMA PlainArguments ==
  ASSUME NEW args \in Seq(Seq(Byte)), \A i \in DOMAIN args : ~Contains(args[i], "control")
  PROVE  args \in Seq(Seq(Plain))
<1>1. ASSUME NEW i \in 1 .. Len(args) PROVE args[i] \in Seq(Plain)
  <2> DEFINE a == args[i]
  <2>1. a \in Seq(Byte) /\ i \in DOMAIN args
    OBVIOUS
  <2>2. \A n \in 1 .. Len(a) : a[n] # "control"
    BY <2>1 DEF Contains
  <2> HIDE DEF a
  <2>3. \A n \in 1 .. Len(a) : a[n] \in Plain
    BY <2>1, <2>2 DEF Plain
  <2>4. a \in Seq(Plain)
    BY <2>1, <2>3, SeqOfElements, Zenon
  <2> QED BY <2>4 DEF a
<1> QED BY <1>1, SeqOfElements, Zenon

(* Whatever the arguments contain: what parse_slash_command makes of the   *)
(* line that control_command_line writes.                                  *)
LEMMA ParseLine ==
  ASSUME NEW command \in Seq(Byte), NEW args \in Seq(Seq(Byte)), ValidName(command),
         Parse(ControlCommandLine(command, args)) # <<>>
  PROVE  /\ Head(Parse(ControlCommandLine(command, args))) = command
         /\ Tail(Parse(ControlCommandLine(command, args))) = NonEmpty(args)
<1>1. ControlCommandLine(command, args) # <<>>
  BY DEF Parse
<1>2. /\ ControlCommandLine(command, args) = Line(<<"slash">> \o command, args)
      /\ \A i \in DOMAIN args : ~Contains(args[i], "control")
  BY <1>1, Zenon DEF ControlCommandLine, Line
<1>3. args \in Seq(Seq(Plain))
  BY <1>2, PlainArguments, Zenon
<1>4. command \in Seq(Letters) /\ command # <<>>
  <2>1. command # <<>> /\ \A i \in DOMAIN command : command[i] \in Letters
    BY Zenon DEF ValidName
  <2> QED BY <2>1
<1>5. command \in Seq(Plain)
  BY <1>4, NameRead, Zenon
<1> DEFINE L == Line(command, args)
           text == ControlCommandLine(command, args)
           end == Run(Start, L)
<1>6. L \in Seq(Plain)
  BY <1>3, <1>5, LineLoop, Zenon
<1>7. text = <<"slash">> \o L
  BY <1>2, <1>3, <1>5, LineSlash, Zenon
<1>8. Ready(end, <<command>> \o NonEmpty(args))
  BY <1>3, <1>4, LineRead, Zenon
<1> HIDE DEF L, text
<1>9. Tail(text) = L
  BY <1>6, <1>7
<1>10. ~end.bad /\ Parse(text) = Flush(end).tokens
  BY <1>9, Zenon DEF Parse, text
<1> HIDE DEF end
<1>11. Flush(end).tokens = <<command>> \o NonEmpty(args)
  <2>1. PICK d, x : /\ At(end, d, x, FALSE)
                    /\ <<command>> \o NonEmpty(args) = IF x = <<>> THEN d ELSE Append(d, x)
    BY <1>8 DEF Ready
  <2>2. end \in State /\ end.tokens = d /\ end.current = x
    BY <1>10, <2>1, Zenon DEF At, Holds
  <2> QED BY <2>1, <2>2, FlushFields, Zenon
<1> DEFINE n == NonEmpty(args)  p == <<command>> \o n
<1>12. n \in Seq(Seq(Plain))
  BY <1>3, NonEmptyLoop, Zenon
<1> HIDE DEF n
<1>13. Head(p) = command /\ Tail(p) = n
  BY <1>5, <1>12
<1>14. Parse(text) = p
  BY <1>10, <1>11, Zenon DEF n
<1> HIDE DEF p
<1> QED BY <1>13, <1>14 DEF n, text

-----------------------------------------------------------------------------
(* With one controller per player, resolve_player_auth finds that one.     *)
LEMMA AdminSeen ==
  ASSUME Types, Session, NEW u \in Players, AuthOf(u) = "admin"
  PROVE  u \in admins
<1> DEFINE own == {i \in 1..Len(controllers) : controllers[i].attached /\ controllers[i].uid = u}
<1>1. AuthOf(u) = CASE SelectInSeq(controllers, LAMBDA c : c.attached /\ c.uid = u) = 0 -> "unknown"
                    [] OTHER ->
                         IF controllers[SelectInSeq(controllers, LAMBDA c : c.attached /\ c.uid = u)].admin
                         THEN "admin" ELSE "player"
  BY DEF AuthOf
<1>2. SelectInSeq(controllers, LAMBDA c : c.attached /\ c.uid = u) =
        IF own # {} THEN Min(own) ELSE 0
  BY DEF SelectInSeq
<1>3. DOMAIN controllers = 1..Len(controllers) /\ Len(controllers) \in Nat
  BY DEF Types
<1>4. own # {}
  BY <1>1, <1>2
<1>5. PICK i \in DOMAIN controllers : controllers[i].attached /\ controllers[i].uid = u
  BY <1>3, <1>4
<1>6. own = {i}
  BY <1>3, <1>5 DEF Session
<1>7. Min(own) = i
  <2>1. i \in Nat
    BY <1>3, <1>5
  <2>2. i <= i
    BY <2>1
  <2> QED BY <1>6, <2>2, Zenon DEF Min
<1>8. i # 0
  BY <1>3
<1>9. controllers[i].admin
  BY <1>1, <1>2, <1>4, <1>7, <1>8
<1> QED BY <1>5, <1>9 DEF Session

-----------------------------------------------------------------------------
(* What each part of the invariant speaks of. *)
workVars == <<declared, queue, events, running, current, currentEvent>>

LEMMA WorkKept ==
  ASSUME Work, UNCHANGED workVars
  PROVE  Work'
BY DEF Work, Waiting, Callback, Entitled, Plugins, Range, workVars

LEMMA TypesKept ==
  ASSUME Types, UNCHANGED workVars, controllers' \in Seq(Controller),
         loaded' \in 0..Len(declared), registered' \in Nat
  PROVE  Types'
<1>1. declared' = declared /\ Plugins' = Plugins
  BY DEF workVars, Plugins
<1>2. /\ queue' = queue /\ events' = events /\ running' = running
      /\ current' = current /\ currentEvent' = currentEvent
  BY DEF workVars
<1>3. \A p \in Plugins : IsSeq(queue'[p]) /\ IsSeq(events'[p])
  BY <1>2 DEF Types
<1>4. /\ OverPlugins(queue)' /\ OverPlugins(events)' /\ OverPlugins(running)'
      /\ OverPlugins(current)' /\ OverPlugins(currentEvent)'
  BY <1>1, <1>2 DEF Types, OverPlugins
<1> QED BY <1>1, <1>3, <1>4 DEF Types, IsSeq, Range

LEMMA SessionKept ==
  ASSUME Session, UNCHANGED <<controllers, admins>>
  PROVE  Session'
BY DEF Session

LEMMA RegistryKept ==
  ASSUME Registry, UNCHANGED registry
  PROVE  Registry'
BY DEF Registry, Filed, Routes, Loading, registry

LEMMA InitInv == ChatInit => ChatInv
<1> SUFFICES ASSUME ChatInit PROVE ChatInv
  OBVIOUS
<1> USE DEF ChatInit
<1>1. declared \in Seq(Seq(CommandSpec)) /\ Len(declared) \in Nat
  BY ChatAssumptions
<1>2. Range(<<>>) = {} /\ IsSeq(<<>>)
  BY DEF Range, IsSeq
<1>3. Types
  <2>1. \A p \in Plugins : queue[p] = <<>> /\ events[p] = <<>>
    OBVIOUS
  <2>2. \A p \in Plugins : IsSeq(queue[p]) /\ IsSeq(events[p])
    BY <1>2, <2>1
  <2> QED BY <1>1, <2>2 DEF Types, OverPlugins
<1>4. Session
  BY DEF Session
<1>5. Work
  <2> SUFFICES ASSUME NEW p \in Plugins PROVE Waiting(p) /\ Callback(p)
    BY DEF Work
  <2>1. queue[p] = <<>> /\ events[p] = <<>>
    OBVIOUS
  <2>2. Waiting(p)
    BY <1>2, <2>1 DEF Waiting
  <2>3. running[p] = Idle /\ current[p] = Idle /\ currentEvent[p] = Idle
    OBVIOUS
  <2>4. Callback(p)
    BY <2>3 DEF Callback, Idle
  <2> QED BY <2>2, <2>4
<1>6. Registry
  <2>1. loaded < Len(declared) => declared[Loading] \in Seq(CommandSpec)
    BY <1>1 DEF Loading
  <2>2. loaded < Len(declared) => registered <= Len(declared[Loading])
    BY <2>1
  <2> QED BY <2>2 DEF Registry, Filed
<1>7. ActorIsIssuer
  BY DEF ActorIsIssuer
<1> QED BY <1>3, <1>4, <1>5, <1>6, <1>7 DEF ChatInv

-----------------------------------------------------------------------------
(* Loading. *)
LEMMA LoadingStep ==
  ASSUME Types, Registry, RegisterCommand \/ PluginFails \/ PluginLoaded
  PROVE  Types' /\ Registry'
<1>1. /\ declared \in Seq(Seq(CommandSpec)) /\ Len(declared) \in Nat
      /\ \A p \in 1..Len(declared) :
           /\ declared[p] \in Seq(CommandSpec) /\ Len(declared[p]) \in Nat
           /\ DOMAIN declared[p] = 1..Len(declared[p])
  BY ChatAssumptions DEF Types
<1>2. /\ loaded \in Nat /\ registered \in Nat /\ loaded < Len(declared)
      /\ Loading = loaded + 1 /\ Loading \in 1..Len(declared) /\ declared' = declared
  BY <1>1 DEF Types, Loading, Pending, RegisterCommand, PluginFails, PluginLoaded
<1>3. loaded' \in 0..Len(declared) /\ registered' \in Nat
  BY <1>1, <1>2 DEF Types, RegisterCommand, PluginFails, PluginLoaded, session, worker
<1>4. UNCHANGED <<controllers, workVars>>
  BY DEF RegisterCommand, PluginFails, PluginLoaded, session, worker, workVars
<1>5. Types'
  BY <1>2, <1>3, <1>4, TypesKept DEF Types
<1>6. CASE RegisterCommand
  <2>1. /\ DOMAIN commands' = DOMAIN commands \cup {Key} /\ Key \notin DOMAIN commands
        /\ \A k \in DOMAIN commands : commands'[k] = commands[k]
        /\ commands'[Key].plugin = Loading
    BY <1>6 DEF RegisterCommand, Free, Key
  <2>2. \A p, i : Routes(p, i) => Routes(p, i)'
    <3> SUFFICES ASSUME NEW p, NEW i, Routes(p, i) PROVE Routes(p, i)'
      OBVIOUS
    <3> DEFINE k == Canonical(declared[p][i].name)
    <3>1. k \in DOMAIN commands /\ commands[k].plugin = p
      BY DEF Routes
    <3>2. k \in DOMAIN commands' /\ commands'[k].plugin = p
      BY <2>1, <3>1
    <3>3. k' = k
      BY <1>2
    <3> QED BY <3>2, <3>3 DEF Routes
  <2>3. /\ loaded' = loaded /\ errors' = errors /\ registered' = registered + 1
        /\ registered < Len(declared[Loading])
    BY <1>6 DEF RegisterCommand, Pending
  <2>4. \A n, m : n = Loading /\ m = registered + 1 => Routes(n, m)'
    <3> SUFFICES ASSUME NEW n, NEW m, n = Loading, m = registered + 1 PROVE Routes(n, m)'
      OBVIOUS
    <3>1. Canonical(declared[n][m].name) = Key
      BY DEF Key, NextSpec
    <3> QED BY <1>2, <2>1, <3>1 DEF Routes
  <2>5. \A i \in 1..registered' : Routes(loaded + 1, i)'
    <3> SUFFICES ASSUME NEW n, n = loaded + 1, NEW i \in 1..registered' PROVE Routes(n, i)'
      BY <1>2, <2>3
    <3>1. CASE i = registered + 1
      BY <1>2, <2>4, <3>1
    <3>2. CASE i \in 1..registered
      BY <1>2, <2>2, <3>2 DEF Registry
    <3> QED BY <1>2, <2>3, <3>1, <3>2
  <2>6. errors' \/ \A p \in 1..loaded : \A i \in DOMAIN declared[p] : Routes(p, i)'
    BY <2>2, <2>3 DEF Registry
  <2>7. registered' <= Len(declared[loaded + 1])
    BY <1>1, <1>2, <2>3
  <2>8. Filed'
    <3>1. commands'[Key].spec = NextSpec /\ Canonical(NextSpec.name) = Key
      BY <1>6 DEF RegisterCommand, Key
    <3>2. \A k \in DOMAIN commands : Canonical(commands[k].spec.name) = k
      BY DEF Registry, Filed
    <3>3. ASSUME NEW k \in DOMAIN commands' PROVE Canonical(commands'[k].spec.name) = k
      <4>1. CASE k = Key
        BY <3>1, <4>1, Zenon
      <4>2. CASE k \in DOMAIN commands
        BY <2>1, <3>2, <4>2, Zenon
      <4> QED BY <2>1, <4>1, <4>2, Zenon
    <3> QED BY <3>3 DEF Filed
  <2>9. Registry'
    BY <1>2, <2>3, <2>5, <2>6, <2>7, <2>8 DEF Registry, Loading
  <2> QED BY <1>5, <2>9
<1>7. ASSUME PluginFails \/ PluginLoaded PROVE Registry'
  <2>1. commands' = commands /\ loaded' = loaded + 1 /\ registered' = 0
    BY <1>2, <1>7 DEF PluginFails, PluginLoaded
  <2>2. \A p, i : Routes(p, i)' <=> Routes(p, i)
    BY <1>2, <2>1 DEF Routes
  <2>3. loaded' < Len(declared') =>
          registered' <= Len(declared'[Loading']) /\ \A i \in 1..registered' : FALSE
    BY <1>1, <1>2, <2>1 DEF Loading
  <2>4. errors' \/ \A p \in 1..loaded' : \A i \in DOMAIN declared'[p] : Routes(p, i)'
    <3>1. CASE errors'
      BY <3>1
    <3>2. CASE ~errors'
      <4>1. PluginLoaded /\ ~errors
        BY <1>7, <3>2 DEF PluginFails, PluginLoaded
      <4>2. Len(declared[Loading]) <= registered
        BY <1>1, <1>2, <4>1 DEF PluginLoaded, Pending
      <4>3. \A i \in DOMAIN declared[Loading] : Routes(Loading, i)
        BY <1>1, <1>2, <4>2 DEF Registry
      <4>4. \A p \in 1..loaded : \A i \in DOMAIN declared[p] : Routes(p, i)
        BY <4>1 DEF Registry
      <4>5. \A p \in 1..loaded' : p \in 1..loaded \/ p = Loading
        BY <1>2, <2>1
      <4> QED BY <1>2, <2>2, <4>3, <4>4, <4>5
    <3> QED BY <3>1, <3>2
  <2>5. Filed'
    BY <2>1 DEF Registry, Filed
  <2> QED BY <2>3, <2>4, <2>5 DEF Registry
<1> QED BY <1>5, <1>6, <1>7

-----------------------------------------------------------------------------
(* The game's controllers. *)
LEMMA SessionStep ==
  ASSUME Types, Session,
         \/ \E u \in Players : Login(u)
         \/ \E i \in DOMAIN controllers : AdminLogin(i) \/ Logout(i) \/ Collect(i)
  PROVE  controllers' \in Seq(Controller) /\ Session'
<1>1. /\ controllers \in Seq(Controller) /\ Len(controllers) \in Nat
      /\ DOMAIN controllers = 1..Len(controllers)
      /\ \A i \in DOMAIN controllers : controllers[i] \in Controller
  BY DEF Types
<1>2. ASSUME NEW u \in Players, Login(u)
      PROVE  controllers' \in Seq(Controller) /\ Session'
  <2> DEFINE c == [uid |-> u, attached |-> TRUE, admin |-> FALSE]
  <2>1. c \in Controller /\ c.attached /\ ~c.admin /\ c.uid = u
    BY DEF Controller
  <2>2. controllers' = Append(controllers, c) /\ admins' = admins /\ ~Connected(u)
    BY <1>2 DEF Login
  <2> HIDE DEF c
  <2>3. /\ controllers' \in Seq(Controller) /\ Len(controllers') = Len(controllers) + 1
        /\ \A i \in 1..Len(controllers) : controllers'[i] = controllers[i]
        /\ controllers'[Len(controllers) + 1] = c
        /\ DOMAIN controllers' = 1..(Len(controllers) + 1)
    BY <1>1, <2>1, <2>2
  <2>4. \A i \in 1..Len(controllers) : controllers[i].attached => controllers[i].uid # u
    BY <1>1, <2>2 DEF Connected
  <2>5. ASSUME NEW i \in DOMAIN controllers', NEW j \in DOMAIN controllers',
               controllers'[i].attached, controllers'[j].attached,
               controllers'[i].uid = controllers'[j].uid
        PROVE  i = j
    <3>1. i \in 1..Len(controllers) \/ i = Len(controllers) + 1
      BY <1>1, <2>3
    <3>2. j \in 1..Len(controllers) \/ j = Len(controllers) + 1
      BY <1>1, <2>3
    <3> QED BY <1>1, <2>1, <2>3, <2>4, <2>5, <3>1, <3>2 DEF Session
  <2>6. ASSUME NEW i \in DOMAIN controllers', controllers'[i].attached, controllers'[i].admin
        PROVE  controllers'[i].uid \in admins'
    <3>1. i \in 1..Len(controllers)
      BY <1>1, <2>1, <2>3, <2>6
    <3> QED BY <1>1, <2>2, <2>3, <2>6, <3>1 DEF Session
  <2> QED BY <2>3, <2>5, <2>6 DEF Session
<1>3. ASSUME NEW i \in DOMAIN controllers, AdminLogin(i) \/ Logout(i)
      PROVE  controllers' \in Seq(Controller) /\ Session'
  <2>1. PICK c : /\ controllers' = [controllers EXCEPT ![i] = c]
                 /\ \/ c = [controllers[i] EXCEPT !.admin = TRUE]
                    \/ c = [controllers[i] EXCEPT !.attached = FALSE]
    BY <1>3 DEF AdminLogin, Logout
  <2>2. c \in Controller /\ c.uid = controllers[i].uid
    BY <1>1, <2>1 DEF Controller
  <2>3. controllers[i].attached
    BY <1>3 DEF AdminLogin, Logout
  <2>4. /\ controllers' \in Seq(Controller) /\ DOMAIN controllers' = DOMAIN controllers
        /\ controllers'[i] = c
        /\ \A j \in DOMAIN controllers : j # i => controllers'[j] = controllers[j]
    BY <1>1, <2>1, <2>2
  <2>5. \A j, k \in DOMAIN controllers' :
          /\ controllers'[j].attached /\ controllers'[k].attached
          /\ controllers'[j].uid = controllers'[k].uid
          => j = k
    BY <2>2, <2>3, <2>4 DEF Session
  <2>6. ASSUME NEW j \in DOMAIN controllers', controllers'[j].attached, controllers'[j].admin
        PROVE  controllers'[j].uid \in admins'
    <3>1. CASE AdminLogin(i)
      <4>1. admins' = admins \cup {controllers[i].uid}
        BY <3>1 DEF AdminLogin
      <4> QED BY <2>2, <2>4, <2>6, <4>1 DEF Session
    <3>2. CASE Logout(i)
      <4>1. /\ admins' = admins \ {controllers[i].uid}
            /\ controllers' = [controllers EXCEPT ![i].attached = FALSE]
        BY <3>2 DEF Logout
      <4>2. ~controllers'[i].attached
        BY <1>1, <4>1 DEF Controller
      <4>3. j # i
        BY <2>6, <4>2
      <4>4. controllers[j].uid # controllers[i].uid
        BY <2>3, <2>4, <2>6, <4>3 DEF Session
      <4> QED BY <2>4, <2>6, <4>1, <4>3, <4>4 DEF Session
    <3> QED BY <1>3, <3>1, <3>2
  <2> QED BY <2>4, <2>5, <2>6 DEF Session
<1>4. ASSUME NEW i \in DOMAIN controllers, Collect(i)
      PROVE  controllers' \in Seq(Controller) /\ Session'
  <2>1. controllers' = RemoveAt(controllers, i) /\ admins' = admins
    BY <1>4 DEF Collect
  <2>2. /\ controllers' \in Seq(Controller) /\ Len(controllers') = Len(controllers) - 1
        /\ \A j \in 1..(Len(controllers) - 1) :
             controllers'[j] = IF j < i THEN controllers[j] ELSE controllers[j + 1]
    BY <1>1, <2>1, RemoveAtElements
  <2> DEFINE old(j) == IF j < i THEN j ELSE j + 1
  <2>3. DOMAIN controllers' = 1..(Len(controllers) - 1)
    BY <2>2
  <2>4. \A j \in DOMAIN controllers' :
          old(j) \in DOMAIN controllers /\ controllers'[j] = controllers[old(j)]
    BY <1>1, <2>2, <2>3
  <2>5. \A j, k \in DOMAIN controllers' : old(j) = old(k) => j = k
    BY <1>1, <2>3
  <2> HIDE DEF old
  <2> QED BY <2>1, <2>2, <2>4, <2>5 DEF Session
<1> QED BY <1>2, <1>3, <1>4

-----------------------------------------------------------------------------
(* A command that route() hands to a plugin: an administrator's only if    *)
(* the sender is entitled; an operator's with what was sent.               *)
Genuine(tokens, sender) ==
  sender.by = "operator" /\ ValidName(sender.sent.command) /\ tokens # <<>> =>
    Head(tokens) = sender.sent.command /\ Tail(tokens) = NonEmpty(sender.sent.args)

LEMMA RouteStep ==
  ASSUME Types, Work, Filed, NEW tokens, NEW auth, NEW sender, Route(tokens, auth, sender),
         auth = "admin" => sender.entitled, Genuine(tokens, sender), UNCHANGED declared
  PROVE  /\ OverPlugins(queue)'
         /\ \A p \in Plugins : IsSeq(queue'[p]) /\ \A c \in Range(queue'[p]) : Entitled(c)
<1>1. CASE ~Accepts(tokens, auth)
  <2>1. queue' = queue
    BY <1>1 DEF Route
  <2> QED BY <2>1 DEF Types, OverPlugins, Plugins, Work, Waiting
<1>2. CASE Accepts(tokens, auth)
  <2> DEFINE c == Invocation(tokens, sender)  o == Owner(tokens)
  <2>1. queue' = [queue EXCEPT ![o] = Append(@, c)]
    BY <1>2 DEF Route
  <2>2. Entitled(c)
    <3>1. c.kind = "command" /\ c.admin = SpecOf(tokens).admin /\ c.sender = sender
      BY DEF Invocation
    <3>2. SpecOf(tokens).admin => auth = "admin"
      BY <1>2 DEF Accepts, Allowed
    <3>3. /\ c.args = Tail(tokens) /\ c.name = SpecOf(tokens).name /\ tokens # <<>>
          /\ Canonical(SpecOf(tokens).name) = Canonical(Head(tokens))
      BY <1>2 DEF Invocation, Accepts, Matched, SpecOf, Filed
    <3>4. Arrives(c)
      BY <3>1, <3>3, Zenon DEF Arrives, Genuine
    <3> QED BY <3>1, <3>2, <3>4 DEF Entitled
  <2> HIDE DEF c, o
  <2>3. DOMAIN queue = Plugins /\ Plugins' = Plugins
    BY DEF Types, OverPlugins, Plugins
  <2>4. /\ OverPlugins(queue)'
        /\ \A p \in Plugins : queue'[p] = IF p = o THEN Append(queue[p], c) ELSE queue[p]
    BY <2>1, <2>3 DEF OverPlugins
  <2>5. ASSUME NEW p \in Plugins
        PROVE  IsSeq(queue'[p]) /\ \A d \in Range(queue'[p]) : Entitled(d)
    <3>1. IsSeq(queue[p]) /\ \A d \in Range(queue[p]) : Entitled(d)
      BY DEF Types, Work, Waiting
    <3>2. IsSeq(Append(queue[p], c)) /\ Range(Append(queue[p], c)) = Range(queue[p]) \cup {c}
      BY <3>1, AppendRange
    <3> QED BY <2>2, <2>4, <3>1, <3>2
  <2> QED BY <2>4, <2>5
<1> QED BY <1>1, <1>2

(* A chat line and a control request. *)
LEMMA InputStep ==
  ASSUME Types, Session, Work, Filed,
         \/ \E u \in Players, name \in Names, line \in Lines, hasUid \in BOOLEAN :
              Chat(u, name, line, hasUid)
         \/ \E r \in Requests : Invoke(r)
  PROVE  Types' /\ Work'
<1>1. /\ UNCHANGED <<registry, session, worker>>
      /\ \/ UNCHANGED events
         \/ \E e : e.kind = "event" /\ DeliverEvent(e)
  BY DEF Chat, Invoke, Decoded
<1>2. /\ declared' = declared /\ loaded' = loaded /\ registered' = registered
      /\ controllers' = controllers /\ Plugins' = Plugins
      /\ running' = running /\ current' = current /\ currentEvent' = currentEvent
  BY <1>1 DEF registry, session, worker, Plugins
<1>3. \E tokens, auth, sender :
        /\ Route(tokens, auth, sender) /\ (auth = "admin" => sender.entitled)
        /\ Genuine(tokens, sender)
  <2>1. ASSUME NEW u \in Players, NEW name \in Names, NEW line \in Lines,
               NEW hasUid \in BOOLEAN, Chat(u, name, line, hasUid)
        PROVE  \E tokens, auth, sender :
                 /\ Route(tokens, auth, sender) /\ (auth = "admin" => sender.entitled)
                 /\ Genuine(tokens, sender)
    <3> DEFINE a == IF IsCommand(line) /\ hasUid THEN AuthOf(u) ELSE "unknown"
               t == IF IsCommand(line) THEN Parse(<<"slash">> \o Tail(line)) ELSE <<>>
               s == [actor |-> name, by |-> "player", entitled |-> u \in admins]
    <3>1. Route(t, a, s)
      BY <2>1 DEF Chat
    <3>2. a = "admin" => u \in admins
      BY AdminSeen
    <3>3. a = "admin" => s.entitled
      BY <3>2
    <3>4. Genuine(t, s)
      <4>1. s.by = "player" /\ "player" # "operator"
        OBVIOUS
      <4> QED BY <4>1, Zenon DEF Genuine
    <3> HIDE DEF a, t, s
    <3> QED BY <3>1, <3>3, <3>4
  <2>2. ASSUME NEW r \in Requests, Invoke(r)
        PROVE  \E tokens, auth, sender :
                 /\ Route(tokens, auth, sender) /\ (auth = "admin" => sender.entitled)
                 /\ Genuine(tokens, sender)
    <3> DEFINE t == Parse(ControlCommandLine(r.command, r.args))
               s == [actor |-> Operator, by |-> "operator", sent |-> r, entitled |-> TRUE]
    <3>1. Route(t, "admin", s) /\ s.entitled
      BY <2>2 DEF Invoke
    <3>2. Genuine(t, s)
      <4>1. r.command \in Seq(Byte) /\ r.args \in Seq(Seq(Byte))
        BY ChatAssumptions, Zenon
      <4>2. s.sent = r
        OBVIOUS
      <4>3. ValidName(r.command) /\ t # <<>> => Head(t) = r.command /\ Tail(t) = NonEmpty(r.args)
        BY <4>1, ParseLine, Zenon
      <4> HIDE DEF t, s
      <4> QED BY <4>2, <4>3, Zenon DEF Genuine
    <3> HIDE DEF t, s
    <3> QED BY <3>1, <3>2
  <2> QED BY <2>1, <2>2
<1>4. /\ OverPlugins(queue)'
      /\ \A p \in Plugins : IsSeq(queue'[p]) /\ \A c \in Range(queue'[p]) : Entitled(c)
  BY <1>2, <1>3, RouteStep
<1>5. /\ OverPlugins(events)'
      /\ \A p \in Plugins : IsSeq(events'[p]) /\ \A e \in Range(events'[p]) : e.kind = "event"
  <2>1. \A p \in Plugins : IsSeq(events[p]) /\ \A e \in Range(events[p]) : e.kind = "event"
    BY DEF Types, Work, Waiting
  <2>2. CASE UNCHANGED events
    BY <1>2, <2>1, <2>2 DEF Types, OverPlugins
  <2>3. ASSUME NEW e, e.kind = "event", DeliverEvent(e)
        PROVE  /\ OverPlugins(events)'
               /\ \A p \in Plugins :
                    IsSeq(events'[p]) /\ \A x \in Range(events'[p]) : x.kind = "event"
    <3>1. /\ OverPlugins(events)'
          /\ \A p \in Plugins : events'[p] \in {events[p], Append(events[p], e)}
      BY <1>2, <2>3 DEF DeliverEvent, OverPlugins
    <3>2. ASSUME NEW p \in Plugins
          PROVE  IsSeq(events'[p]) /\ \A x \in Range(events'[p]) : x.kind = "event"
      <4>1. /\ IsSeq(Append(events[p], e))
            /\ Range(Append(events[p], e)) = Range(events[p]) \cup {e}
        BY <2>1, AppendRange
      <4> QED BY <2>1, <2>3, <3>1, <4>1
    <3> QED BY <3>1, <3>2
  <2> QED BY <1>1, <2>2, <2>3
<1>6. OverPlugins(running)' /\ OverPlugins(current)' /\ OverPlugins(currentEvent)'
  BY <1>2 DEF Types, OverPlugins
<1>7. Types'
  BY <1>2, <1>4, <1>5, <1>6 DEF Types, IsSeq, Range
<1>8. ASSUME NEW p \in Plugins PROVE Waiting(p)' /\ Callback(p)'
  <2>1. Callback(p)'
    BY <1>2 DEF Work, Callback, Entitled
  <2>2. Waiting(p)'
    BY <1>4, <1>5 DEF Waiting, Entitled, Range
  <2> QED BY <2>1, <2>2
<1> QED BY <1>2, <1>7, <1>8 DEF Work

-----------------------------------------------------------------------------
(* The workers: a step changes the state of one plugin. *)
LEMMA OnePlugin ==
  ASSUME Types, Work, UNCHANGED <<declared, loaded, registered, controllers>>,
         OverPlugins(queue)', OverPlugins(events)', OverPlugins(running)',
         OverPlugins(current)', OverPlugins(currentEvent)',
         NEW p \in Plugins,
         \A q \in Plugins : q # p =>
           /\ queue'[q] = queue[q] /\ events'[q] = events[q]
           /\ running'[q] = running[q] /\ current'[q] = current[q]
           /\ currentEvent'[q] = currentEvent[q],
         IsSeq(queue'[p]), IsSeq(events'[p]), Waiting(p)', Callback(p)'
  PROVE  Types' /\ Work'
<1>1. Plugins' = Plugins
  BY DEF Plugins
<1>2. \A q \in Plugins : IsSeq(queue[q]) /\ IsSeq(events[q]) /\ Waiting(q) /\ Callback(q)
  BY DEF Types, Work
<1>3. ASSUME NEW q \in Plugins
      PROVE  IsSeq(queue'[q]) /\ IsSeq(events'[q]) /\ Waiting(q)' /\ Callback(q)'
  <2>1. CASE q = p
    BY <2>1
  <2>2. CASE q # p
    <3>1. /\ queue'[q] = queue[q] /\ events'[q] = events[q]
          /\ running'[q] = running[q] /\ current'[q] = current[q]
          /\ currentEvent'[q] = currentEvent[q]
      BY <2>2
    <3>2. IsSeq(queue'[q]) /\ IsSeq(events'[q])
      BY <1>2, <3>1
    <3>3. Waiting(q)'
      BY <1>2, <3>1 DEF Waiting, Entitled, Range
    <3>4. Callback(q)'
      BY <1>2, <3>1 DEF Callback, Entitled
    <3> QED BY <3>2, <3>3, <3>4
  <2> QED BY <2>1, <2>2
<1>4. Types'
  BY <1>1, <1>3 DEF Types, IsSeq, Range
<1> QED BY <1>1, <1>3, <1>4 DEF Work

LEMMA WorkerStep ==
  ASSUME Types, Work, ActorIsIssuer,
         NEW p \in Plugins, RunCommand(p) \/ RunEvent(p) \/ PalCall(p) \/ Return(p)
  PROVE  Types' /\ Work' /\ ActorIsIssuer'
<1>1. UNCHANGED <<declared, loaded, registered, controllers>> /\ Plugins' = Plugins
  BY DEF RunCommand, RunEvent, PalCall, Return, registry, session, Plugins
<1>2. /\ DOMAIN queue = Plugins /\ DOMAIN events = Plugins /\ DOMAIN running = Plugins
      /\ DOMAIN current = Plugins /\ DOMAIN currentEvent = Plugins
  BY DEF Types, OverPlugins
<1>3. IsSeq(queue[p]) /\ IsSeq(events[p]) /\ Waiting(p) /\ Callback(p)
  BY DEF Types, Work
<1>4. /\ OverPlugins(queue)' /\ OverPlugins(events)' /\ OverPlugins(running)'
      /\ OverPlugins(current)' /\ OverPlugins(currentEvent)'
  <2>1. OverPlugins(queue) /\ OverPlugins(events) /\ OverPlugins(running)
        /\ OverPlugins(current) /\ OverPlugins(currentEvent)
    BY DEF Types
  <2> QED BY <1>1, <1>2, <2>1
          DEF OverPlugins, RunCommand, RunEvent, PalCall, Return, ResetCurrent
<1>5. \A q \in Plugins : q # p =>
        /\ queue'[q] = queue[q] /\ events'[q] = events[q]
        /\ running'[q] = running[q] /\ current'[q] = current[q]
        /\ currentEvent'[q] = currentEvent[q]
  BY <1>2 DEF RunCommand, RunEvent, PalCall, Return, ResetCurrent
<1>6. SUFFICES /\ IsSeq(queue'[p]) /\ IsSeq(events'[p])
               /\ Waiting(p)' /\ Callback(p)' /\ ActorIsIssuer'
  BY <1>1, <1>4, <1>5, OnePlugin
<1>7. CASE RunCommand(p)
  <2>1. /\ queue'[p] = Tail(queue[p]) /\ events' = events /\ queue[p] # <<>>
        /\ running'[p] = Head(queue[p]) /\ current'[p] = Head(queue[p])
        /\ currentEvent' = currentEvent /\ actions' = actions /\ running[p] = Idle
    BY <1>2, <1>7 DEF RunCommand
  <2>2. /\ IsSeq(Tail(queue[p])) /\ Range(Tail(queue[p])) \subseteq Range(queue[p])
        /\ Head(queue[p]) \in Range(queue[p])
    BY <1>3, <2>1, TailRange
  <2>3. Entitled(Head(queue[p]))
    BY <1>3, <2>2 DEF Waiting
  <2>4. Waiting(p)'
    BY <1>3, <2>1, <2>2 DEF Waiting, Entitled, Range
  <2>5. Callback(p)'
    <3>1. Entitled(running[p])'
      BY <2>1, <2>3 DEF Entitled
    <3>2. currentEvent[p] = Idle
      BY <1>3, <2>1 DEF Callback
    <3> QED BY <2>1, <3>1, <3>2 DEF Callback
  <2> QED BY <1>3, <2>1, <2>2, <2>4, <2>5 DEF ActorIsIssuer
<1>8. CASE RunEvent(p)
  <2>1. /\ events'[p] = Tail(events[p]) /\ queue' = queue /\ events[p] # <<>>
        /\ running'[p] = Head(events[p]) /\ currentEvent'[p] = Head(events[p])
        /\ current' = current /\ actions' = actions /\ running[p] = Idle
    BY <1>2, <1>8 DEF RunEvent
  <2>2. /\ IsSeq(Tail(events[p])) /\ Range(Tail(events[p])) \subseteq Range(events[p])
        /\ Head(events[p]) \in Range(events[p])
    BY <1>3, <2>1, TailRange
  <2>3. Head(events[p]).kind = "event"
    BY <1>3, <2>2 DEF Waiting
  <2>4. Waiting(p)'
    BY <1>3, <2>1, <2>2 DEF Waiting, Entitled, Range
  <2>5. Callback(p)'
    <3>1. current[p] = Idle
      BY <1>3, <2>1 DEF Callback
    <3>2. "event" # "command"
      OBVIOUS
    <3> QED BY <2>1, <2>3, <3>1, <3>2 DEF Callback
  <2> QED BY <1>3, <2>1, <2>2, <2>4, <2>5 DEF ActorIsIssuer
<1>9. CASE PalCall(p)
  <2>1. /\ UNCHANGED <<queue, events, running, current, currentEvent>> /\ running[p] # Idle
        /\ actions' = actions \cup {[actor |-> ActorOf(p), issuer |-> running[p].actor]}
    BY <1>9 DEF PalCall
  <2>2. ActorOf(p) = running[p].actor
    BY <1>3 DEF Callback, ActorOf
  <2>3. ActorIsIssuer'
    BY <2>1, <2>2 DEF ActorIsIssuer
  <2>4. Waiting(p)' /\ Callback(p)'
    BY <1>3, <2>1 DEF Waiting, Callback, Entitled, Range
  <2> QED BY <1>3, <2>1, <2>3, <2>4
<1>10. CASE Return(p)
  <2>1. /\ queue' = queue /\ events' = events /\ actions' = actions
        /\ running'[p] = Idle /\ current'[p] = Idle /\ currentEvent'[p] = Idle
    BY <1>2, <1>10 DEF Return, ResetCurrent
  <2>2. Waiting(p)'
    BY <1>3, <2>1 DEF Waiting, Entitled, Range
  <2>3. Callback(p)'
    BY <2>1 DEF Callback, Idle
  <2> QED BY <1>3, <2>1, <2>2, <2>3 DEF ActorIsIssuer
<1> QED BY <1>7, <1>8, <1>9, <1>10

-----------------------------------------------------------------------------
LEMMA NextInv ==
  ASSUME ChatInv, [ChatNext]_chatVars
  PROVE  ChatInv'
<1> USE DEF ChatInv
<1>1. CASE RegisterCommand \/ PluginFails \/ PluginLoaded
  <2>1. UNCHANGED <<controllers, admins, workVars, actions>>
    BY <1>1 DEF RegisterCommand, PluginFails, PluginLoaded, session, worker, workVars
  <2>2. ActorIsIssuer'
    BY <2>1 DEF ActorIsIssuer
  <2> QED BY <1>1, <2>1, <2>2, LoadingStep, WorkKept, SessionKept
<1>2. ASSUME \/ \E u \in Players : Login(u)
             \/ \E i \in DOMAIN controllers : AdminLogin(i) \/ Logout(i) \/ Collect(i)
      PROVE  ChatInv'
  <2>1. UNCHANGED <<registry, workVars, actions>>
    BY <1>2 DEF Login, AdminLogin, Logout, Collect, registry, worker, workVars
  <2>2. controllers' \in Seq(Controller) /\ Session'
    BY <1>2, SessionStep
  <2>3. loaded' \in 0..Len(declared) /\ registered' \in Nat
    BY <2>1 DEF Types, registry
  <2>4. ActorIsIssuer'
    BY <2>1 DEF ActorIsIssuer
  <2> QED BY <2>1, <2>2, <2>3, <2>4, TypesKept, WorkKept, RegistryKept
<1>3. ASSUME \/ \E u \in Players, name \in Names, line \in Lines, hasUid \in BOOLEAN :
                  Chat(u, name, line, hasUid)
             \/ \E r \in Requests : Invoke(r)
      PROVE  ChatInv'
  <2>1. UNCHANGED <<registry, session, worker>>
    BY <1>3 DEF Chat, Invoke
  <2>2. UNCHANGED <<controllers, admins, actions>>
    BY <2>1 DEF session, worker
  <2>3. ActorIsIssuer'
    BY <2>2 DEF ActorIsIssuer
  <2>4. Filed
    BY DEF Registry
  <2> QED BY <1>3, <2>1, <2>2, <2>3, <2>4, InputStep, SessionKept, RegistryKept
<1>4. ASSUME NEW p \in Plugins, RunCommand(p) \/ RunEvent(p) \/ PalCall(p) \/ Return(p)
      PROVE  ChatInv'
  <2>1. UNCHANGED <<registry, session>>
    BY <1>4 DEF RunCommand, RunEvent, PalCall, Return
  <2>2. UNCHANGED <<controllers, admins>>
    BY <2>1 DEF session
  <2> QED BY <1>4, <2>1, <2>2, WorkerStep, SessionKept, RegistryKept
<1>5. CASE UNCHANGED chatVars
  <2>1. UNCHANGED <<registry, controllers, admins, workVars, actions>>
    BY <1>5 DEF chatVars, registry, session, worker, workVars
  <2>2. /\ loaded' \in 0..Len(declared) /\ registered' \in Nat
        /\ controllers' \in Seq(Controller)
    BY <2>1 DEF Types, registry
  <2>3. ActorIsIssuer'
    BY <2>1 DEF ActorIsIssuer
  <2> QED BY <2>1, <2>2, <2>3, TypesKept, WorkKept, SessionKept, RegistryKept
<1> QED BY <1>1, <1>2, <1>3, <1>4, <1>5 DEF ChatNext

(* The invariant: one attached controller per player, whose admin flag is  *)
(* current; every queued or running command passed route(); current_ and   *)
(* current_event_ belong to the callback that runs; what was registered    *)
(* leads to its plugin.                                                    *)
THEOREM ChatInvariant == ChatSpec => []ChatInv
<1>1. ChatInv /\ [ChatNext]_chatVars => ChatInv'
  BY NextInv
<1> QED BY InitInv, <1>1, PTL DEF ChatSpec

(* Whatever plugins are loaded: once the set is active, every declared     *)
(* command leads to the plugin that declared it (register_command, the     *)
(* errors of load_directory_report).                                       *)
THEOREM EveryDeclaredRoutesHolds == ChatSpec => []EveryDeclaredRoutes
<1>1. ChatInv => EveryDeclaredRoutes
  <2> SUFFICES ASSUME ChatInv, Committed,
                      NEW p \in Plugins, NEW i \in DOMAIN declared[p]
               PROVE  Routes(p, i)
    BY DEF EveryDeclaredRoutes, Routes
  <2>1. p \in 1..loaded
    BY ChatAssumptions DEF ChatInv, Types, Committed, Plugins
  <2> QED BY <2>1 DEF ChatInv, Registry, Committed
<1> QED BY ChatInvariant, <1>1, PTL

(* For any number of players, connections and controllers still in the     *)
(* object array, and whatever the parser makes of a line: an               *)
(* administrator's command in a queue or in a callback came from the local *)
(* operator or from a player who was an administrator when it was sent     *)
(* (resolve_player_auth, route).                                           *)
THEOREM AdminOnlyHolds == ChatSpec => []AdminOnly
<1>1. ChatInv => AdminOnly
  <2> SUFFICES ASSUME ChatInv, NEW c \in Invocations PROVE c.admin => c.sender.entitled
    BY DEF AdminOnly
  <2>1. PICK p \in Plugins :
          \/ c \in Range(queue[p])
          \/ c = running[p] /\ running[p].kind = "command"
    BY DEF Invocations
  <2>2. Waiting(p) /\ Callback(p)
    BY DEF ChatInv, Work
  <2> QED BY <2>1, <2>2 DEF Waiting, Callback, Entitled
<1> QED BY ChatInvariant, <1>1, PTL

(* Whatever bytes the arguments of a command.invoke request consist of,    *)
(* and however many there are: if the command reaches a plugin, the plugin *)
(* gets the arguments that are not empty, each as it was sent, and its own *)
(* command of that name (control_command_line, parse_slash_command,        *)
(* route).                                                                 *)
THEOREM ArgumentsArriveHolds == ChatSpec => []ArgumentsArrive
<1>1. ChatInv => ArgumentsArrive
  <2> SUFFICES ASSUME ChatInv, NEW c \in Invocations PROVE Arrives(c)
    BY DEF ArgumentsArrive, Arrives
  <2>1. PICK p \in Plugins :
          \/ c \in Range(queue[p])
          \/ c = running[p] /\ running[p].kind = "command"
    BY DEF Invocations
  <2>2. Waiting(p) /\ Callback(p)
    BY DEF ChatInv, Work
  <2> QED BY <2>1, <2>2 DEF Waiting, Callback, Entitled
<1> QED BY ChatInvariant, <1>1, PTL

(* A game call carries the actor of the callback that makes it, in any     *)
(* order of commands and events (lua_pal_call, invoke, invoke_event).      *)
THEOREM ActorIsIssuerHolds == ChatSpec => []ActorIsIssuer
BY ChatInvariant, PTL DEF ChatInv
=============================================================================
