---------------------------- MODULE ToolsProofs ----------------------------
(***************************************************************************)
(* Theorems about Tools, for every tool and HTTP handler, any number of    *)
(* sessions and tasks, any page, and loops of any length.  First what the  *)
(* scripts promise, by the operators they are built with: they aim anew    *)
(* before they point when the page has moved, and they switch off what     *)
(* they switched on.  Then the invariant of the calls: what a call has     *)
(* left to do is the rest of such a script, an aim that is sound is right, *)
(* and the leases keep apart whoever has one from whoever moves the page.  *)
(***************************************************************************)
EXTENDS Tools, Recursion

-----------------------------------------------------------------------------
(* What a script is                                                        *)

Ops == {"ask", "raise", "again", "script", "aim", "glance", "aimGlance", "carry",
        "point", "wheel", "on", "off", "hold", "top"}

StepType == [op : Ops, thing : Things \cup {""}, sent : BOOLEAN, must : BOOLEAN, keeps : BOOLEAN]

AllScripts == Seq(StepType)

Moves(s) == s.op \in {"script", "wheel", "top"}

UsesAim(s) == Pointer(s) \/ s.op \in {"aimGlance", "carry"}

\* The steps of a use an aim only after they took it, as soon as the page has
\* moved: a step of theirs moved it, or it is said to have moved before them.
\* That it has not moved after them is promised when `after` is "aimed".
AimsAnew(a, before, after) ==
    /\ \A i, j \in DOMAIN a :
          i < j /\ Moves(a[i]) /\ UsesAim(a[j]) =>
              \E k \in DOMAIN a : i < k /\ k < j /\ Aims(a[k])
    /\ before # "aimed" =>
          \A j \in DOMAIN a : UsesAim(a[j]) => \E k \in DOMAIN a : k < j /\ Aims(a[k])
    /\ after = "aimed" =>
          \A i \in DOMAIN a : Moves(a[i]) => \E k \in DOMAIN a : i < k /\ Aims(a[k])
    /\ before # "aimed" /\ after = "aimed" => \E k \in DOMAIN a : Aims(a[k])

TurnsOff(s, thing) == s.op = "off" /\ s.thing = thing

\* What the steps of a switch on they switch off, but for `held`.
SwitchesOff(a, held) ==
    \A i \in DOMAIN a :
        a[i].op = "on" =>
            /\ a[i].thing \in Things
            /\ a[i].thing \in held \/ \E j \in DOMAIN a : i < j /\ TurnsOff(a[j], a[i].thing)

NoRetry(a) == \A i \in DOMAIN a : a[i].op # "again"

Plays(before, held, after) ==
    {a \in AllScripts : AimsAnew(a, before, after) /\ SwitchesOff(a, held) /\ NoRetry(a)}

\* Scripts that may follow one another.
Sound == Plays("moved", {}, "moved")

\* Scripts that only look.
Blind == {a \in AllScripts : \A i \in DOMAIN a : ~Aims(a[i])}

Quiet == Sound \cap Blind

-----------------------------------------------------------------------------
(* One script after another                                                *)

\* The steps of a script that follows a, and those of a, in both.
LEMMA Positions ==
    ASSUME NEW a \in AllScripts, NEW b \in AllScripts
    PROVE  /\ a \o b \in AllScripts
           /\ Len(a) \in Nat /\ Len(b) \in Nat
           /\ DOMAIN a = 1 .. Len(a) /\ DOMAIN b = 1 .. Len(b)
           /\ DOMAIN (a \o b) = 1 .. (Len(a) + Len(b))
           /\ \A i \in 1 .. Len(a) : (a \o b)[i] = a[i]
           /\ \A i \in 1 .. Len(b) : (a \o b)[Len(a) + i] = b[i]
           /\ \A i \in 1 .. (Len(a) + Len(b)) :
                 i \notin 1 .. Len(a) => i - Len(a) \in 1 .. Len(b)
                                         /\ (a \o b)[i] = b[i - Len(a)]
  BY DEF AllScripts

\* Whether the page has moved since the last aim is handed on from a to b.
LEMMA AimsFollow ==
    ASSUME NEW a \in AllScripts, NEW b \in AllScripts, NEW l, NEW m, NEW n,
           AimsAnew(a, l, m), AimsAnew(b, m, n)
    PROVE  AimsAnew(a \o b, l, n)
<1> DEFINE c == a \o b
           p == Len(a)
           q == Len(b)
<1>1. /\ p \in Nat /\ q \in Nat
      /\ DOMAIN a = 1 .. p /\ DOMAIN b = 1 .. q /\ DOMAIN c = 1 .. (p + q)
      /\ \A i \in 1 .. p : c[i] = a[i]
      /\ \A i \in 1 .. q : c[p + i] = b[i]
      /\ \A i \in 1 .. (p + q) : i \notin 1 .. p => i - p \in 1 .. q /\ c[i] = b[i - p]
  BY Positions
<1> HIDE DEF c, p, q
\* An aim of b is one of c.
<1>2. ASSUME NEW k \in 1 .. q, Aims(b[k])
      PROVE  p + k \in 1 .. (p + q) /\ p + k > p /\ Aims(c[p + k])
  BY <1>1, <1>2
<1>3. ASSUME NEW k \in 1 .. p, Aims(a[k])
      PROVE  k \in 1 .. (p + q) /\ Aims(c[k])
  BY <1>1, <1>3
<1>4. ASSUME NEW i \in 1 .. (p + q), NEW j \in 1 .. (p + q), i < j, Moves(c[i]), UsesAim(c[j])
      PROVE  \E k \in 1 .. (p + q) : i < k /\ k < j /\ Aims(c[k])
  <2>1. CASE j \in 1 .. p
    <3>1. i \in 1 .. p /\ Moves(a[i]) /\ UsesAim(a[j])
      BY <1>1, <1>4, <2>1
    <3>2. PICK k \in 1 .. p : i < k /\ k < j /\ Aims(a[k])
      BY <1>1, <1>4, <2>1, <3>1 DEF AimsAnew
    <3> QED BY <1>3, <3>2
  <2>2. CASE i \notin 1 .. p
    <3>1. /\ i - p \in 1 .. q /\ j - p \in 1 .. q /\ i - p < j - p
          /\ Moves(b[i - p]) /\ UsesAim(b[j - p])
      BY <1>1, <1>4, <2>2
    <3>2. PICK k \in 1 .. q : i - p < k /\ k < j - p /\ Aims(b[k])
      BY <1>1, <3>1 DEF AimsAnew
    <3>3. i < p + k /\ p + k < j
      BY <1>1, <1>4, <3>2
    <3> QED BY <1>2, <3>2, <3>3
  <2>3. CASE i \in 1 .. p /\ j \notin 1 .. p
    <3>1. /\ Moves(a[i]) /\ j - p \in 1 .. q /\ UsesAim(b[j - p])
      BY <1>1, <1>4, <2>3
    <3>2. CASE m = "aimed"
      <4>1. PICK k \in 1 .. p : i < k /\ Aims(a[k])
        BY <1>1, <2>3, <3>1, <3>2 DEF AimsAnew
      <4>2. k < j
        BY <1>1, <2>3, <4>1
      <4> QED BY <1>3, <4>1, <4>2
    <3>3. CASE m # "aimed"
      <4>1. PICK k \in 1 .. q : k < j - p /\ Aims(b[k])
        BY <1>1, <3>1, <3>3 DEF AimsAnew
      <4>2. i < p + k /\ p + k < j
        BY <1>1, <2>3, <4>1
      <4> QED BY <1>2, <4>1, <4>2
    <3> QED BY <3>2, <3>3
  <2> QED BY <2>1, <2>2, <2>3
<1>5. ASSUME l # "aimed", NEW j \in 1 .. (p + q), UsesAim(c[j])
      PROVE  \E k \in 1 .. (p + q) : k < j /\ Aims(c[k])
  <2>1. CASE j \in 1 .. p
    <3>1. PICK k \in 1 .. p : k < j /\ Aims(a[k])
      BY <1>1, <1>5, <2>1 DEF AimsAnew
    <3> QED BY <1>3, <3>1
  <2>2. CASE j \notin 1 .. p
    <3>1. j - p \in 1 .. q /\ UsesAim(b[j - p])
      BY <1>1, <1>5, <2>2
    <3>2. CASE m = "aimed"
      <4>1. PICK k \in 1 .. p : Aims(a[k])
        BY <1>1, <1>5, <3>2 DEF AimsAnew
      <4>2. k < j
        BY <1>1, <2>2, <4>1
      <4> QED BY <1>3, <4>1, <4>2
    <3>3. CASE m # "aimed"
      <4>1. PICK k \in 1 .. q : k < j - p /\ Aims(b[k])
        BY <1>1, <3>1, <3>3 DEF AimsAnew
      <4>2. p + k < j
        BY <1>1, <2>2, <4>1
      <4> QED BY <1>2, <4>1, <4>2
    <3> QED BY <3>2, <3>3
  <2> QED BY <2>1, <2>2
<1>6. ASSUME n = "aimed", NEW i \in 1 .. (p + q), Moves(c[i])
      PROVE  \E k \in 1 .. (p + q) : i < k /\ Aims(c[k])
  <2>1. CASE i \in 1 .. p
    <3>1. Moves(a[i])
      BY <1>1, <1>6, <2>1
    <3>2. CASE m = "aimed"
      <4>1. PICK k \in 1 .. p : i < k /\ Aims(a[k])
        BY <1>1, <2>1, <3>1, <3>2 DEF AimsAnew
      <4> QED BY <1>3, <4>1
    <3>3. CASE m # "aimed"
      <4>1. PICK k \in 1 .. q : Aims(b[k])
        BY <1>1, <1>6, <3>3 DEF AimsAnew
      <4>2. i < p + k
        BY <1>1, <2>1, <4>1
      <4> QED BY <1>2, <4>1, <4>2
    <3> QED BY <3>2, <3>3
  <2>2. CASE i \notin 1 .. p
    <3>1. i - p \in 1 .. q /\ Moves(b[i - p])
      BY <1>1, <1>6, <2>2
    <3>2. PICK k \in 1 .. q : i - p < k /\ Aims(b[k])
      BY <1>1, <1>6, <3>1 DEF AimsAnew
    <3>3. i < p + k
      BY <1>1, <3>2
    <3> QED BY <1>2, <3>2, <3>3
  <2> QED BY <2>1, <2>2
<1>7. ASSUME l # "aimed", n = "aimed"
      PROVE  \E k \in 1 .. (p + q) : Aims(c[k])
  <2>1. CASE m = "aimed"
    <3>1. PICK k \in 1 .. p : Aims(a[k])
      BY <1>1, <1>7, <2>1 DEF AimsAnew
    <3> QED BY <1>3, <3>1
  <2>2. CASE m # "aimed"
    <3>1. PICK k \in 1 .. q : Aims(b[k])
      BY <1>1, <1>7, <2>2 DEF AimsAnew
    <3> QED BY <1>2, <3>1
  <2> QED BY <2>1, <2>2
<1>8. AimsAnew(c, l, n)
  BY <1>1, <1>4, <1>5, <1>6, <1>7 DEF AimsAnew
<1> QED BY <1>8 DEF c

\* What a leaves on, b may switch off.
LEMMA SwitchesFollow ==
    ASSUME NEW a \in AllScripts, NEW b \in AllScripts, NEW G, NEW H,
           SwitchesOff(a, G), SwitchesOff(b, H)
    PROVE  /\ SwitchesOff(a \o b, G \cup H)
           /\ \A thing : (\E j \in DOMAIN b : TurnsOff(b[j], thing)) /\ H = {} =>
                  SwitchesOff(a \o b, G \ {thing})
<1> DEFINE c == a \o b
           p == Len(a)
           q == Len(b)
<1>1. /\ p \in Nat /\ q \in Nat
      /\ DOMAIN a = 1 .. p /\ DOMAIN b = 1 .. q /\ DOMAIN c = 1 .. (p + q)
      /\ \A i \in 1 .. p : c[i] = a[i]
      /\ \A i \in 1 .. q : c[p + i] = b[i]
      /\ \A i \in 1 .. (p + q) : i \notin 1 .. p => i - p \in 1 .. q /\ c[i] = b[i - p]
  BY Positions
<1> HIDE DEF c, p, q
<1> DEFINE Later(i) == \E j \in 1 .. (p + q) : i < j /\ TurnsOff(c[j], c[i].thing)
<1>2. ASSUME NEW i \in 1 .. (p + q), c[i].op = "on"
      PROVE  /\ c[i].thing \in Things
             /\ \/ i \in 1 .. p /\ c[i].thing \in G
                \/ i \notin 1 .. p /\ c[i].thing \in H
                \/ Later(i)
  <2>1. CASE i \in 1 .. p
    <3>1. a[i].op = "on" /\ c[i] = a[i]
      BY <1>1, <1>2, <2>1
    <3>2. /\ a[i].thing \in Things
          /\ a[i].thing \in G \/ \E j \in 1 .. p : i < j /\ TurnsOff(a[j], a[i].thing)
      BY <1>1, <2>1, <3>1 DEF SwitchesOff
    <3>3. ASSUME NEW j \in 1 .. p, i < j, TurnsOff(a[j], a[i].thing) PROVE Later(i)
      <4>1. j \in 1 .. (p + q) /\ c[j] = a[j]
        BY <1>1
      <4> QED BY <3>1, <3>3, <4>1
    <3> QED BY <2>1, <3>1, <3>2, <3>3
  <2>2. CASE i \notin 1 .. p
    <3>1. i - p \in 1 .. q /\ b[i - p].op = "on" /\ c[i] = b[i - p]
      BY <1>1, <1>2, <2>2
    <3>2. /\ b[i - p].thing \in Things
          /\ b[i - p].thing \in H \/ \E j \in 1 .. q : i - p < j /\ TurnsOff(b[j], b[i - p].thing)
      BY <1>1, <3>1 DEF SwitchesOff
    <3>3. ASSUME NEW j \in 1 .. q, i - p < j, TurnsOff(b[j], b[i - p].thing) PROVE Later(i)
      <4>1. p + j \in 1 .. (p + q) /\ i < p + j /\ c[p + j] = b[j]
        BY <1>1, <3>3
      <4> QED BY <3>1, <3>3, <4>1
    <3> QED BY <2>2, <3>1, <3>2, <3>3
  <2> QED BY <2>1, <2>2
<1>3. SwitchesOff(c, G \cup H)
  BY <1>1, <1>2 DEF SwitchesOff
<1>4. ASSUME NEW thing, NEW j \in 1 .. q, TurnsOff(b[j], thing), H = {}
      PROVE  SwitchesOff(c, G \ {thing})
  <2>1. p + j \in 1 .. (p + q) /\ c[p + j] = b[j] /\ p + j > p
    BY <1>1
  <2>2. ASSUME NEW i \in 1 .. (p + q), c[i].op = "on", i \in 1 .. p, c[i].thing = thing
        PROVE  Later(i)
    <3>1. i < p + j
      BY <1>1, <2>1, <2>2
    <3> QED BY <1>4, <2>1, <2>2, <3>1
  <2> QED BY <1>1, <1>2, <1>4, <2>2 DEF SwitchesOff
<1> QED BY <1>1, <1>3, <1>4 DEF c

\* Two scripts without a retry, or without an aim, are one without.
LEMMA NoRetryFollows ==
    ASSUME NEW a \in AllScripts, NEW b \in AllScripts
    PROVE  /\ NoRetry(a) /\ NoRetry(b) => NoRetry(a \o b)
           /\ (\A i \in DOMAIN a : ~Aims(a[i])) /\ (\A i \in DOMAIN b : ~Aims(b[i])) =>
                 \A i \in DOMAIN (a \o b) : ~Aims((a \o b)[i])
<1> DEFINE c == a \o b
           p == Len(a)
           q == Len(b)
<1>1. /\ DOMAIN a = 1 .. p /\ DOMAIN b = 1 .. q /\ DOMAIN c = 1 .. (p + q)
      /\ \A i \in 1 .. p : c[i] = a[i]
      /\ \A i \in 1 .. (p + q) : i \notin 1 .. p => i - p \in 1 .. q /\ c[i] = b[i - p]
  BY Positions
<1> HIDE DEF c, p, q
<1>2. NoRetry(a) /\ NoRetry(b) => NoRetry(c)
  BY <1>1 DEF NoRetry
<1>3. (\A i \in DOMAIN a : ~Aims(a[i])) /\ (\A i \in DOMAIN b : ~Aims(b[i])) =>
         \A i \in DOMAIN c : ~Aims(c[i])
  BY <1>1
<1> QED BY <1>2, <1>3 DEF c

\* Whether the page has moved is handed on; what the first one holds, the second
\* one may switch off.
LEMMA OneThenOne ==
    ASSUME NEW l, NEW m, NEW n, NEW G, NEW H,
           NEW a \in Plays(l, G, m), NEW b \in Plays(m, H, n)
    PROVE  a \o b \in Plays(l, G \cup H, n)
<1>1. /\ a \in AllScripts /\ AimsAnew(a, l, m) /\ SwitchesOff(a, G) /\ NoRetry(a)
      /\ b \in AllScripts /\ AimsAnew(b, m, n) /\ SwitchesOff(b, H) /\ NoRetry(b)
  BY DEF Plays
<1>2. a \o b \in AllScripts
  BY <1>1, Positions
<1>3. AimsAnew(a \o b, l, n)
  BY <1>1, AimsFollow
<1>4. SwitchesOff(a \o b, G \cup H)
  BY <1>1, SwitchesFollow
<1>5. NoRetry(a \o b)
  BY <1>1, NoRetryFollows
<1> QED BY <1>2, <1>3, <1>4, <1>5 DEF Plays

\* The same for the scripts of two sets (Scripts: **).
LEMMA Then ==
    ASSUME NEW A, NEW B, NEW l, NEW m, NEW n, NEW G, NEW H,
           A \subseteq Plays(l, G, m), B \subseteq Plays(m, H, n)
    PROVE  A ** B \subseteq Plays(l, G \cup H, n)
<1> SUFFICES ASSUME NEW c \in A ** B PROVE c \in Plays(l, G \cup H, n)
  OBVIOUS
<1>1. PICK a \in A, b \in B : c = a \o b
  BY DEF **
<1>2. a \in Plays(l, G, m) /\ b \in Plays(m, H, n)
  OBVIOUS
<1> QED BY <1>1, <1>2, OneThenOne

Off(B, thing) == \A b \in B : \E j \in DOMAIN b : TurnsOff(b[j], thing)

\* The same, when every script of the second set switches `thing` off.
LEMMA ThenOff ==
    ASSUME NEW A, NEW B, NEW l, NEW m, NEW n, NEW G, NEW thing,
           A \subseteq Plays(l, G, m), B \subseteq Plays(m, {}, n), Off(B, thing)
    PROVE  A ** B \subseteq Plays(l, G \ {thing}, n)
<1> SUFFICES ASSUME NEW c \in A ** B PROVE c \in Plays(l, G \ {thing}, n)
  OBVIOUS
<1>0. PICK a \in A, b \in B : c = a \o b
  BY DEF **
<1>1. /\ a \in AllScripts /\ AimsAnew(a, l, m) /\ SwitchesOff(a, G) /\ NoRetry(a)
      /\ b \in AllScripts /\ AimsAnew(b, m, n) /\ SwitchesOff(b, {}) /\ NoRetry(b)
      /\ \E j \in DOMAIN b : TurnsOff(b[j], thing)
  BY DEF Plays, Off
<1>2. a \o b \in AllScripts
  BY <1>1, Positions
<1>3. AimsAnew(a \o b, l, n)
  BY <1>1, AimsFollow
<1>4. SwitchesOff(a \o b, G \ {thing})
  BY <1>1, SwitchesFollow
<1>5. NoRetry(a \o b)
  BY <1>1, NoRetryFollows
<1> QED BY <1>0, <1>2, <1>3, <1>4, <1>5 DEF Plays

\* What plays wherever the page was, or promises that it has not moved, plays
\* where less is asked.
LEMMA PlaysMore ==
    ASSUME NEW l, NEW H, NEW n
    PROVE  /\ Plays("moved", H, n) \subseteq Plays(l, H, n)
           /\ Plays(l, H, "aimed") \subseteq Plays(l, H, n)
  BY DEF Plays, AimsAnew

-----------------------------------------------------------------------------
(* Scripts of scripts                                                      *)

\* The same steps, but for which errors end the call and which locks are kept.
Alike(a, b) ==
    /\ DOMAIN a = DOMAIN b
    /\ \A i \in DOMAIN a : a[i].op = b[i].op /\ a[i].thing = b[i].thing

\* A set of scripts that has what its scripts are put together to.
Closed(P) ==
    /\ P \subseteq AllScripts /\ <<>> \in P
    /\ \A a, b \in P : a \o b \in P
    /\ \A a \in P, b \in AllScripts : Alike(a, b) => b \in P

\* Scripts whose steps do the same play alike.
LEMMA AlikePlays ==
    ASSUME NEW l, NEW H, NEW n, NEW a \in Plays(l, H, n), NEW b \in AllScripts, Alike(a, b)
    PROVE  b \in Plays(l, H, n)
<1>1. AimsAnew(b, l, n)
  <2>1. DOMAIN a = DOMAIN b /\ AimsAnew(a, l, n)
    BY DEF Alike, Plays
  <2>2. \A i \in DOMAIN a :
           /\ Moves(a[i]) <=> Moves(b[i])
           /\ UsesAim(a[i]) <=> UsesAim(b[i])
           /\ Aims(a[i]) <=> Aims(b[i])
    BY DEF Alike, Moves, UsesAim, Aims, Pointer
  <2> QED BY <2>1, <2>2 DEF AimsAnew
<1>2. SwitchesOff(b, H) /\ NoRetry(b)
  BY DEF Alike, Plays, SwitchesOff, TurnsOff, NoRetry
<1> QED BY <1>1, <1>2 DEF Plays

\* A script may be left out.
LEMMA NothingPlays == \A l, H : <<>> \in Plays(l, H, l)
<1>1. <<>> \in AllScripts /\ DOMAIN <<>> = {}
  BY DEF AllScripts
<1> QED BY <1>1 DEF Plays, AimsAnew, SwitchesOff, NoRetry

\* Scripts that leave the page as they may find it can be left out, repeated
\* and made to ignore errors.
LEMMA PlaysClosed == \A l, H : Closed(Plays(l, H, l))
<1> SUFFICES ASSUME NEW l, NEW H PROVE Closed(Plays(l, H, l))
  OBVIOUS
<1>1. ASSUME NEW a \in Plays(l, H, l), NEW b \in Plays(l, H, l)
      PROVE  a \o b \in Plays(l, H, l)
  <2>1. a \o b \in Plays(l, H \cup H, l)
    BY <1>1, OneThenOne
  <2>2. H \cup H = H
    OBVIOUS
  <2> QED BY <2>1, <2>2
<1>2. Plays(l, H, l) \subseteq AllScripts
  BY DEF Plays
<1> QED BY <1>1, <1>2, NothingPlays, AlikePlays DEF Closed

\* So can the sound ones.
LEMMA SoundClosed == Closed(Sound)
  BY PlaysClosed DEF Sound

\* So can those that only look.
LEMMA BlindClosed == Closed(Blind)
<1>1. ASSUME NEW a \in Blind, NEW b \in Blind PROVE a \o b \in Blind
  <2>1. /\ a \in AllScripts /\ b \in AllScripts
        /\ (\A i \in DOMAIN a : ~Aims(a[i])) /\ (\A i \in DOMAIN b : ~Aims(b[i]))
    BY DEF Blind
  <2>2. \A i \in DOMAIN (a \o b) : ~Aims((a \o b)[i])
    BY <2>1, NoRetryFollows
  <2> QED BY <2>1, <2>2, Positions DEF Blind
<1>2. ASSUME NEW a \in Blind, NEW b \in AllScripts, Alike(a, b) PROVE b \in Blind
  BY <1>2 DEF Blind, Alike, Aims
<1>3. <<>> \in AllScripts /\ DOMAIN <<>> = {}
  BY DEF AllScripts
<1> QED BY <1>1, <1>2, <1>3 DEF Closed, Blind

\* A step whose error is ignored, or that keeps the client, is a step that does
\* the same.
LEMMA Remade ==
    ASSUME NEW a \in AllScripts, NEW b \in [DOMAIN a -> StepType]
    PROVE  b \in AllScripts
<1>1. Len(a) \in Nat /\ DOMAIN a = 1 .. Len(a)
  BY DEF AllScripts
<1> QED BY <1>1 DEF AllScripts

\* A step that only differs in whether its error ends the call.
LEMMA Ignored ==
    ASSUME NEW s \in StepType, NEW value \in BOOLEAN
    PROVE  /\ [s EXCEPT !.must = value] \in StepType
           /\ [s EXCEPT !.must = value].op = s.op /\ [s EXCEPT !.must = value].thing = s.thing
           /\ [s EXCEPT !.keeps = value] \in StepType
           /\ [s EXCEPT !.keeps = value].op = s.op /\ [s EXCEPT !.keeps = value].thing = s.thing
  BY DEF StepType

Has(P, A) == A \subseteq P

\* Errors that are ignored change nothing of what a script does.
LEMMA HasTry ==
    ASSUME NEW P, Closed(P), NEW A, Has(P, A)
    PROVE  Has(P, Try(A))
<1> SUFFICES ASSUME NEW a \in A
             PROVE  [i \in DOMAIN a |-> [a[i] EXCEPT !.must = FALSE]] \in P
  BY DEF Has, Try
<1> DEFINE no == FALSE
           b == [i \in DOMAIN a |-> [a[i] EXCEPT !.must = no]]
<1>1. a \in P /\ a \in AllScripts
  BY DEF Has, Closed
<1>2. no \in BOOLEAN /\ \A i \in DOMAIN a : a[i] \in StepType
  BY <1>1 DEF AllScripts
<1> HIDE DEF no
<1>3. b \in [DOMAIN a -> StepType] /\ Alike(a, b)
  BY <1>2, Ignored DEF Alike
<1> HIDE DEF b
<1>4. b \in P
  BY <1>1, <1>3, Remade DEF Closed
<1> QED BY <1>4 DEF b, no

\* Nor does the lock on the client.
LEMMA HasLocked ==
    ASSUME NEW P, Closed(P), NEW A, Has(P, A)
    PROVE  Has(P, Locked(A))
<1> SUFFICES ASSUME NEW a \in A
             PROVE  [i \in DOMAIN a |-> [a[i] EXCEPT !.keeps = TRUE]] \in P
  BY DEF Has, Locked
<1> DEFINE yes == TRUE
           b == [i \in DOMAIN a |-> [a[i] EXCEPT !.keeps = yes]]
<1>1. a \in P /\ a \in AllScripts
  BY DEF Has, Closed
<1>2. yes \in BOOLEAN /\ \A i \in DOMAIN a : a[i] \in StepType
  BY <1>1 DEF AllScripts
<1> HIDE DEF yes
<1>3. b \in [DOMAIN a -> StepType] /\ Alike(a, b)
  BY <1>2, Ignored DEF Alike
<1> HIDE DEF b
<1>4. b \in P
  BY <1>1, <1>3, Remade DEF Closed
<1> QED BY <1>4 DEF b, yes

\* One script after another.
LEMMA HasThen ==
    ASSUME NEW P, Closed(P), NEW A, NEW B, Has(P, A), Has(P, B)
    PROVE  Has(P, A ** B)
<1> SUFFICES ASSUME NEW c \in A ** B PROVE c \in P
  BY DEF Has
<1>1. PICK a \in A, b \in B : c = a \o b
  BY DEF **
<1> QED BY <1>1 DEF Has, Closed

\* A script or none.
LEMMA HasMaybe ==
    ASSUME NEW P, Closed(P), NEW A, Has(P, A)
    PROVE  Has(P, Skip) /\ Has(P, Maybe(A))
  BY DEF Has, Closed, Maybe, Skip

\* However often the loop goes round.
LEMMA HasUpTo ==
    ASSUME NEW P, Closed(P), NEW A, Has(P, A), NEW n \in Nat
    PROVE  Has(P, UpTo(n, A))
<1> DEFINE S == SUBSET P
           base == Skip
           step == [i \in 1 .. n |-> [B \in S |-> Maybe(A ** B)]]
           Defines(f) == f = [i \in 0 .. n |-> IF i = 0 THEN base ELSE Maybe(A ** f[i - 1])]
           f == CHOOSE f : Defines(f)
<1>1. UpTo(n, A) = f[n]
  BY DEF UpTo
<1>2. base \in S
  BY DEF Closed, Skip
<1>3. ASSUME NEW B \in S PROVE Maybe(A ** B) \in S
  <2>1. Has(P, B)
    BY DEF Has
  <2>2. Has(P, Maybe(A ** B))
    BY <2>1, HasThen, HasMaybe
  <2> QED BY <2>2 DEF Has
<1>4. step \in [1 .. n -> [S -> S]]
  BY <1>3
<1> HIDE DEF S, base, step, f
<1>5. PICK h : Steps(h, n, S, base, step)
  BY <1>2, <1>4, Stepwise
<1>6. /\ h \in [0 .. n -> S] /\ h[0] = base
      /\ \A i \in 1 .. n : h[i] = step[i][h[i - 1]]
  BY <1>5 DEF Steps
<1>7. Defines(h)
  <2>1. ASSUME NEW i \in 0 .. n
        PROVE  h[i] = IF i = 0 THEN base ELSE Maybe(A ** h[i - 1])
    <3>1. CASE i = 0
      BY <1>6, <3>1
    <3>2. CASE i # 0
      <4>1. i \in 1 .. n /\ i - 1 \in 0 .. n
        BY <3>2
      <4>2. h[i] = step[i][h[i - 1]] /\ h[i - 1] \in S
        BY <1>6, <4>1
      <4> QED BY <3>2, <4>1, <4>2 DEF step
    <3> QED BY <3>1, <3>2
  <2> QED BY <1>6, <2>1
<1>8. Defines(f)
  BY <1>7 DEF f
<1>9. f[0] = base /\ \A i \in 1 .. n : f[i] = Maybe(A ** f[i - 1])
  BY <1>8
<1> HIDE DEF Defines
<1> DEFINE T == {i \in 0 .. n : f[i] \in S}
<1>10. 0 \in T
  BY <1>2, <1>9
<1>11. ASSUME NEW i \in T, i < n PROVE i + 1 \in T
  <2>1. i + 1 \in 1 .. n /\ (i + 1) - 1 = i /\ f[i] \in S
    BY <1>11
  <2>2. f[i + 1] = Maybe(A ** f[i])
    BY <1>9, <2>1
  <2> QED BY <1>3, <2>1, <2>2
<1>12. T = 0 .. n
  <2>1. T \in SUBSET (0 .. n)
    OBVIOUS
  <2> HIDE DEF T
  <2> QED BY <1>10, <1>11, <2>1, Induction
<1>13. f[n] \in S
  BY <1>12
<1> QED BY <1>1, <1>13 DEF S, Has

\* Scripts that are put together of scripts of a closed set are in it.
LEMMA Together ==
    ASSUME NEW P, Closed(P)
    PROVE  /\ Has(P, Skip) /\ Has(P, Record)
           /\ \A A, B : Has(P, A) /\ Has(P, B) => Has(P, A ** B) /\ Has(P, A \cup B)
           /\ \A A : Has(P, A) =>
                 /\ Has(P, Maybe(A)) /\ Has(P, Try(A)) /\ Has(P, Locked(A))
                 /\ Has(P, UpTo(MaxLoops, A)) /\ Has(P, OneTo(MaxLoops, A))
<1>1. Has(P, Skip) /\ Has(P, Record)
  BY HasMaybe DEF Record, Has
<1>2. ASSUME NEW A, NEW B, Has(P, A), Has(P, B) PROVE Has(P, A ** B) /\ Has(P, A \cup B)
  BY <1>2, HasThen DEF Has
<1>3. ASSUME NEW A, Has(P, A)
      PROVE  /\ Has(P, Maybe(A)) /\ Has(P, Try(A)) /\ Has(P, Locked(A))
             /\ Has(P, UpTo(MaxLoops, A)) /\ Has(P, OneTo(MaxLoops, A))
  <2>1. MaxLoops \in Nat /\ MaxLoops - 1 \in Nat
    BY MaxLoopsAssumption
  <2>2. Has(P, UpTo(MaxLoops, A)) /\ Has(P, UpTo(MaxLoops - 1, A))
    BY <1>3, <2>1, HasUpTo
  <2>3. Has(P, OneTo(MaxLoops, A))
    BY <1>3, <2>2, HasThen DEF OneTo
  <2> QED BY <1>3, <2>2, <2>3, HasMaybe, HasTry, HasLocked
<1> QED BY <1>1, <1>2, <1>3

-----------------------------------------------------------------------------
(* The commands                                                            *)

\* Scripts of one step.
Single(A, op, thing) ==
    /\ A \subseteq AllScripts
    /\ \A a \in A : DOMAIN a = {1} /\ a[1].op = op /\ a[1].thing = thing

\* A sequence of one element.
LEMMA Alone ==
    ASSUME NEW S, NEW s \in S
    PROVE  <<s>> \in Seq(S) /\ DOMAIN <<s>> = {1} /\ <<s>>[1] = s
  OBVIOUS

\* Step makes scripts of one step.
LEMMA StepSingle ==
    ASSUME NEW op \in Ops, NEW thing \in Things \cup {""}, NEW sent \in BOOLEAN
    PROVE  Single(Step(op, thing, sent), op, thing)
<1> SUFFICES ASSUME NEW a \in Step(op, thing, sent)
             PROVE  a \in AllScripts /\ DOMAIN a = {1} /\ a[1].op = op /\ a[1].thing = thing
  BY Zenon DEF Single
<1> DEFINE yes == TRUE
           no == FALSE
           s == [op |-> op, thing |-> thing, sent |-> sent, must |-> yes, keeps |-> no]
<1>1. a = <<s>> /\ yes \in BOOLEAN /\ no \in BOOLEAN
  BY DEF Step
<1> HIDE DEF yes, no
<1>2. s \in StepType /\ s.op = op /\ s.thing = thing
  BY <1>1 DEF StepType
<1> HIDE DEF s
<1>3. <<s>> \in Seq(StepType) /\ DOMAIN <<s>> = {1} /\ <<s>>[1] = s
  BY <1>2, Alone
<1> QED BY <1>1, <1>2, <1>3 DEF AllScripts

\* Where a single step plays.
LEMMA SinglePlays ==
    ASSUME NEW A, NEW op, NEW thing, NEW l, NEW H, NEW n,
           Single(A, op, thing), op # "again",
           op \in {"point", "wheel", "aimGlance", "carry"} \/ thing = "button" => l = "aimed",
           op = "on" => thing \in Things /\ thing \in H,
           op \in {"script", "wheel", "top"} => n # "aimed",
           n = "aimed" => l = "aimed" \/ op \in {"aim", "glance"}
    PROVE  A \subseteq Plays(l, H, n)
<1> SUFFICES ASSUME NEW a \in A PROVE a \in Plays(l, H, n)
  OBVIOUS
<1>1. a \in AllScripts /\ DOMAIN a = {1} /\ a[1].op = op /\ a[1].thing = thing
  BY DEF Single
<1>2. /\ UsesAim(a[1]) => l = "aimed"
      /\ Moves(a[1]) => n # "aimed"
      /\ n = "aimed" => l = "aimed" \/ Aims(a[1])
  BY <1>1 DEF UsesAim, Pointer, Moves, Aims
<1>3. AimsAnew(a, l, n)
  BY <1>1, <1>2 DEF AimsAnew
<1>4. SwitchesOff(a, H) /\ NoRetry(a)
  BY <1>1 DEF SwitchesOff, NoRetry
<1> QED BY <1>1, <1>3, <1>4 DEF Plays

\* A step that does not aim only looks.
LEMMA SingleBlind ==
    ASSUME NEW A, NEW op, NEW thing, Single(A, op, thing), op \notin {"aim", "glance"}
    PROVE  Has(Blind, A)
  BY DEF Has, Blind, Single, Aims

\* A step that neither points nor aims nor switches anything on is quiet.
LEMMA SingleQuiet ==
    ASSUME NEW A, NEW op, NEW thing, Single(A, op, thing),
           op \in {"ask", "raise", "script", "top", "off"}, thing # "button"
    PROVE  Has(Quiet, A)
<1>1. A \subseteq Plays("moved", {}, "moved")
  BY SinglePlays
<1>2. Has(Blind, A)
  BY SingleBlind
<1> QED BY <1>1, <1>2 DEF Has, Quiet, Sound

\* A step that switches off.
LEMMA SingleOff ==
    ASSUME NEW A, NEW thing, Single(A, "off", thing)
    PROVE  Off(A, thing)
<1> SUFFICES ASSUME NEW a \in A PROVE \E j \in DOMAIN a : TurnsOff(a[j], thing)
  BY DEF Off
<1>1. 1 \in DOMAIN a /\ a[1].op = "off" /\ a[1].thing = thing
  BY DEF Single
<1> QED BY <1>1 DEF TurnsOff

\* A single step whose error is ignored.
LEMMA SingleTry ==
    ASSUME NEW A, NEW op, NEW thing, Single(A, op, thing)
    PROVE  Single(Try(A), op, thing)
<1> DEFINE no == FALSE
           tried(a) == [i \in DOMAIN a |-> [a[i] EXCEPT !.must = no]]
<1>1. Try(A) = {tried(a) : a \in A} /\ no \in BOOLEAN
  BY DEF Try
<1> HIDE DEF no
<1>2. ASSUME NEW a \in A
      PROVE  tried(a) \in AllScripts /\ DOMAIN tried(a) = {1}
             /\ tried(a)[1].op = op /\ tried(a)[1].thing = thing
  <2>1. a \in AllScripts /\ DOMAIN a = {1} /\ a[1].op = op /\ a[1].thing = thing
    BY DEF Single
  <2>2. \A i \in DOMAIN a : a[i] \in StepType
    <3>1. a \in AllScripts
      BY <2>1
    <3> QED BY <3>1 DEF AllScripts
  <2>3. ASSUME NEW i \in DOMAIN a
        PROVE  [a[i] EXCEPT !.must = no] \in StepType
    BY <1>1, <2>2, Ignored
  <2>4. /\ [a[1] EXCEPT !.must = no].op = a[1].op
        /\ [a[1] EXCEPT !.must = no].thing = a[1].thing
    BY <1>1, <2>1, <2>2, Ignored
  <2>5. tried(a) \in [DOMAIN a -> StepType] /\ tried(a)[1] = [a[1] EXCEPT !.must = no]
    BY <2>1, <2>3
  <2>6. tried(a) \in AllScripts
    <3> HIDE DEF tried
    <3> QED BY <2>1, <2>5, Remade
  <2> QED BY <2>1, <2>4, <2>5, <2>6
<1> HIDE DEF tried
<1> QED BY <1>1, <1>2 DEF Single

\* Quiet scripts are sound and only look.
LEMMA QuietIs == \A A : Has(Quiet, A) <=> Has(Sound, A) /\ Has(Blind, A)
  BY DEF Has, Quiet

\* Quiet scripts are closed like sound ones.
LEMMA QuietClosed == Closed(Quiet)
  BY SoundClosed, BlindClosed DEF Closed, Quiet

\* Each command.
LEMMA Commands ==
    /\ Single(Ask, "ask", "") /\ Single(Raise, "raise", "") /\ Single(Script, "script", "")
    /\ Single(InsertText, "ask", "") /\ Single(Navigate, "ask", "")
    /\ Single(Aim, "aim", "") /\ Single(Glance, "glance", "")
    /\ Single(AimAtGlance, "aimGlance", "") /\ Single(Carry, "carry", "")
    /\ Single(Point, "point", "") /\ Single(Wheel, "wheel", "")
    /\ Single(Press, "on", "button") /\ Single(Release, "off", "button")
    /\ Single(Again, "again", "")
    /\ \A key \in Things : Single(KeyDown(key), "on", key) /\ Single(KeyUp(key), "off", key)
    /\ \A op \in Ops, thing \in Things \cup {""} : Single(Step(op, thing, FALSE), op, thing)
    /\ \A op \in Ops, thing \in Things \cup {""} : Single(Step(op, thing, TRUE), op, thing)
<1>1. \A op \in Ops, thing \in Things \cup {""} :
         /\ Single(Step(op, thing, FALSE), op, thing)
         /\ Single(Step(op, thing, TRUE), op, thing)
  <2> SUFFICES ASSUME NEW op \in Ops, NEW thing \in Things \cup {""}
               PROVE  /\ Single(Step(op, thing, FALSE), op, thing)
                      /\ Single(Step(op, thing, TRUE), op, thing)
    OBVIOUS
  <2>1. \A sent \in BOOLEAN : Single(Step(op, thing, sent), op, thing)
    BY StepSingle, Zenon
  <2>2. TRUE \in BOOLEAN /\ FALSE \in BOOLEAN
    OBVIOUS
  <2> QED BY <2>1, <2>2, Zenon
<1>2. /\ "ask" \in Ops /\ "raise" \in Ops /\ "script" \in Ops /\ "" \in Things \cup {""}
      /\ "aim" \in Ops /\ "glance" \in Ops /\ "aimGlance" \in Ops
      /\ "carry" \in Ops /\ "point" \in Ops /\ "wheel" \in Ops
      /\ "on" \in Ops /\ "off" \in Ops /\ "again" \in Ops /\ "button" \in Things \cup {""}
  BY DEF Ops, Things
<1>3. /\ Single(Ask, "ask", "") /\ Single(Raise, "raise", "") /\ Single(Script, "script", "")
      /\ Single(InsertText, "ask", "") /\ Single(Navigate, "ask", "")
  BY <1>1, <1>2 DEF Ask, Raise, Script, InsertText, Navigate
<1>4. /\ Single(Aim, "aim", "") /\ Single(Glance, "glance", "")
      /\ Single(AimAtGlance, "aimGlance", "") /\ Single(Carry, "carry", "")
      /\ Single(Point, "point", "") /\ Single(Wheel, "wheel", "")
  BY <1>1, <1>2 DEF Aim, Glance, AimAtGlance, Carry, Point, Wheel
<1>5. /\ Single(Press, "on", "button") /\ Single(Release, "off", "button")
      /\ Single(Again, "again", "")
  BY <1>1, <1>2 DEF Press, Release, Again
<1>6. \A key \in Things : Single(KeyDown(key), "on", key) /\ Single(KeyUp(key), "off", key)
  BY <1>1, <1>2 DEF KeyDown, KeyUp
<1> QED BY <1>1, <1>3, <1>4, <1>5, <1>6

-----------------------------------------------------------------------------
(* What commands are put together to                                       *)

Leads(A, l, H, n) == A \subseteq Plays(l, H, n)

\* One set of scripts leads to where the next one starts.
LEMMA LeadsOn ==
    ASSUME NEW A, NEW B, NEW l, NEW m, NEW n, NEW H
    PROVE  /\ Leads(A, l, {}, m) /\ Leads(B, m, H, n) => Leads(A ** B, l, H, n)
           /\ Leads(A, l, H, m) /\ Leads(B, m, {}, n) => Leads(A ** B, l, H, n)
<1>1. {} \cup H = H /\ H \cup {} = H
  OBVIOUS
<1>2. ASSUME Leads(A, l, {}, m), Leads(B, m, H, n) PROVE Leads(A ** B, l, H, n)
  <2>1. A ** B \subseteq Plays(l, {} \cup H, n)
    BY <1>2, Then DEF Leads
  <2> QED BY <1>1, <2>1 DEF Leads
<1>3. ASSUME Leads(A, l, H, m), Leads(B, m, {}, n) PROVE Leads(A ** B, l, H, n)
  <2>1. A ** B \subseteq Plays(l, H \cup {}, n)
    BY <1>3, Then DEF Leads
  <2> QED BY <1>1, <2>1 DEF Leads
<1> QED BY <1>2, <1>3

\* The next one switches off what the first left on.
LEMMA LeadsOff ==
    ASSUME NEW A, NEW B, NEW l, NEW m, NEW n, NEW thing,
           Leads(A, l, {thing}, m), Leads(B, m, {}, n), Off(B, thing)
    PROVE  Leads(A ** B, l, {}, n)
<1>1. A ** B \subseteq Plays(l, {thing} \ {thing}, n)
  BY ThenOff DEF Leads
<1>2. {thing} \ {thing} = {}
  OBVIOUS
<1> QED BY <1>1, <1>2 DEF Leads

\* Sound scripts lead anywhere, and whatever leaves nothing on is sound from
\* where nothing was aimed.
LEMMA LeadsSound ==
    ASSUME NEW A
    PROVE  /\ Has(Sound, A) <=> Leads(A, "moved", {}, "moved")
           /\ \A n : Leads(A, "moved", {}, n) => Has(Sound, A)
           /\ \A l : Leads(A, l, {}, "aimed") => Leads(A, l, {}, "moved")
           /\ Leads(A, "moved", {}, "moved") => Leads(A, "aimed", {}, "moved")
  BY PlaysMore DEF Has, Leads, Sound, Plays, AimsAnew

\* The commands that aim, those that use an aim, and those that switch on.
LEMMA Aiming ==
    /\ Leads(Aim, "moved", {}, "aimed") /\ Leads(Glance, "moved", {}, "aimed")
    /\ Leads(AimAtGlance, "aimed", {}, "aimed") /\ Leads(Carry, "aimed", {}, "aimed")
    /\ Leads(Point, "aimed", {}, "aimed") /\ Leads(Wheel, "aimed", {}, "moved")
    /\ Leads(Press, "aimed", {"button"}, "aimed") /\ Leads(Release, "aimed", {}, "aimed")
    /\ Off(Release, "button")
<1>1. Leads(Aim, "moved", {}, "aimed") /\ Leads(Glance, "moved", {}, "aimed")
  BY Commands, SinglePlays DEF Leads
<1>2. Leads(AimAtGlance, "aimed", {}, "aimed") /\ Leads(Carry, "aimed", {}, "aimed")
  BY Commands, SinglePlays DEF Leads
<1>3. Leads(Point, "aimed", {}, "aimed") /\ Leads(Release, "aimed", {}, "aimed")
  BY Commands, SinglePlays DEF Leads
<1>4. Leads(Wheel, "aimed", {}, "moved")
  BY Commands, SinglePlays DEF Leads
<1>5. Leads(Press, "aimed", {"button"}, "aimed")
  BY Commands, SinglePlays DEF Leads, Things
<1>6. Off(Release, "button")
  BY Commands, SingleOff
<1> QED BY <1>1, <1>2, <1>3, <1>4, <1>5, <1>6

\* The commands of the supervisor that neither aim nor point.
LEMMA QuietCommands ==
    /\ Has(Quiet, Ask) /\ Has(Quiet, Raise) /\ Has(Quiet, Script) /\ Has(Quiet, InsertText)
    /\ Has(Quiet, Navigate) /\ Has(Quiet, Step("top", "", FALSE))
    /\ Has(Quiet, Step("ask", "", TRUE))
<1>1. "top" \in Ops /\ "ask" \in Ops /\ "" \in Things \cup {""} /\ "" # "button"
  BY DEF Ops
<1>2. Single(Step("top", "", FALSE), "top", "") /\ Single(Step("ask", "", TRUE), "ask", "")
  BY <1>1, Commands, Zenon
<1>3. Has(Quiet, Step("top", "", FALSE))
  <2> DEFINE A == Step("top", "", FALSE)
  <2>1. Single(A, "top", "")
    BY <1>2
  <2> HIDE DEF A
  <2>2. Has(Quiet, A)
    BY <2>1, SingleQuiet
  <2> QED BY <2>2 DEF A
<1>4. Has(Quiet, Step("ask", "", TRUE))
  <2> DEFINE A == Step("ask", "", TRUE)
  <2>1. Single(A, "ask", "")
    BY <1>2
  <2> HIDE DEF A
  <2>2. Has(Quiet, A)
    BY <2>1, SingleQuiet
  <2> QED BY <2>2 DEF A
<1>5. Has(Quiet, Ask) /\ Has(Quiet, Raise) /\ Has(Quiet, Script)
  BY Commands, SingleQuiet
<1>6. Has(Quiet, InsertText) /\ Has(Quiet, Navigate)
  BY Commands, SingleQuiet
<1> QED BY <1>3, <1>4, <1>5, <1>6

\* A click after an aim releases what it pressed.
LEMMA Clicks ==
    /\ Leads(MouseClick, "aimed", {}, "aimed")
    /\ Leads(Press ** Release, "aimed", {}, "aimed")
    /\ Leads(ClickAt, "moved", {}, "aimed") /\ Leads(ClickSeen, "moved", {}, "aimed")
    /\ Has(Sound, ClickAt) /\ Has(Sound, ClickSeen)
<1>1. Leads(Point ** Press, "aimed", {"button"}, "aimed")
  BY Aiming, LeadsOn
<1>2. Leads(MouseClick, "aimed", {}, "aimed")
  BY <1>1, Aiming, LeadsOff DEF MouseClick
<1>3. Leads(Press ** Release, "aimed", {}, "aimed")
  BY Aiming, LeadsOff
<1>4. Leads(ClickAt, "moved", {}, "aimed")
  BY <1>2, Aiming, LeadsOn DEF ClickAt
<1>5. Leads(Glance ** AimAtGlance, "moved", {}, "aimed")
  BY Aiming, LeadsOn
<1>6. Leads(ClickSeen, "moved", {}, "aimed")
  BY <1>2, <1>5, LeadsOn DEF ClickSeen
<1> QED BY <1>2, <1>3, <1>4, <1>6, LeadsSound

\* What holds more may be asked where less is asked.
LEMMA LeadsMore ==
    ASSUME NEW A, NEW H
    PROVE  /\ Has(Sound, A) => Has(Plays("moved", H, "moved"), A)
           /\ Leads(A, "moved", H, "moved") <=> Has(Plays("moved", H, "moved"), A)
  BY DEF Has, Leads, Sound, Plays, SwitchesOff

\* capture_full_page_screenshot clears the metrics that it overrides.
LEMMA FullPageQuiet == Has(Quiet, FullPage)
<1> DEFINE top == Step("top", "", FALSE)
           override == Step("on", "metrics", FALSE)
           clear == Step("off", "metrics", FALSE)
           start == Locked(Ask ** Try(top) ** override)
           look == Locked(Try(Ask))
           H == {"metrics"}
           P == Plays("moved", H, "moved")
<1>1. FullPage = start ** look ** Try(clear) ** Maybe(Raise)
  BY DEF FullPage
<1>2. Single(override, "on", "metrics") /\ Single(clear, "off", "metrics")
  <2>1. "on" \in Ops /\ "off" \in Ops /\ "metrics" \in Things \cup {""}
    BY DEF Ops, Things
  <2> QED BY <2>1, Commands, Zenon
<1>3. Has(Quiet, top)
  BY QuietCommands
<1> HIDE DEF top, override, clear
<1>4. Single(Try(clear), "off", "metrics")
  BY <1>2, SingleTry
<1>5. Has(Quiet, Try(clear)) /\ Off(Try(clear), "metrics")
  BY <1>4, SingleQuiet, SingleOff
<1>6. Has(P, Ask) /\ Has(P, top)
  BY <1>3, QuietCommands, QuietIs, LeadsMore
<1>7. Has(P, override)
  <2>1. override \subseteq Plays("moved", H, "moved")
    BY <1>2, SinglePlays DEF Things
  <2> QED BY <2>1 DEF Has
<1>8. Closed(P)
  BY PlaysClosed
<1> HIDE DEF P, H
<1>9. Has(P, start) /\ Has(P, look)
  BY <1>6, <1>7, <1>8, Together
<1>10. Leads(start ** look, "moved", H, "moved")
  BY <1>8, <1>9, Together, LeadsMore DEF P
<1>11. Has(Blind, start) /\ Has(Blind, look)
  <2>1. Has(Blind, override)
    BY <1>2, SingleBlind
  <2> QED BY <1>3, <2>1, QuietCommands, QuietIs, BlindClosed, Together
<1> HIDE DEF start, look
<1>12. Leads(Try(clear), "moved", {}, "moved")
  BY <1>5, QuietIs, LeadsSound
<1>13. Leads(start ** look ** Try(clear), "moved", {}, "moved")
  BY <1>5, <1>10, <1>12, LeadsOff DEF H
<1>14. Has(Quiet, start ** look ** Try(clear))
  <2>1. Has(Sound, start ** look ** Try(clear))
    BY <1>13, LeadsSound
  <2>2. Has(Blind, start ** look ** Try(clear))
    BY <1>5, <1>11, QuietIs, BlindClosed, Together
  <2> QED BY <2>1, <2>2, QuietIs
<1> QED BY <1>1, <1>14, QuietCommands, QuietClosed, Together

\* Something is switched on and off, and nothing aimed at in between.
LEMMA OnAndOff ==
    ASSUME NEW thing \in Things, thing # "button", NEW A, NEW B, NEW C,
           Single(A, "on", thing), Has(Quiet, B), Single(C, "off", thing)
    PROVE  Has(Quiet, A ** B ** C) /\ Has(Quiet, A ** C)
<1>1. Leads(A, "moved", {thing}, "moved")
  <2>1. A \subseteq Plays("moved", {thing}, "moved")
    BY SinglePlays
  <2> QED BY <2>1 DEF Leads
<1>2. Has(Quiet, C) /\ Off(C, thing)
  BY SingleQuiet, SingleOff
<1>3. Leads(B, "moved", {}, "moved") /\ Leads(C, "moved", {}, "moved")
  BY <1>2, QuietIs, LeadsSound
<1>4. Leads(A ** B, "moved", {thing}, "moved")
  BY <1>1, <1>3, LeadsOn
<1>5. Leads(A ** B ** C, "moved", {}, "moved") /\ Leads(A ** C, "moved", {}, "moved")
  BY <1>1, <1>2, <1>3, <1>4, LeadsOff
<1>6. Has(Blind, A) /\ Has(Blind, B) /\ Has(Blind, C)
  BY <1>2, SingleBlind, QuietIs
<1>7. Has(Blind, A ** B ** C) /\ Has(Blind, A ** C)
  BY <1>6, BlindClosed, Together
<1> QED BY <1>5, <1>7, QuietIs, LeadsSound

-----------------------------------------------------------------------------
(* The tools and the handlers                                              *)

\* One key, and two of them, the last one up first.
LEMMA Keys ==
    /\ Has(Sound, KeyDown("key1") ** KeyUp("key1"))
    /\ Has(Sound, KeyDown("key1") ** KeyDown("key2") ** KeyUp("key2") ** KeyUp("key1"))
<1> DEFINE A == KeyDown("key1")
           B == KeyDown("key2")
           C == KeyUp("key2")
           D == KeyUp("key1")
           G == {"key1"}
           H == {"key2"}
<1>1. /\ Single(A, "on", "key1") /\ Single(B, "on", "key2")
      /\ Single(C, "off", "key2") /\ Single(D, "off", "key1")
      /\ "key1" \in Things /\ "key2" \in Things
  <2>1. "key1" \in Things /\ "key2" \in Things
    BY DEF Things
  <2> QED BY <2>1, Commands, Zenon
<1> HIDE DEF A, B, C, D
<1>2. Has(Sound, A ** D)
  BY <1>1, OnAndOff, QuietCommands, QuietIs
<1>3. A \subseteq Plays("moved", G, "moved")
  BY <1>1, SinglePlays
<1>4. B \subseteq Plays("moved", H, "moved")
  BY <1>1, SinglePlays
<1>5. C \subseteq Plays("moved", {}, "moved") /\ Leads(D, "moved", {}, "moved")
  BY <1>1, SinglePlays DEF Leads
<1>6. Off(C, "key2") /\ Off(D, "key1")
  BY <1>1, SingleOff
<1>7. (G \cup H) \ {"key2"} = {"key1"}
  OBVIOUS
<1> HIDE DEF G, H
<1>8. A ** B \subseteq Plays("moved", G \cup H, "moved")
  BY <1>3, <1>4, Then
<1>9. A ** B ** C \subseteq Plays("moved", (G \cup H) \ {"key2"}, "moved")
  BY <1>5, <1>6, <1>8, ThenOff
<1>10. Leads(A ** B ** C ** D, "moved", {}, "moved")
  BY <1>5, <1>6, <1>7, <1>9, LeadsOff DEF Leads
<1>11. Has(Sound, A ** B ** C ** D)
  BY <1>10, LeadsSound
<1> QED BY <1>2, <1>11 DEF A, B, C, D

\* The pointer goes where was aimed at, presses, goes on and releases.
LEMMA Drags ==
    ASSUME NEW A, Leads(A, "moved", {}, "aimed")
    PROVE  Has(Sound, A ** Point ** Press ** Carry ** OneTo(MaxLoops, Point) ** Release)
<1>1. Leads(A ** Point ** Press ** Carry, "moved", {"button"}, "aimed")
  BY Aiming, LeadsOn
<1>2. Leads(OneTo(MaxLoops, Point), "aimed", {}, "aimed")
  <2> DEFINE P == Plays("aimed", {}, "aimed")
  <2>1. Closed(P) /\ Has(P, Point)
    BY PlaysClosed, Aiming DEF Leads, Has
  <2> HIDE DEF P
  <2>2. Has(P, OneTo(MaxLoops, Point))
    BY <2>1, Together
  <2> QED BY <2>2 DEF P, Leads, Has
<1>3. Leads(A ** Point ** Press ** Carry ** OneTo(MaxLoops, Point), "moved", {"button"}, "aimed")
  BY <1>1, <1>2, LeadsOn
<1>4. Leads(A ** Point ** Press ** Carry ** OneTo(MaxLoops, Point) ** Release,
            "moved", {}, "aimed")
  BY <1>3, Aiming, LeadsOff
<1> QED BY <1>4, LeadsSound

\* The point is aimed at when the pointer goes there; the page moves afterwards.
LEMMA Pointing ==
    /\ Has(Sound, vscreen_scroll) /\ Has(Sound, vscreen_hover) /\ Has(Sound, vscreen_drag)
    /\ Has(Sound, Aim ** Point)
<1>1. Leads(Aim, "moved", {}, "aimed") /\ Leads(Glance ** AimAtGlance, "moved", {}, "aimed")
  BY Aiming, LeadsOn
<1>2. Leads(AimAtEither, "moved", {}, "aimed")
  BY <1>1 DEF AimAtEither, Leads
<1>3. Has(Sound, AimAtEither ** Wheel) /\ Has(Sound, AimAtEither ** Point)
      /\ Has(Sound, Aim ** Point)
  BY <1>1, <1>2, Aiming, LeadsOn, LeadsSound
<1>4. Has(Sound, vscreen_scroll) /\ Has(Sound, vscreen_hover)
  BY <1>3, SoundClosed, Together DEF vscreen_scroll, vscreen_hover
<1>5. Has(Sound, vscreen_drag)
  BY <1>2, Drags, SoundClosed, Together DEF vscreen_drag
<1> QED BY <1>3, <1>4, <1>5

\* A second press and release after a click.
LEMMA ClickDoubleSound == Has(Sound, ClickDouble)
<1>1. Leads(Aim ** Press, "moved", {"button"}, "aimed")
  BY Aiming, LeadsOn
<1>2. Leads(Aim ** Press ** Release, "moved", {}, "aimed")
  BY <1>1, Aiming, LeadsOff
<1>3. Leads(Aim ** Press ** Release ** Press, "moved", {"button"}, "aimed")
  BY <1>2, Aiming, LeadsOn
<1>4. Leads(Aim ** Press ** Release ** Press ** Release, "moved", {}, "aimed")
  BY <1>3, Aiming, LeadsOff
<1> QED BY <1>4, LeadsSound, SoundClosed, Together DEF ClickDouble

\* What the tools are written in.
LEMMA SoundCommands ==
    /\ Has(Sound, Ask) /\ Has(Sound, Raise) /\ Has(Sound, Script) /\ Has(Sound, InsertText)
    /\ Has(Sound, Navigate) /\ Has(Sound, Step("top", "", FALSE))
    /\ Has(Sound, Step("ask", "", TRUE)) /\ Has(Sound, FullPage)
    /\ Has(Sound, ClickAt) /\ Has(Sound, ClickSeen)
    /\ Has(Sound, Skip) /\ Has(Sound, Record)
  BY QuietCommands, QuietIs, FullPageQuiet, Clicks, SoundClosed, Together

\* The tools of mcp/ that interact.
LEMMA InteractionSound ==
    /\ Has(Sound, vscreen_click) /\ Has(Sound, vscreen_type) /\ Has(Sound, vscreen_key_press)
    /\ Has(Sound, vscreen_key_combo) /\ Has(Sound, vscreen_fill)
    /\ Has(Sound, vscreen_select_option) /\ Has(Sound, vscreen_dismiss_dialogs)
    /\ Has(Sound, vscreen_dismiss_ads)
<1>1. Has(Sound, ClickSingle) /\ Has(Sound, ClickElement)
  BY SoundCommands, SoundClosed, Together DEF ClickSingle, ClickElement
<1>2. Has(Sound, ClickNavigate) /\ Has(Sound, ClickBatch)
  BY SoundCommands, SoundClosed, Together DEF ClickNavigate, ClickBatch
<1>3. Has(Sound, vscreen_click)
  BY <1>1, <1>2, ClickDoubleSound, SoundClosed, Together DEF vscreen_click
<1>4. Has(Sound, vscreen_type) /\ Has(Sound, vscreen_key_press)
  BY Keys, SoundCommands, SoundClosed, Together DEF vscreen_type, vscreen_key_press
<1>5. Has(Sound, vscreen_key_combo)
  <2> DEFINE A == KeyDown("key1") ** KeyDown("key2") ** KeyUp("key2") ** KeyUp("key1")
  <2>1. Has(Sound, A)
    BY Keys
  <2>2. vscreen_key_combo = vscreen_key_press \cup (A ** Record)
    BY DEF vscreen_key_combo
  <2> HIDE DEF A
  <2>3. Has(Sound, A ** Record)
    BY <2>1, SoundCommands, SoundClosed, Together
  <2> QED BY <1>4, <2>2, <2>3, SoundClosed, Together
<1>6. Has(Sound, vscreen_fill) /\ Has(Sound, vscreen_select_option)
  BY SoundCommands, SoundClosed, Together DEF vscreen_fill, vscreen_select_option
<1>7. Has(Sound, vscreen_dismiss_dialogs) /\ Has(Sound, vscreen_dismiss_ads)
  BY SoundCommands, SoundClosed, Together DEF vscreen_dismiss_dialogs, vscreen_dismiss_ads
<1> QED BY <1>3, <1>4, <1>5, <1>6, <1>7

\* Tabs of the synthesis tools are closed, and certificates accepted.
LEMMA NavigationSound ==
    /\ Has(Sound, vscreen_navigate) /\ Has(Sound, vscreen_browse)
    /\ Has(Sound, vscreen_interact) /\ Has(Sound, vscreen_synthesize)
    /\ Has(Sound, vscreen_solve_challenge) /\ Has(Sound, vscreen_synthesis_manage)
    /\ Has(Sound, vscreen_synthesis_scrape) /\ Has(Sound, vscreen_synthesis_scrape_and_create)
<1>1. Has(Sound, run_parallel_scrape)
  <2> DEFINE A == Step("on", "tab", FALSE)
             C == Step("off", "tab", FALSE)
  <2>1. Single(A, "on", "tab") /\ Single(C, "off", "tab") /\ "tab" \in Things
    <3>1. "on" \in Ops /\ "off" \in Ops /\ "tab" \in Things \cup {""} /\ "tab" \in Things
      BY DEF Ops, Things
    <3> QED BY <3>1, Commands, Zenon
  <2> HIDE DEF A, C
  <2>2. Single(Try(C), "off", "tab")
    BY <2>1, SingleTry
  <2>3. Has(Quiet, A ** Ask ** Try(C))
    BY <2>1, <2>2, OnAndOff, QuietCommands
  <2>4. Has(Sound, A ** Ask ** Try(C))
    BY <2>3, QuietIs
  <2> QED BY <2>4 DEF run_parallel_scrape, CreateTab, CloseTab, A, C
<1>2. Has(Sound, vscreen_navigate)
  BY SoundCommands, SoundClosed, Together
  DEF vscreen_navigate, nav_helper_goto, nav_helper_history, nav_helper_reload
<1>3. Has(Sound, vscreen_browse) /\ Has(Sound, vscreen_synthesize)
      /\ Has(Sound, vscreen_solve_challenge)
  BY SoundCommands, SoundClosed, Together
  DEF vscreen_browse, vscreen_synthesize, vscreen_solve_challenge
<1>4. Has(Sound, InteractAct) /\ Has(Sound, InteractTarget)
  BY Pointing, SoundCommands, SoundClosed, Together DEF InteractAct, InteractTarget
<1>5. Has(Sound, vscreen_interact)
  BY <1>4, SoundCommands, SoundClosed, Together DEF vscreen_interact
<1>6. Has(Sound, AcceptCertificate)
  BY SoundCommands, SoundClosed, Together DEF AcceptCertificate
<1>7. Has(Sound, synthesis_manage_create) /\ Has(Sound, synthesis_manage_navigate)
  BY <1>6, SoundCommands, SoundClosed, Together
  DEF synthesis_manage_create, synthesis_manage_navigate
<1>8. Has(Sound, vscreen_synthesis_manage)
  BY <1>7, SoundClosed, Together DEF vscreen_synthesis_manage
<1>9. Has(Sound, synthesis_scrape_single)
  BY SoundCommands, SoundClosed, Together DEF synthesis_scrape_single
<1>10. Has(Sound, vscreen_synthesis_scrape)
  BY <1>1, <1>9, SoundClosed, Together DEF vscreen_synthesis_scrape, synthesis_scrape_batch
<1>11. Has(Sound, vscreen_synthesis_scrape_and_create)
  BY <1>1, <1>6, SoundCommands, SoundClosed, Together DEF vscreen_synthesis_scrape_and_create
<1> QED BY <1>2, <1>3, <1>5, <1>8, <1>10, <1>11

\* The tools that look at the page; observers have no aim.
LEMMA ObservationSound ==
    /\ Has(Sound, vscreen_execute_js) /\ Has(Sound, vscreen_storage_set)
    /\ Has(Quiet, vscreen_scroll_to_element) /\ Has(Quiet, vscreen_screenshot)
    /\ Has(Quiet, vscreen_find) /\ Has(Quiet, vscreen_extract_text)
    /\ Has(Quiet, vscreen_accessibility_tree) /\ Has(Quiet, vscreen_describe_elements)
    /\ Has(Quiet, vscreen_get_page_info) /\ Has(Quiet, vscreen_list_frames)
    /\ Has(Quiet, vscreen_storage_get) /\ Has(Quiet, vscreen_observe)
    /\ Has(Quiet, vscreen_extract) /\ Has(Quiet, vscreen_wait)
<1>0. Has(Quiet, Skip) /\ Has(Quiet, Record)
  BY QuietClosed, Together
<1>1. Has(Sound, vscreen_execute_js) /\ Has(Sound, vscreen_storage_set)
  BY SoundCommands, SoundClosed, Together DEF vscreen_execute_js, vscreen_storage_set
<1>2. Has(Quiet, do_screenshot_annotated)
  <2> DEFINE A == Step("on", "overlay", FALSE)
             C == Step("off", "overlay", FALSE)
  <2>1. Single(A, "on", "overlay") /\ Single(C, "off", "overlay") /\ "overlay" \in Things
    <3>1. "on" \in Ops /\ "off" \in Ops /\ "overlay" \in Things \cup {""} /\ "overlay" \in Things
      BY DEF Ops, Things
    <3> QED BY <3>1, Commands, Zenon
  <2> HIDE DEF A, C
  <2>2. Single(Try(C), "off", "overlay")
    BY <2>1, SingleTry
  <2>3. Has(Quiet, A ** Ask ** Try(C))
    BY <2>1, <2>2, OnAndOff, QuietCommands
  <2> QED BY <2>3 DEF do_screenshot_annotated, A, C
<1>3. Has(Quiet, ScreenshotSequence)
  BY QuietCommands, QuietClosed, Together DEF ScreenshotSequence
<1>4. Has(Quiet, vscreen_screenshot)
  BY <1>2, <1>3, FullPageQuiet, QuietCommands, QuietClosed, Together
  DEF vscreen_screenshot, do_screenshot_sequence
<1>5. Has(Quiet, vscreen_scroll_to_element)
  BY QuietCommands DEF vscreen_scroll_to_element
<1>6. Has(Quiet, vscreen_find)
  BY QuietCommands, QuietClosed, Together
  DEF vscreen_find, do_find_elements, do_find_by_text, do_find_input
<1>7. /\ Has(Quiet, vscreen_extract_text) /\ Has(Quiet, vscreen_get_page_info)
      /\ Has(Quiet, vscreen_storage_get)
  BY QuietCommands DEF vscreen_extract_text, vscreen_get_page_info, vscreen_storage_get
<1>8. /\ Has(Quiet, vscreen_accessibility_tree) /\ Has(Quiet, vscreen_describe_elements)
      /\ Has(Quiet, vscreen_list_frames)
  BY QuietCommands, QuietClosed, Together
  DEF vscreen_accessibility_tree, vscreen_describe_elements, vscreen_list_frames
<1>9. Has(Quiet, vscreen_observe) /\ Has(Quiet, vscreen_extract)
  BY <1>0, FullPageQuiet, QuietCommands, QuietClosed, Together
  DEF vscreen_observe, vscreen_extract, finish_extract
<1>10. Has(Quiet, vscreen_wait)
  <2>1. /\ Has(Quiet, wait_helper_idle) /\ Has(Quiet, wait_helper_text)
        /\ Has(Quiet, wait_helper_selector) /\ Has(Quiet, wait_helper_url)
    BY QuietCommands, QuietClosed, Together
    DEF wait_helper_idle, wait_helper_text, wait_helper_selector, wait_helper_url
  <2>2. Has(Quiet, wait_helper_network)
    BY QuietCommands, QuietClosed, Together DEF wait_helper_network
  <2> QED BY <2>1, <2>2, QuietClosed, Together DEF vscreen_wait
<1> QED BY <1>1, <1>4, <1>5, <1>6, <1>7, <1>8, <1>9, <1>10

\* What is left of a script that began: an aim is taken anew after the page has
\* moved, what is switched on is switched off, and a retry is the last step.
Rest ==
    {a \in AllScripts :
        /\ AimsAnew(a, "aimed", "moved") /\ SwitchesOff(a, {})
        /\ \A i \in DOMAIN a : a[i].op = "again" => i = Len(a)}

\* Those of them that may follow a sound script.
Final == {a \in Rest : AimsAnew(a, "moved", "moved")}

\* Sound scripts are final ones, and what starts aimed may be all of a call.
LEMMA SoundIsFinal ==
    ASSUME NEW A
    PROVE  /\ Has(Sound, A) => Has(Final, A)
           /\ Leads(A, "aimed", {}, "moved") => Has(Rest, A)
           /\ Has(Final, A) => Has(Rest, A)
<1>1. Sound \subseteq Plays("aimed", {}, "moved")
  BY PlaysMore DEF Sound
<1>2. Plays("aimed", {}, "moved") \subseteq Rest
  BY DEF Plays, Rest, NoRetry
<1>3. Sound \subseteq Final
  BY <1>1, <1>2 DEF Final, Sound, Plays
<1> QED BY <1>2, <1>3 DEF Has, Leads, Final

\* A retry ends its script.
LEMMA AgainIsFinal == Has(Final, Again)
<1> SUFFICES ASSUME NEW a \in Again PROVE a \in Final
  BY DEF Has
<1>0. Single(Again, "again", "")
  BY Commands, Zenon
<1>1. a \in AllScripts /\ DOMAIN a = {1} /\ a[1].op = "again" /\ a[1].thing = ""
  BY <1>0 DEF Single
<1>2. Len(a) = 1
  <2>1. a \in Seq(StepType)
    BY <1>1 DEF AllScripts
  <2>2. Len(a) \in Nat /\ DOMAIN a = 1 .. Len(a)
    BY <2>1
  <2> DEFINE n == Len(a)
  <2>3. n \in Nat /\ 1 .. n = {1}
    BY <1>1, <2>2
  <2> HIDE DEF n
  <2>4. n # 0
    BY <2>3
  <2>5. n \in 1 .. n
    BY <2>3, <2>4
  <2> QED BY <2>3, <2>5 DEF n
<1>3. ~UsesAim(a[1]) /\ ~Moves(a[1])
  BY <1>1 DEF UsesAim, Pointer, Moves
<1>4. AimsAnew(a, "aimed", "moved") /\ AimsAnew(a, "moved", "moved")
  BY <1>1, <1>3 DEF AimsAnew
<1>5. SwitchesOff(a, {})
  BY <1>1 DEF SwitchesOff
<1> QED BY <1>1, <1>2, <1>4, <1>5 DEF Final, Rest

\* A final script after a sound one.
LEMMA Finally ==
    ASSUME NEW A, NEW B, Has(Sound, A), Has(Final, B)
    PROVE  Has(Final, A ** B)
<1> SUFFICES ASSUME NEW c \in A ** B PROVE c \in Final
  BY DEF Has
<1>1. PICK a \in A, b \in B : c = a \o b
  BY DEF **
<1>2. a \in Sound /\ b \in Final
  BY DEF Has
<1>3. /\ a \in AllScripts /\ b \in AllScripts
      /\ AimsAnew(a, "moved", "moved") /\ AimsAnew(b, "moved", "moved")
      /\ SwitchesOff(a, {}) /\ SwitchesOff(b, {}) /\ NoRetry(a)
      /\ \A i \in DOMAIN b : b[i].op = "again" => i = Len(b)
  BY <1>2 DEF Sound, Plays, Final, Rest
<1>4. AimsAnew(c, "moved", "moved") /\ AimsAnew(c, "aimed", "moved")
  <2>1. AimsAnew(c, "moved", "moved")
    BY <1>1, <1>3, AimsFollow
  <2> QED BY <2>1 DEF AimsAnew
<1>5. SwitchesOff(c, {})
  <2> DEFINE H == {}
  <2>1. H \cup H = H /\ SwitchesOff(a, H) /\ SwitchesOff(b, H)
    BY <1>3
  <2> HIDE DEF H
  <2>2. SwitchesOff(a \o b, H \cup H)
    BY <1>3, <2>1, SwitchesFollow
  <2> QED BY <1>1, <2>1, <2>2 DEF H
<1>6. ASSUME NEW i \in DOMAIN c, c[i].op = "again" PROVE i = Len(c)
  <2> DEFINE p == Len(a)
             q == Len(b)
  <2>1. /\ p \in Nat /\ q \in Nat
        /\ DOMAIN a = 1 .. p /\ DOMAIN b = 1 .. q /\ DOMAIN c = 1 .. (p + q)
        /\ \A j \in 1 .. p : c[j] = a[j]
        /\ \A j \in 1 .. (p + q) : j \notin 1 .. p => j - p \in 1 .. q /\ c[j] = b[j - p]
    BY <1>1, <1>3, Positions
  <2>2. Len(c) = p + q
    BY <1>1, <1>3 DEF AllScripts
  <2> HIDE DEF p, q
  <2>3. i \notin 1 .. p
    BY <1>3, <1>6, <2>1 DEF NoRetry
  <2>4. i - p = q
    BY <1>3, <1>6, <2>1, <2>3 DEF q
  <2> QED BY <2>1, <2>2, <2>4
<1>7. c \in AllScripts
  BY <1>1, <1>3, Positions
<1> QED BY <1>4, <1>5, <1>6, <1>7 DEF Final, Rest

\* vscreen_solve_captcha and each further attempt of its loop.
LEMMA CaptchaFinal == Has(Final, vscreen_solve_captcha) /\ Has(Final, NextAttempt)
<1>1. /\ Has(Sound, CaptchaCheckbox) /\ Has(Sound, CaptchaSkip)
      /\ Has(Sound, CaptchaDynamic) /\ Has(Sound, CaptchaStatic)
  BY SoundCommands, SoundClosed, Together
  DEF CaptchaCheckbox, CaptchaSkip, CaptchaDynamic, CaptchaStatic
<1>2. Has(Sound, CaptchaRound)
  BY <1>1, SoundCommands, SoundClosed, Together DEF CaptchaRound
<1>3. Has(Sound, Ask ** Maybe(CaptchaCheckbox ** UpTo(MaxLoops, CaptchaRound)))
  BY <1>1, <1>2, SoundCommands, SoundClosed, Together
<1>4. Has(Final, CaptchaAttempt)
  BY <1>3, AgainIsFinal, Finally DEF CaptchaAttempt
<1> QED BY <1>4, SoundCommands, Finally DEF vscreen_solve_captcha, NextAttempt

\* The handlers of handlers.rs.
LEMMA RequestsFinal ==
    /\ Has(Rest, input_dispatch) /\ Has(Sound, input_click) /\ Has(Sound, input_type)
    /\ Has(Sound, input_key) /\ Has(Sound, input_scroll) /\ Has(Sound, input_drag)
    /\ Has(Sound, input_hover) /\ Has(Sound, navigate_instance) /\ Has(Sound, go_back)
    /\ Has(Sound, go_forward) /\ Has(Sound, reload) /\ Has(Sound, screenshot)
    /\ Has(Sound, screenshot_sequence) /\ Has(Sound, page_info) /\ Has(Sound, exec_js)
    /\ Has(Sound, find_elements) /\ Has(Sound, extract_text)
<1>1. Leads(AtPoint, "moved", {}, "aimed")
  BY Aiming DEF AtPoint, Leads
<1>2. Has(Sound, input_click)
  <2>1. Leads(Maybe(Press ** Release), "aimed", {}, "aimed")
    <3> DEFINE P == Plays("aimed", {}, "aimed")
    <3>1. Closed(P) /\ Has(P, Press ** Release)
      BY PlaysClosed, Clicks DEF Leads, Has
    <3> HIDE DEF P
    <3>2. Has(P, Maybe(Press ** Release))
      BY <3>1, Together
    <3> QED BY <3>2 DEF P, Leads, Has
  <2>2. Leads(AtPoint ** MouseClick, "moved", {}, "aimed")
    BY <1>1, Clicks, LeadsOn
  <2>3. Leads(AtPoint ** MouseClick ** Maybe(Press ** Release), "moved", {}, "aimed")
    BY <2>1, <2>2, LeadsOn
  <2> QED BY <2>3, LeadsSound DEF input_click
<1>3. Has(Sound, input_drag)
  BY Aiming, Drags DEF input_drag
<1>4. Has(Sound, input_scroll) /\ Has(Sound, input_hover)
  BY <1>1, Aiming, LeadsOn, LeadsSound DEF input_scroll, input_hover
<1>5. Has(Sound, input_type) /\ Has(Sound, input_key)
  BY SoundCommands, Keys DEF input_type, input_key
<1>6. /\ Has(Sound, navigate_instance) /\ Has(Sound, go_back) /\ Has(Sound, go_forward)
      /\ Has(Sound, reload) /\ Has(Sound, page_info) /\ Has(Sound, exec_js)
      /\ Has(Sound, find_elements) /\ Has(Sound, extract_text)
  BY SoundCommands DEF navigate_instance, go_back, go_forward, reload, page_info, exec_js,
      find_elements, extract_text
<1>7. Has(Sound, screenshot) /\ Has(Sound, screenshot_sequence)
  BY SoundCommands, SoundClosed, Together DEF screenshot, screenshot_sequence, ScreenshotSequence
<1>8. Has(Rest, Glance ** (Point \cup Release \cup Wheel))
  <2> DEFINE A == Point \cup Release \cup Wheel
  <2>1. Leads(A, "aimed", {}, "moved")
    <3>1. /\ Leads(Point, "aimed", {}, "moved") /\ Leads(Release, "aimed", {}, "moved")
          /\ Leads(Wheel, "aimed", {}, "moved")
      BY Aiming, LeadsSound
    <3> QED BY <3>1 DEF Leads
  <2> HIDE DEF A
  <2>2. Has(Sound, Glance ** A)
    BY <2>1, Aiming, LeadsOn, LeadsSound
  <2> QED BY <2>2, SoundIsFinal DEF A
<1>9. ASSUME NEW thing \in {"button", "key1"} PROVE Has(Rest, Step("hold", thing, TRUE))
  <2> DEFINE A == Step("hold", thing, TRUE)
  <2>1. Single(A, "hold", thing)
    <3>1. "hold" \in Ops /\ thing \in Things \cup {""}
      BY DEF Ops, Things
    <3> QED BY <3>1, Commands, Zenon
  <2> HIDE DEF A
  <2>2. Leads(A, "aimed", {}, "moved")
    BY <2>1, SinglePlays DEF Leads
  <2> QED BY <2>2, SoundIsFinal DEF A
<1>10. Has(Rest, KeyUp("key1"))
  <2>1. "key1" \in Things /\ "key1" # "button"
    BY DEF Things
  <2>2. Single(KeyUp("key1"), "off", "key1")
    BY <2>1, Commands, Zenon
  <2>3. Has(Quiet, KeyUp("key1"))
    BY <2>1, <2>2, SingleQuiet
  <2> QED BY <2>3, QuietIs, SoundIsFinal
<1>11. Has(Rest, input_dispatch)
  <2> DEFINE A == Glance ** (Point \cup Release \cup Wheel)
             hold(thing) == Step("hold", thing, TRUE)
             B == UNION {hold(thing) : thing \in {"button", "key1"}}
             C == KeyUp("key1")
  <2>1. input_dispatch = A \cup B \cup C
    BY DEF input_dispatch
  <2>2. \A thing \in {"button", "key1"} : Has(Rest, hold(thing))
    BY <1>9, Zenon
  <2>3. Has(Rest, A) /\ Has(Rest, C)
    BY <1>8, <1>10
  <2> HIDE DEF hold, A, C
  <2>4. Has(Rest, B)
    BY <2>2 DEF Has
  <2> HIDE DEF B
  <2> QED BY <2>1, <2>3, <2>4 DEF Has
<1> QED BY <1>2, <1>3, <1>4, <1>5, <1>6, <1>7, <1>11

\* Whatever a caller is let in for.
LEMMA MenuFinal ==
    ASSUME NEW lock, NEW drops
    PROVE  /\ Has(Rest, Menu(lock, drops))
           /\ lock = "observer" => Has(Quiet, Menu(lock, drops))
<1>1. Has(Rest, ExclusiveTools)
  <2> SUFFICES ASSUME NEW A \in {vscreen_click, vscreen_type, vscreen_key_press,
                      vscreen_key_combo, vscreen_scroll, vscreen_drag, vscreen_hover,
                      vscreen_fill, vscreen_select_option, vscreen_dismiss_dialogs,
                      vscreen_dismiss_ads, vscreen_execute_js, vscreen_storage_set,
                      vscreen_navigate, vscreen_browse, vscreen_interact, vscreen_synthesize,
                      vscreen_solve_challenge, vscreen_synthesis_manage,
                      vscreen_synthesis_scrape, vscreen_synthesis_scrape_and_create}
               PROVE  Has(Rest, A)
    BY DEF ExclusiveTools, Has
  <2>1. Has(Sound, A)
    BY InteractionSound, Pointing, ObservationSound, NavigationSound
  <2> QED BY <2>1, SoundIsFinal
<1>2. Has(Quiet, ObserverTools)
  <2> SUFFICES ASSUME NEW A \in {vscreen_scroll_to_element, vscreen_screenshot, vscreen_find,
                      vscreen_extract_text, vscreen_accessibility_tree,
                      vscreen_describe_elements, vscreen_get_page_info, vscreen_list_frames,
                      vscreen_storage_get, vscreen_observe, vscreen_extract, vscreen_wait}
               PROVE  Has(Quiet, A)
    BY DEF ObserverTools, Has
  <2> QED BY ObservationSound
<1>3. Has(Rest, Requests)
  <2> SUFFICES ASSUME NEW A \in {input_dispatch, input_click, input_type, input_key,
                      input_scroll, input_drag, input_hover, navigate_instance, go_back,
                      go_forward, reload, screenshot, screenshot_sequence, page_info, exec_js,
                      find_elements, extract_text}
               PROVE  Has(Rest, A)
    BY DEF Requests, Has
  <2> QED BY RequestsFinal, SoundIsFinal
<1>4. Has(Rest, vscreen_solve_captcha)
  BY CaptchaFinal, SoundIsFinal
<1>5. Has(Rest, ObserverTools)
  BY <1>2, QuietIs, SoundIsFinal
<1>6. Has(Rest, {}) /\ Has(Quiet, {})
  BY DEF Has
<1>7. /\ Menu(lock, drops) \in {ExclusiveTools, vscreen_solve_captcha, ObserverTools, Requests, {}}
      /\ lock = "observer" => Menu(lock, drops) \in {ObserverTools, {}}
  <2>1. CASE lock = "exclusive"
    BY <2>1 DEF Menu
  <2>2. CASE lock = "observer"
    BY <2>2 DEF Menu
  <2>3. CASE lock \notin {"exclusive", "observer"}
    BY <2>3 DEF Menu
  <2> QED BY <2>1, <2>2, <2>3
<1> DEFINE menu == Menu(lock, drops)
<1> HIDE DEF menu
<1> QED BY <1>1, <1>2, <1>3, <1>4, <1>5, <1>6, <1>7

-----------------------------------------------------------------------------
(* The state of the calls                                                  *)

AimType ==
    [goal : Int, at : Int, frame : {"none", "page", "viewport", "picture"}, sound : BOOLEAN]

CallType ==
    [session : Sessions \cup {Nobody}, lock : {"exclusive", "observer", "none"},
     drops : BOOLEAN, rest : Rest, aim : AimType]

Typed ==
    /\ call \in [Tasks -> CallType]
    /\ \A t \in Tasks : call[t].rest = <<>> => call[t] = NoCall
    /\ client \in Tasks \cup {Nobody}
    /\ client # Nobody => call[client] # NoCall
    /\ view \in 0 .. MaxView
    /\ on \subseteq Things

\* Observers neither aim nor have an aim, and nobody else has a lock while one
\* session has the exclusive one.
LeasesKeepApart ==
    /\ \A t \in Tasks : call[t].lock = "observer" =>
          ~call[t].aim.sound /\ call[t].rest \in Blind /\ NoRetry(call[t].rest)
    /\ \A t, u \in Tasks :
          call[t].lock = "exclusive" /\ call[u].session # call[t].session => call[u].lock = "none"

\* Whether an aim is used next or later, it is at the point it is for.
AimRight(aim, v) == aim.sound /\ aim.frame = "page" => v + aim.at = aim.goal

AimsRight == \A t \in Tasks : AimRight(call[t].aim, view)

ToolsInv == Typed /\ LeasesKeepApart /\ AimsRight /\ NothingLeftOn

-----------------------------------------------------------------------------
(* One step less                                                           *)

\* The first step of a script and the others.
LEMMA TailOf ==
    ASSUME NEW a \in AllScripts, a # <<>>
    PROVE  /\ Tail(a) \in AllScripts /\ Head(a) \in StepType /\ Head(a) = a[1]
           /\ Len(a) \in Nat \ {0} /\ Len(Tail(a)) = Len(a) - 1
           /\ DOMAIN a = 1 .. Len(a) /\ DOMAIN Tail(a) = 1 .. (Len(a) - 1)
           /\ \A i \in 1 .. (Len(a) - 1) : Tail(a)[i] = a[i + 1]
  BY DEF AllScripts

\* What the first step of a script asks of the others.
LEMMA FirstStep ==
    ASSUME NEW a \in Rest, a # <<>>
    PROVE  /\ Tail(a) \in Rest
           /\ Moves(Head(a)) => ~AimUsed(Tail(a))
           /\ Head(a).op = "again" => Tail(a) = <<>>
           /\ Head(a).op = "on" =>
                 /\ Head(a).thing \in Things
                 /\ \E i \in DOMAIN Tail(a) : TurnsOff(Tail(a)[i], Head(a).thing)
           /\ a \in Blind => Tail(a) \in Blind /\ ~Aims(Head(a))
           /\ NoRetry(a) => NoRetry(Tail(a)) /\ Head(a).op # "again"
<1> DEFINE b == Tail(a)
           n == Len(a)
           s == Head(a)
<1>1. /\ b \in AllScripts /\ s = a[1] /\ n \in Nat \ {0} /\ Len(b) = n - 1
      /\ DOMAIN a = 1 .. n /\ DOMAIN b = 1 .. (n - 1)
      /\ \A i \in 1 .. (n - 1) : b[i] = a[i + 1]
  BY TailOf DEF Rest
<1>2. b = <<>> <=> n = 1
  <2>1. b \in Seq(StepType) /\ Len(b) = n - 1
    BY <1>1 DEF AllScripts
  <2>2. b = <<>> <=> Len(b) = 0
    BY <2>1
  <2> QED BY <1>1, <2>1, <2>2
<1>3. /\ AimsAnew(a, "aimed", "moved") /\ SwitchesOff(a, {})
      /\ \A i \in 1 .. n : a[i].op = "again" => i = n
  BY <1>1 DEF Rest
<1> HIDE DEF b, n, s
<1>4. \A i \in 1 .. (n - 1) : i + 1 \in 1 .. n /\ b[i] = a[i + 1]
  BY <1>1
<1>5. \A k \in 1 .. n : k # 1 => k - 1 \in 1 .. (n - 1) /\ b[k - 1] = a[k]
  BY <1>1
<1>6. AimsAnew(b, "aimed", "moved")
  <2> SUFFICES ASSUME NEW i \in 1 .. (n - 1), NEW j \in 1 .. (n - 1), i < j,
                      Moves(b[i]), UsesAim(b[j])
               PROVE  \E k \in 1 .. (n - 1) : i < k /\ k < j /\ Aims(b[k])
    BY <1>1 DEF AimsAnew
  <2>1. i + 1 \in 1 .. n /\ j + 1 \in 1 .. n /\ i + 1 < j + 1
        /\ Moves(a[i + 1]) /\ UsesAim(a[j + 1])
    BY <1>1, <1>4
  <2>2. PICK k \in 1 .. n : i + 1 < k /\ k < j + 1 /\ Aims(a[k])
    BY <1>1, <1>3, <2>1 DEF AimsAnew
  <2>3. k # 1 /\ i < k - 1 /\ k - 1 < j
    BY <1>1, <2>2
  <2> QED BY <1>5, <2>2, <2>3
<1>7. ASSUME NEW i \in 1 .. n, a[i].op = "on"
      PROVE  /\ a[i].thing \in Things
             /\ \E j \in 1 .. (n - 1) : i - 1 < j /\ TurnsOff(b[j], a[i].thing)
  <2>1. a[i].thing \in Things /\ \E j \in 1 .. n : i < j /\ TurnsOff(a[j], a[i].thing)
    BY <1>1, <1>3, <1>7 DEF SwitchesOff
  <2>2. PICK j \in 1 .. n : i < j /\ TurnsOff(a[j], a[i].thing)
    BY <2>1
  <2>3. j # 1 /\ i - 1 < j - 1
    BY <1>1, <2>2
  <2> QED BY <1>5, <2>1, <2>2, <2>3
<1>8. SwitchesOff(b, {})
  <2> SUFFICES ASSUME NEW i \in 1 .. (n - 1), b[i].op = "on"
               PROVE  /\ b[i].thing \in Things
                      /\ \E j \in 1 .. (n - 1) : i < j /\ TurnsOff(b[j], b[i].thing)
    BY <1>1 DEF SwitchesOff
  <2>1. i + 1 \in 1 .. n /\ a[i + 1].op = "on" /\ b[i] = a[i + 1] /\ (i + 1) - 1 = i
    BY <1>1, <1>4
  <2> QED BY <1>7, <2>1
<1>9. \A i \in 1 .. (n - 1) : b[i].op = "again" => i = n - 1
  BY <1>1, <1>3, <1>4
<1>10. b \in Rest
  BY <1>1, <1>6, <1>8, <1>9 DEF Rest
<1>11. ASSUME Moves(s) PROVE ~AimUsed(b)
  <2> SUFFICES ASSUME NEW i \in 1 .. (n - 1), UsesAim(b[i]),
                      \A j \in 1 .. i - 1 : ~Aims(b[j])
               PROVE  FALSE
    BY <1>1 DEF AimUsed, UsesAim
  <2>1. 1 \in 1 .. n /\ i + 1 \in 1 .. n /\ 1 < i + 1 /\ Moves(a[1]) /\ UsesAim(a[i + 1])
    BY <1>1, <1>4, <1>11
  <2>2. PICK k \in 1 .. n : 1 < k /\ k < i + 1 /\ Aims(a[k])
    BY <1>1, <1>3, <2>1 DEF AimsAnew
  <2>3. k # 1 /\ k - 1 \in 1 .. i - 1
    BY <1>1, <2>2
  <2> QED BY <1>5, <2>2, <2>3
<1>12. s.op = "again" => b = <<>>
  BY <1>1, <1>2, <1>3
<1>13. s.op = "on" =>
          s.thing \in Things /\ \E i \in 1 .. (n - 1) : TurnsOff(b[i], s.thing)
  <2>1. 1 \in 1 .. n /\ a[1] = s
    BY <1>1
  <2> QED BY <1>7, <2>1
<1>14. a \in Blind => b \in Blind /\ ~Aims(s)
  <2>1. 1 \in 1 .. n /\ a[1] = s
    BY <1>1
  <2> QED BY <1>1, <1>4, <2>1 DEF Blind
<1>15. NoRetry(a) => NoRetry(b) /\ s.op # "again"
  <2>1. 1 \in 1 .. n /\ a[1] = s
    BY <1>1
  <2> QED BY <1>1, <1>4, <2>1 DEF NoRetry
<1>16. DOMAIN b = 1 .. (n - 1)
  BY <1>1
<1> QED BY <1>10, <1>11, <1>12, <1>13, <1>14, <1>15, <1>16 DEF b, s

\* What a call owes, its first step or a later one turns off.
LEMMA OwesLater ==
    ASSUME NEW a \in AllScripts, a # <<>>, NEW thing, NEW i \in DOMAIN a, TurnsOff(a[i], thing)
    PROVE  TurnsOff(Head(a), thing) \/ \E j \in DOMAIN Tail(a) : TurnsOff(Tail(a)[j], thing)
<1> DEFINE n == Len(a)
           b == Tail(a)
<1>1. /\ Head(a) = a[1] /\ n \in Nat \ {0} /\ DOMAIN a = 1 .. n /\ DOMAIN b = 1 .. (n - 1)
      /\ \A j \in 1 .. (n - 1) : b[j] = a[j + 1]
  BY TailOf
<1> HIDE DEF n, b
<1>2. CASE i = 1
  BY <1>1, <1>2
<1>3. CASE i # 1
  <2>1. i - 1 \in 1 .. (n - 1) /\ b[i - 1] = a[i]
    BY <1>1, <1>3
  <2> QED BY <1>1, <2>1 DEF b
<1> QED BY <1>2, <1>3

-----------------------------------------------------------------------------
(* The steps of the callers                                                *)

\* A call may have no steps left.
LEMMA EmptyRest == <<>> \in Rest /\ DOMAIN <<>> = {}
<1>1. <<>> \in AllScripts /\ DOMAIN <<>> = {}
  BY DEF AllScripts
<1> QED BY <1>1 DEF Rest, AimsAnew, SwitchesOff

\* No aim is an aim that is not sound.
LEMMA NoAimTyped == NoAim \in AimType /\ ~NoAim.sound
<1> DEFINE no == FALSE
           aim == [goal |-> 0, at |-> 0, frame |-> "none", sound |-> no]
<1>1. NoAim = aim /\ no \in BOOLEAN
  BY DEF NoAim
<1> HIDE DEF no
<1>2. aim \in AimType /\ aim.sound = no
  BY <1>1 DEF AimType
<1> HIDE DEF aim
<1> QED BY <1>1, <1>2 DEF no

\* A call that has begun, or none.
LEMMA NewCall ==
    ASSUME NEW session \in Sessions \cup {Nobody}, NEW lock \in {"exclusive", "observer", "none"},
           NEW drops \in BOOLEAN, NEW rest \in Rest, NEW aim \in AimType,
           NEW new, new = [session |-> session, lock |-> lock, drops |-> drops,
                           rest |-> rest, aim |-> aim]
    PROVE  /\ new \in CallType
           /\ new.session = session /\ new.lock = lock /\ new.rest = rest /\ new.aim = aim
<1>1. new \in CallType
  BY DEF CallType
<1> QED BY <1>1

\* No call is a call without a lock, steps or an aim.
LEMMA NoCallTyped ==
    /\ NoCall \in CallType
    /\ NoCall.session = Nobody /\ NoCall.lock = "none" /\ NoCall.rest = <<>>
    /\ NoCall.aim = NoAim
<1> DEFINE no == FALSE
           empty == <<>>
           aim == NoAim
<1>1. no \in BOOLEAN /\ aim \in AimType /\ empty \in Rest
  BY NoAimTyped, EmptyRest
<1>2. NoCall = [session |-> Nobody, lock |-> "none", drops |-> no, rest |-> empty, aim |-> aim]
  BY DEF NoCall
<1> HIDE DEF no, empty, aim
<1>3. /\ NoCall \in CallType
      /\ NoCall.session = Nobody /\ NoCall.lock = "none" /\ NoCall.rest = empty
      /\ NoCall.aim = aim
  BY <1>1, <1>2, NewCall
<1> QED BY <1>3 DEF empty, aim

\* A call with its own aim is itself.
LEMMA SameAim ==
    ASSUME NEW A, NEW B, NEW C, NEW D, NEW E, NEW aim,
           NEW d \in [session : A, lock : B, drops : C, rest : D, aim : E], aim = d.aim
    PROVE  [d EXCEPT !.aim = aim] = d
  OBVIOUS

\* A call with another aim.
LEMMA OtherAim ==
    ASSUME NEW d \in CallType, NEW aim \in AimType, NEW new, new = [d EXCEPT !.aim = aim]
    PROVE  /\ new \in CallType
           /\ new.session = d.session /\ new.lock = d.lock /\ new.rest = d.rest /\ new.aim = aim
           /\ aim = d.aim => new = d
<1>1. /\ new \in CallType
      /\ new.session = d.session /\ new.lock = d.lock /\ new.rest = d.rest /\ new.aim = aim
  BY DEF CallType
<1>2. ASSUME aim = d.aim PROVE new = d
  <2> DEFINE A == Sessions \cup {Nobody}
             B == {"exclusive", "observer", "none"}
             C == BOOLEAN
  <2>1. d \in [session : A, lock : B, drops : C, rest : Rest, aim : AimType]
    BY DEF CallType
  <2> HIDE DEF A, B, C
  <2>2. [d EXCEPT !.aim = aim] = d
    BY <1>2, <2>1, SameAim
  <2> QED BY <2>2
<1> QED BY <1>1, <1>2

\* What becomes of a call while another one takes a step.
LEMMA MovedCall ==
    ASSUME NEW c, NEW d \in CallType, NEW new, new = Moved(c, d)
    PROVE  /\ new \in CallType
           /\ new.session = d.session /\ new.lock = d.lock /\ new.rest = d.rest
           /\ new.aim.goal = d.aim.goal /\ new.aim.at = d.aim.at /\ new.aim.frame = d.aim.frame
           /\ new.aim.sound => d.aim.sound /\ (view' = view \/ ~Excused(c, d))
           /\ d = NoCall => new = NoCall
<1> DEFINE kept == view' = view \/ ~Excused(c, d)
           old == d.aim
           aim == [old EXCEPT !.sound = old.sound /\ kept]
<1>1. new = [d EXCEPT !.aim = aim]
  BY DEF Moved
<1>2. old \in AimType
  BY DEF CallType
<1>3. d = NoCall => ~old.sound
  BY NoCallTyped, NoAimTyped
<1> HIDE DEF old, kept
<1>4. /\ aim \in AimType /\ aim.goal = old.goal /\ aim.at = old.at /\ aim.frame = old.frame
      /\ aim.sound => old.sound /\ kept
  BY <1>2 DEF AimType
<1>5. ~old.sound => aim = old
  BY <1>2 DEF AimType
<1> HIDE DEF aim
<1>6. /\ new \in CallType
      /\ new.session = d.session /\ new.lock = d.lock /\ new.rest = d.rest /\ new.aim = aim
      /\ aim = d.aim => new = d
  BY <1>1, <1>4, OtherAim
<1> QED BY <1>3, <1>4, <1>5, <1>6 DEF kept, old

\* scroll_into_view_and_translate does not scroll beyond the page.
LEMMA TranslatedTyped ==
    ASSUME NEW p \in Int, view \in 0 .. MaxView
    PROVE  Translated(p) \in 0 .. MaxView
  BY ToolsAssumption DEF Translated

\* A command leaves its caller's aim right, unless it moves the page; and makes
\* an aim sound by taking it anew.
LEMMA CommandResults ==
    ASSUME NEW s \in StepType, NEW aim \in AimType, view \in 0 .. MaxView,
           AimRight(aim, view), NEW r \in Results(s, aim)
    PROVE  /\ r.view \in 0 .. MaxView /\ r.aim \in AimType
           /\ Moves(s) \/ AimRight(r.aim, r.view)
           /\ r.aim.sound => aim.sound \/ Aims(s)
<1> DEFINE yes == TRUE
<1>0. /\ aim.goal \in Int /\ aim.at \in Int /\ view \in Int /\ MaxView \in Nat
      /\ aim.frame \in {"none", "page", "viewport", "picture"}
      /\ Targets \subseteq Int /\ Inner \in Int
  <2>1. aim.goal \in Int /\ aim.at \in Int /\ aim.frame \in {"none", "page", "viewport", "picture"}
    BY DEF AimType
  <2> QED BY <2>1, ToolsAssumption
<1>1. CASE s.op = "aim"
  <2> DEFINE made(p) == [goal |-> p, at |-> p - Translated(p), frame |-> "page", sound |-> yes]
  <2>1. PICK p \in Targets : r = [view |-> Translated(p), aim |-> made(p)]
    BY <1>1 DEF Results
  <2>2. p \in Int /\ Translated(p) \in 0 .. MaxView
    BY <1>0, TranslatedTyped
  <2>3. p - Translated(p) \in Int /\ Translated(p) + (p - Translated(p)) = p /\ yes \in BOOLEAN
    BY <1>0, <2>2
  <2> DEFINE at == p - Translated(p)
             new == [goal |-> p, at |-> at, frame |-> "page", sound |-> yes]
  <2>4. r = [view |-> Translated(p), aim |-> new]
    BY <2>1
  <2> HIDE DEF yes, at
  <2>5. new \in AimType /\ new.goal = p /\ new.at = at
    BY <2>2, <2>3 DEF at, AimType
  <2> HIDE DEF new
  <2>6. r.view = Translated(p) /\ r.aim = new
    BY <2>4
  <2>7. AimRight(r.aim, r.view)
    BY <2>3, <2>5, <2>6 DEF at, AimRight
  <2>8. Aims(s)
    BY <1>1 DEF Aims
  <2> QED BY <2>2, <2>5, <2>6, <2>7, <2>8
<1>2. CASE s.op = "glance"
  <2> DEFINE new == [goal |-> view + Inner, at |-> Inner, frame |-> "viewport", sound |-> yes]
  <2>1. r = [view |-> view, aim |-> new]
    BY <1>2 DEF Results
  <2>2. view + Inner \in Int /\ yes \in BOOLEAN
    BY <1>0
  <2> HIDE DEF yes
  <2>3. new \in AimType /\ new.frame = "viewport"
    BY <1>0, <2>2 DEF AimType
  <2> HIDE DEF new
  <2>4. r.view = view /\ r.aim = new
    BY <2>1
  <2>5. Aims(s)
    BY <1>2 DEF Aims
  <2> QED BY <2>3, <2>4, <2>5 DEF AimRight
<1>3. CASE s.op = "aimGlance"
  <2> DEFINE v == Translated(aim.at)
             at == aim.at - v
             new == [aim EXCEPT !.at = at, !.frame = "picture"]
  <2>1. r = [view |-> v, aim |-> new]
    BY <1>3 DEF Results
  <2>2. v \in 0 .. MaxView
    BY <1>0, TranslatedTyped
  <2>3. at \in Int
    BY <1>0, <2>2
  <2> HIDE DEF v, at
  <2>4. new \in AimType /\ new.frame = "picture" /\ new.sound = aim.sound
    BY <2>3 DEF AimType
  <2> HIDE DEF new
  <2>5. r.view = v /\ r.aim = new
    BY <2>1
  <2> QED BY <2>2, <2>4, <2>5 DEF AimRight
<1>4. CASE s.op = "carry"
  <2> DEFINE at(p) == p - (aim.goal - aim.at)
             new(p) == [aim EXCEPT !.goal = p, !.at = at(p)]
  <2>1. PICK p \in Targets : r = [view |-> view, aim |-> new(p)]
    BY <1>4 DEF Results
  <2>2. p \in Int /\ at(p) \in Int
    BY <1>0
  <2>3. view + aim.at = aim.goal => view + at(p) = p
    BY <1>0, <2>2
  <2> DEFINE there == at(p)
             now == [aim EXCEPT !.goal = p, !.at = there]
  <2>4. r = [view |-> view, aim |-> now]
    BY <2>1
  <2> HIDE DEF there, at
  <2>5. /\ now \in AimType /\ now.goal = p /\ now.at = there
        /\ now.frame = aim.frame /\ now.sound = aim.sound
    BY <2>2 DEF there, AimType
  <2> HIDE DEF now
  <2>6. r.view = view /\ r.aim = now
    BY <2>4
  <2>7. view + aim.at = aim.goal => view + there = p
    BY <2>3 DEF there
  <2> QED BY <2>5, <2>6, <2>7 DEF AimRight
<1>5. CASE s.op \in {"script", "wheel"}
  <2>1. PICK v \in {0, view, MaxView} : r = [view |-> v, aim |-> aim]
    BY <1>5 DEF Results
  <2>2. v \in 0 .. MaxView
    BY <1>0
  <2>3. Moves(s)
    BY <1>5 DEF Moves
  <2> QED BY <2>1, <2>2, <2>3
<1>6. CASE s.op = "top"
  <2>1. r = [view |-> 0, aim |-> aim]
    BY <1>6 DEF Results
  <2>2. 0 \in 0 .. MaxView
    BY <1>0
  <2>3. Moves(s)
    BY <1>6 DEF Moves
  <2> QED BY <2>1, <2>2, <2>3
<1>7. CASE s.op \notin {"aim", "glance", "aimGlance", "carry", "script", "wheel", "top"}
  <2>1. r = [view |-> view, aim |-> aim]
    BY <1>7 DEF Results
  <2> QED BY <2>1
<1> QED BY <1>1, <1>2, <1>3, <1>4, <1>5, <1>6, <1>7

\* What t's call leaves switched on: what it does not owe when it is cut short,
\* what its step does not switch off otherwise.
Leaves(c, s, rest, thing) ==
    \/ thing \in on /\ ~Owes(c, thing)
    \/ s.op # "again" /\ rest = Tail(c.rest) /\ s.op = "on" /\ thing = s.thing
    \/ (s.op = "again" \/ rest = Tail(c.rest)) /\ thing \in on /\ ~TurnsOff(s, thing)

\* A step of a call: what it makes of the page, and what is left of the call.
PlayedAs(t, c, s, r, rest) ==
    /\ r \in Results(s, c.aim) \/ r = [view |-> view, aim |-> c.aim]
    /\ \/ rest = <<>>
       \/ s.op = "again" /\ rest \in NextAttempt
       \/ s.op # "again" /\ rest = Tail(c.rest)
    /\ view' = r.view
    /\ call' = [u \in Tasks |-> IF u = t THEN Advanced(c, rest, r.aim) ELSE Moved(c, call[u])]
    /\ client' = Nobody \/ (client' = t /\ rest # <<>>)
    /\ \A thing \in on' : Leaves(c, s, rest, thing)

\* What the code of a step says, in the terms of PlayedAs.
LEMMA Playing ==
    ASSUME NEW t \in Tasks, Play(t)
    PROVE  /\ call[t] # NoCall
           /\ \E r, rest : PlayedAs(t, call[t], Head(call[t].rest), r, rest)
<1> DEFINE c == call[t]
           s == Head(c.rest)
<1>1. PICK executed \in BOOLEAN, ok \in BOOLEAN :
         LET cut == ~ok /\ s.must
         IN  /\ Outcome(s, executed, ok)
             /\ \E r \in (IF executed THEN Results(s, c.aim)
                                     ELSE {[view |-> view, aim |-> c.aim]}),
                   rest \in (CASE cut -> Skip
                               [] s.op = "again" -> Skip \cup NextAttempt
                               [] OTHER -> {Tail(c.rest)}) :
                   /\ view' = r.view
                   /\ call' = [u \in Tasks |-> IF u = t THEN Advanced(c, rest, r.aim)
                                                       ELSE Moved(c, call[u])]
                   /\ client' = IF s.keeps /\ rest # <<>> THEN t ELSE Nobody
             /\ on' = IF cut THEN on \ Owed(c)
                      ELSE IF s.op = "on" /\ executed THEN on \cup {s.thing}
                      ELSE IF s.op \in {"off", "hold"} THEN on \ {s.thing}
                      ELSE on
  BY DEF Play
<1>2. c # NoCall
  BY DEF Play
<1> DEFINE cut == ~ok /\ s.must
<1>3. PICK r \in (IF executed THEN Results(s, c.aim) ELSE {[view |-> view, aim |-> c.aim]}),
           rest \in (CASE cut -> Skip
                       [] s.op = "again" -> Skip \cup NextAttempt
                       [] OTHER -> {Tail(c.rest)}) :
         /\ view' = r.view
         /\ call' = [u \in Tasks |-> IF u = t THEN Advanced(c, rest, r.aim)
                                             ELSE Moved(c, call[u])]
         /\ client' = IF s.keeps /\ rest # <<>> THEN t ELSE Nobody
  BY <1>1
<1>4. on' = IF cut THEN on \ Owed(c)
            ELSE IF s.op = "on" /\ executed THEN on \cup {s.thing}
            ELSE IF s.op \in {"off", "hold"} THEN on \ {s.thing}
            ELSE on
  BY <1>1
<1>5. r \in Results(s, c.aim) \/ r = [view |-> view, aim |-> c.aim]
  <2> DEFINE still == [view |-> view, aim |-> c.aim]
             made == Results(s, c.aim)
  <2>1. r \in (IF executed THEN made ELSE {still})
    OBVIOUS
  <2> HIDE DEF still, made
  <2>2. r \in made \/ r = still
    BY <2>1
  <2> QED BY <2>2 DEF still, made
<1>6. s.op = "again" => ~(s.op = "on") /\ ~(s.op \in {"off", "hold"}) /\ ~cut
  BY <1>1 DEF Outcome
<1> HIDE DEF c, s, cut
<1>7. CASE cut
  <2>1. on' = on \ Owed(c)
    BY <1>4, <1>7
  <2>3. rest \in Skip
    BY <1>6, <1>7
  <2>4. rest = <<>>
    BY <2>3 DEF Skip
  <2>2. \A thing \in on' : Leaves(c, s, rest, thing)
    BY <2>1 DEF Owed, Leaves
  <2> QED BY <1>2, <1>3, <1>5, <2>2, <2>4 DEF PlayedAs, c, s
<1>8. CASE ~cut
  <2>1. \/ s.op = "again" /\ (rest = <<>> \/ rest \in NextAttempt)
        \/ s.op # "again" /\ rest = Tail(c.rest)
    BY <1>8 DEF Skip
  <2>2. on' = IF s.op = "on" /\ executed THEN on \cup {s.thing}
              ELSE IF s.op \in {"off", "hold"} THEN on \ {s.thing}
              ELSE on
    BY <1>4, <1>8
  <2>3. \A thing \in on' : Leaves(c, s, rest, thing)
    BY <1>6, <2>1, <2>2 DEF Leaves, TurnsOff
  <2> QED BY <1>2, <1>3, <1>5, <2>1, <2>3 DEF PlayedAs, c, s
<1> QED BY <1>7, <1>8

\* A call of its own type: its session, lock and steps.
LEMMA CallFields ==
    ASSUME NEW d \in CallType
    PROVE  /\ d.session \in Sessions \cup {Nobody} /\ d.lock \in {"exclusive", "observer", "none"}
           /\ d.rest \in Rest /\ d.aim \in AimType
  BY DEF CallType

\* What is left of a call after its step, and of its aim.
Progress(c, s, r, rest, new) ==
    /\ c.rest \in Rest /\ c.rest # <<>> /\ rest \in Rest /\ r.view \in 0 .. MaxView
    /\ new \in CallType
    /\ rest = <<>> => new = NoCall
    /\ rest # <<>> => new.session = c.session /\ new.lock = c.lock /\ new # NoCall
    /\ new.rest = rest
    /\ new.aim.sound => rest # <<>> /\ (c.aim.sound \/ Aims(s))
    /\ AimRight(new.aim, r.view)

\* A step makes this progress, and leaves the aim right.
LEMMA Advancing ==
    ASSUME Typed, NEW t \in Tasks, NEW c, NEW s, c = call[t], s = Head(c.rest), c # NoCall,
           AimRight(c.aim, view), NEW r, NEW rest, PlayedAs(t, c, s, r, rest)
    PROVE  Progress(c, s, r, rest, Advanced(c, rest, r.aim))
<1> SUFFICES ASSUME NEW new, new = Advanced(c, rest, r.aim)
             PROVE  Progress(c, s, r, rest, new)
  OBVIOUS
<1>0. new = Advanced(c, rest, r.aim)
  OBVIOUS
<1>1. c \in CallType /\ c.rest \in Rest /\ c.rest # <<>> /\ view \in 0 .. MaxView
  <2>1. c \in CallType /\ view \in 0 .. MaxView /\ (c.rest = <<>> => c = NoCall)
    BY DEF Typed
  <2> QED BY <2>1, CallFields
<1>2. c.aim \in AimType /\ s \in StepType
  <2>1. c.rest \in AllScripts
    BY <1>1 DEF Rest
  <2> QED BY <1>1, <2>1, CallFields, TailOf
<1>3. /\ r.view \in 0 .. MaxView /\ r.aim \in AimType
      /\ Moves(s) \/ AimRight(r.aim, r.view)
      /\ r.aim.sound => c.aim.sound \/ Aims(s)
  <2>1. CASE r \in Results(s, c.aim)
    BY <1>1, <1>2, <2>1, CommandResults
  <2>2. CASE r = [view |-> view, aim |-> c.aim]
    BY <1>1, <1>2, <2>2
  <2> QED BY <2>1, <2>2 DEF PlayedAs
<1>4. rest \in Rest /\ (Moves(s) => ~AimUsed(rest))
  <2>1. CASE rest = <<>>
    BY <2>1, EmptyRest DEF AimUsed
  <2>2. CASE s.op = "again" /\ rest \in NextAttempt
    <3>1. rest \in Rest
      BY <2>2, CaptchaFinal, SoundIsFinal DEF Has
    <3>2. ~Moves(s)
      BY <2>2 DEF Moves
    <3> QED BY <3>1, <3>2
  <2>3. CASE rest = Tail(c.rest)
    BY <1>1, <2>3, FirstStep
  <2> QED BY <2>1, <2>2, <2>3 DEF PlayedAs
<1>5. CASE rest = <<>>
  <2>1. new = NoCall
    BY <1>0, <1>5 DEF Advanced
  <2> QED BY <1>0, <1>1, <1>3, <1>4, <1>5, <2>1, NoCallTyped, NoAimTyped DEF AimRight, Progress
<1>6. CASE rest # <<>>
  <2>1. PICK aim \in AimType : aim = IF AimUsed(rest) THEN r.aim ELSE NoAim
    BY <1>3, NoAimTyped
  <2>2. /\ AimRight(aim, r.view)
        /\ aim.sound => c.aim.sound \/ Aims(s)
    BY <1>3, <1>4, <2>1, NoAimTyped DEF AimRight
  <2>3. new = [c EXCEPT !.rest = rest, !.aim = aim]
    BY <1>0, <1>6, <2>1 DEF Advanced
  <2>4. /\ new \in CallType
        /\ new.session = c.session /\ new.lock = c.lock /\ new.rest = rest /\ new.aim = aim
    BY <1>1, <1>4, <2>3 DEF CallType
  <2>5. new # NoCall
    BY <1>6, <2>4, NoCallTyped
  <2> QED BY <1>0, <1>1, <1>3, <1>4, <1>6, <2>2, <2>4, <2>5 DEF Progress
<1> QED BY <1>5, <1>6

\* Nobody's aim outlives a step of another session's call that moves the page.
LEMMA NobodyMoves ==
    ASSUME Typed, LeasesKeepApart, NEW t \in Tasks, NEW u \in Tasks,
           call[u].aim.sound, ~Excused(call[t], call[u])
    PROVE  FALSE
<1>1. /\ call[t].lock # "none" /\ call[u].lock # "none"
      /\ call[t].session # call[u].session
  BY DEF Excused
<1>2. call[u].lock \in {"exclusive", "observer", "none"} /\ call[u].lock # "observer"
  <2>1. call[u] \in CallType
    BY DEF Typed
  <2> QED BY <2>1, CallFields DEF LeasesKeepApart
<1> QED BY <1>1, <1>2 DEF LeasesKeepApart

\* A step of t, for the state of all calls.
LEMMA PlayKeeps ==
    ASSUME ToolsInv, NEW t \in Tasks, Play(t)
    PROVE  ToolsInv'
<1>1. PICK c, s, r, rest :
         /\ c = call[t] /\ s = Head(c.rest) /\ c # NoCall
         /\ PlayedAs(t, c, s, r, rest)
  BY Playing
<1>2. PICK new : new = Advanced(c, rest, r.aim)
  OBVIOUS
<1>3. /\ c.rest \in Rest /\ c.rest # <<>> /\ rest \in Rest /\ r.view \in 0 .. MaxView
      /\ new \in CallType
      /\ rest = <<>> => new = NoCall
      /\ rest # <<>> => new.session = c.session /\ new.lock = c.lock /\ new # NoCall
      /\ new.rest = rest
      /\ new.aim.sound => rest # <<>> /\ (c.aim.sound \/ Aims(s))
      /\ AimRight(new.aim, r.view)
  <2>1. Typed /\ AimRight(c.aim, view)
    BY <1>1 DEF ToolsInv, AimsRight
  <2>2. Progress(c, s, r, rest, Advanced(c, rest, r.aim))
    BY <1>1, <2>1, Advancing
  <2>3. Progress(c, s, r, rest, new)
    BY <1>2, <2>2
  <2> QED BY <2>3 DEF Progress
<1>4. view' = r.view /\ call' = [u \in Tasks |-> IF u = t THEN new ELSE Moved(c, call[u])]
  BY <1>1, <1>2 DEF PlayedAs
<1>5. call'[t] = new
  BY <1>4
<1>6. ASSUME NEW u \in Tasks, u # t
      PROVE  /\ call[u] \in CallType /\ call'[u] \in CallType
             /\ call'[u].session = call[u].session /\ call'[u].lock = call[u].lock
             /\ call'[u].rest = call[u].rest
             /\ call'[u].aim.goal = call[u].aim.goal /\ call'[u].aim.at = call[u].aim.at
             /\ call'[u].aim.frame = call[u].aim.frame
             /\ call'[u].aim.sound => call[u].aim.sound /\ (view' = view \/ ~Excused(c, call[u]))
             /\ call[u] = NoCall => call'[u] = NoCall
  <2>1. call'[u] = Moved(c, call[u]) /\ call[u] \in CallType
    BY <1>4, <1>6 DEF ToolsInv, Typed
  <2> QED BY <2>1, MovedCall
<1>7. Typed'
  <2>1. call' \in [Tasks -> CallType]
    <3>1. \A u \in Tasks : call'[u] \in CallType
      BY <1>3, <1>5, <1>6
    <3> QED BY <1>4, <3>1
  <2>2. ASSUME NEW u \in Tasks, call'[u].rest = <<>> PROVE call'[u] = NoCall
    <3>1. CASE u = t
      BY <1>3, <1>5, <2>2, <3>1
    <3>2. CASE u # t
      BY <1>6, <2>2, <3>2 DEF ToolsInv, Typed
    <3> QED BY <3>1, <3>2
  <2>3. client' \in Tasks \cup {Nobody} /\ (client' # Nobody => call'[client'] # NoCall)
    BY <1>1, <1>3, <1>5, ToolsAssumption DEF PlayedAs
  <2>4. on' \subseteq Things
    <3> SUFFICES ASSUME NEW thing \in on' PROVE thing \in Things
      OBVIOUS
    <3>1. Leaves(c, s, rest, thing)
      BY <1>1 DEF PlayedAs
    <3>2. s.op = "on" => s.thing \in Things
      BY <1>1, <1>3, FirstStep
    <3> QED BY <3>1, <3>2 DEF ToolsInv, Typed, Leaves
  <2> QED BY <1>3, <1>4, <2>1, <2>2, <2>3, <2>4 DEF Typed
<1>8. LeasesKeepApart'
  <2>1. ASSUME NEW u \in Tasks, call'[u].lock = "observer"
        PROVE  ~call'[u].aim.sound /\ call'[u].rest \in Blind /\ NoRetry(call'[u].rest)
    <3>1. CASE u = t
      <4>1. new.lock = "observer" /\ rest # <<>> /\ c.lock = "observer"
        BY <1>3, <1>5, <2>1, <3>1, NoCallTyped
      <4>2. ~c.aim.sound /\ c.rest \in Blind /\ NoRetry(c.rest)
        BY <1>1, <4>1 DEF ToolsInv, LeasesKeepApart
      <4>3. /\ Tail(c.rest) \in Blind /\ ~Aims(s)
            /\ NoRetry(Tail(c.rest)) /\ s.op # "again"
        BY <1>1, <1>3, <4>2, FirstStep
      <4>4. rest = Tail(c.rest)
        BY <1>1, <4>1, <4>3 DEF PlayedAs
      <4> QED BY <1>3, <1>5, <3>1, <4>2, <4>3, <4>4
    <3>2. CASE u # t
      BY <1>6, <2>1, <3>2 DEF ToolsInv, LeasesKeepApart
    <3> QED BY <3>1, <3>2
  <2>2. ASSUME NEW u \in Tasks, call'[u].lock # "none"
        PROVE  call'[u].lock = call[u].lock /\ call'[u].session = call[u].session
    <3>1. CASE u = t
      BY <1>1, <1>3, <1>5, <2>2, <3>1, NoCallTyped
    <3>2. CASE u # t
      BY <1>6, <3>2
    <3> QED BY <3>1, <3>2
  <2>3. ASSUME NEW u \in Tasks, NEW w \in Tasks,
               call'[u].lock = "exclusive", call'[w].session # call'[u].session
        PROVE  call'[w].lock = "none"
    BY <2>2, <2>3 DEF ToolsInv, LeasesKeepApart
  <2> QED BY <2>1, <2>3 DEF LeasesKeepApart
<1>9. AimsRight'
  <2> SUFFICES ASSUME NEW u \in Tasks PROVE AimRight(call'[u].aim, view')
    BY DEF AimsRight
  <2>1. CASE u = t
    BY <1>3, <1>4, <1>5, <2>1
  <2>2. CASE u # t
    <3> SUFFICES ASSUME call'[u].aim.sound, call'[u].aim.frame = "page"
                 PROVE  view' + call'[u].aim.at = call'[u].aim.goal
      BY DEF AimRight
    <3>1. call[u].aim.sound /\ view' = view
      BY <1>1, <1>6, <2>2, NobodyMoves DEF ToolsInv
    <3>2. AimRight(call[u].aim, view)
      BY DEF ToolsInv, AimsRight
    <3> QED BY <1>6, <2>2, <3>1, <3>2 DEF AimRight
  <2> QED BY <2>1, <2>2
<1>10. NothingLeftOn'
  <2> SUFFICES ASSUME NEW thing \in on' PROVE \E u \in Tasks : Owes(call'[u], thing)
    BY DEF NothingLeftOn
  <2>1. Leaves(c, s, rest, thing)
    BY <1>1 DEF PlayedAs
  <2>2. ASSUME NEW u \in Tasks, u # t, Owes(call[u], thing) PROVE Owes(call'[u], thing)
    BY <1>6, <2>2 DEF Owes
  <2>3. thing \in on => \E u \in Tasks : Owes(call[u], thing)
    BY DEF ToolsInv, NothingLeftOn
  <2>4. ASSUME rest = Tail(c.rest), \E j \in DOMAIN Tail(c.rest) : TurnsOff(Tail(c.rest)[j], thing)
        PROVE  Owes(call'[t], thing)
    BY <1>3, <1>5, <2>4 DEF Owes, TurnsOff
  <2>5. CASE thing \in on /\ ~Owes(c, thing)
    BY <1>1, <2>2, <2>3, <2>5
  <2>6. CASE s.op # "again" /\ rest = Tail(c.rest) /\ s.op = "on" /\ thing = s.thing
    <3>1. \E j \in DOMAIN Tail(c.rest) : TurnsOff(Tail(c.rest)[j], thing)
      BY <1>1, <1>3, <2>6, FirstStep
    <3> QED BY <2>4, <2>6, <3>1
  <2>7. CASE (s.op = "again" \/ rest = Tail(c.rest)) /\ thing \in on /\ ~TurnsOff(s, thing)
    <3>1. CASE Owes(c, thing)
      <4>1. c.rest \in AllScripts
        BY <1>3 DEF Rest
      <4>2. \E j \in DOMAIN Tail(c.rest) : TurnsOff(Tail(c.rest)[j], thing)
        <5>1. PICK i \in DOMAIN c.rest : TurnsOff(c.rest[i], thing)
          BY <3>1 DEF Owes, TurnsOff
        <5> QED BY <1>1, <1>3, <2>7, <4>1, <5>1, OwesLater
      <4>3. s.op # "again"
        <5>1. s.op = "again" => Tail(c.rest) = <<>>
          BY <1>1, <1>3, FirstStep
        <5> QED BY <4>2, <5>1, EmptyRest
      <4> QED BY <2>4, <2>7, <4>2, <4>3
    <3>2. CASE ~Owes(c, thing)
      BY <1>1, <2>2, <2>3, <2>7, <3>2
    <3> QED BY <3>1, <3>2
  <2> QED BY <2>1, <2>5, <2>6, <2>7 DEF Leaves
<1> QED BY <1>7, <1>8, <1>9, <1>10 DEF ToolsInv

\* One call begins or is dropped, and the others stay as they are.
LEMMA OneCallChanges ==
    ASSUME ToolsInv, NEW t \in Tasks, NEW new \in CallType, call' = [call EXCEPT ![t] = new],
           ~new.aim.sound, new.rest = <<>> => new = NoCall,
           new.lock = "observer" => new.rest \in Blind /\ NoRetry(new.rest),
           \A u \in Tasks : u # t /\ call[u].session # new.session =>
              /\ new.lock = "exclusive" => call[u].lock = "none"
              /\ call[u].lock = "exclusive" => new.lock = "none",
           client' = Nobody \/ (client' = client /\ client # t),
           view' = view, on' \subseteq on, \A thing \in on' : ~Owes(call[t], thing)
    PROVE  ToolsInv'
<1>1. call \in [Tasks -> CallType]
  BY DEF ToolsInv, Typed
<1>2. /\ call' \in [Tasks -> CallType] /\ call'[t] = new
      /\ \A u \in Tasks : u # t => call'[u] = call[u]
  BY <1>1
<1>3. Typed'
  <2>1. \A u \in Tasks : call'[u].rest = <<>> => call'[u] = NoCall
    BY <1>2 DEF ToolsInv, Typed
  <2>2. client' \in Tasks \cup {Nobody} /\ (client' # Nobody => call'[client'] # NoCall)
    BY <1>2 DEF ToolsInv, Typed
  <2>3. view' \in 0 .. MaxView /\ on' \subseteq Things
    BY DEF ToolsInv, Typed
  <2> QED BY <1>2, <2>1, <2>2, <2>3 DEF Typed
<1>4. LeasesKeepApart'
  <2>1. ASSUME NEW u \in Tasks, call'[u].lock = "observer"
        PROVE  ~call'[u].aim.sound /\ call'[u].rest \in Blind /\ NoRetry(call'[u].rest)
    BY <1>2, <2>1 DEF ToolsInv, LeasesKeepApart
  <2>2. ASSUME NEW u \in Tasks, NEW w \in Tasks,
               call'[u].lock = "exclusive", call'[w].session # call'[u].session
        PROVE  call'[w].lock = "none"
    BY <1>2, <2>2 DEF ToolsInv, LeasesKeepApart
  <2> QED BY <2>1, <2>2 DEF LeasesKeepApart
<1>5. AimsRight'
  <2> SUFFICES ASSUME NEW u \in Tasks PROVE AimRight(call'[u].aim, view')
    BY DEF AimsRight
  <2> QED BY <1>2 DEF ToolsInv, AimsRight, AimRight
<1>6. NothingLeftOn'
  <2> SUFFICES ASSUME NEW thing \in on' PROVE \E u \in Tasks : Owes(call'[u], thing)
    BY DEF NothingLeftOn
  <2>1. PICK u \in Tasks : Owes(call[u], thing)
    BY DEF ToolsInv, NothingLeftOn
  <2>2. call'[u] = call[u]
    BY <1>2, <2>1
  <2> QED BY <2>1, <2>2
<1> QED BY <1>3, <1>4, <1>5, <1>6 DEF ToolsInv

\* No call begins or ends: some lose their locks, or their aims.
LEMMA SameCallsGoOn ==
    ASSUME ToolsInv, call' \in [Tasks -> CallType],
           \A u \in Tasks :
              /\ call'[u].session = call[u].session /\ call'[u].rest = call[u].rest
              /\ call'[u].lock \in {call[u].lock, "none"}
              /\ call[u] = NoCall => call'[u] = NoCall
              /\ call'[u].aim.sound => call'[u].aim = call[u].aim /\ view' = view,
           client' = client, view' \in 0 .. MaxView, on' \subseteq on
    PROVE  ToolsInv'
<1>1. Typed'
  <2>1. \A u \in Tasks : call'[u].rest = <<>> => call'[u] = NoCall
    BY DEF ToolsInv, Typed
  <2>2. client' # Nobody => call'[client'] # NoCall
    BY NoCallTyped DEF ToolsInv, Typed
  <2>3. client' \in Tasks \cup {Nobody} /\ on' \subseteq Things
    BY DEF ToolsInv, Typed
  <2> QED BY <2>1, <2>2, <2>3 DEF Typed
<1>2. LeasesKeepApart'
  <2>1. ASSUME NEW u \in Tasks, call'[u].lock = "observer"
        PROVE  ~call'[u].aim.sound /\ call'[u].rest \in Blind /\ NoRetry(call'[u].rest)
    BY <2>1 DEF ToolsInv, LeasesKeepApart
  <2>2. ASSUME NEW u \in Tasks, NEW w \in Tasks,
               call'[u].lock = "exclusive", call'[w].session # call'[u].session
        PROVE  call'[w].lock = "none"
    BY <2>2 DEF ToolsInv, LeasesKeepApart
  <2> QED BY <2>1, <2>2 DEF LeasesKeepApart
<1>3. AimsRight'
  <2> SUFFICES ASSUME NEW u \in Tasks PROVE AimRight(call'[u].aim, view')
    BY DEF AimsRight
  <2> QED BY DEF ToolsInv, AimsRight, AimRight
<1>4. NothingLeftOn'
  <2> SUFFICES ASSUME NEW thing \in on' PROVE \E u \in Tasks : Owes(call'[u], thing)
    BY DEF NothingLeftOn
  <2>1. PICK u \in Tasks : Owes(call[u], thing)
    BY DEF ToolsInv, NothingLeftOn
  <2> QED BY <2>1 DEF Owes
<1> QED BY <1>1, <1>2, <1>3, <1>4 DEF ToolsInv

\* A call is let in beside those whose locks allow it.
LEMMA BeginKeeps ==
    ASSUME ToolsInv, NEW t \in Tasks, NEW s \in Sessions \cup {Nobody}, NEW drops \in BOOLEAN,
           NEW lock \in {"exclusive", "observer", "none"}, Begin(t, s, lock, drops)
    PROVE  ToolsInv'
<1>1. PICK script \in Menu(lock, drops) \ Skip :
         call' = [call EXCEPT ![t] = [session |-> s, lock |-> lock, drops |-> drops,
                                      rest |-> script, aim |-> NoAim]]
  BY DEF Begin
<1>2. script \in Rest /\ script # <<>>
  BY MenuFinal DEF Has, Skip
<1>3. lock = "observer" => script \in Blind /\ NoRetry(script)
  <2> SUFFICES ASSUME lock = "observer" PROVE script \in Blind /\ NoRetry(script)
    OBVIOUS
  <2>1. script \in Quiet
    BY MenuFinal DEF Has
  <2> QED BY <2>1 DEF Quiet, Sound, Plays
<1> DEFINE aim == NoAim
<1>4. PICK new : new = [session |-> s, lock |-> lock, drops |-> drops,
                        rest |-> script, aim |-> aim]
  OBVIOUS
<1>5. aim \in AimType /\ ~aim.sound
  BY NoAimTyped
<1>6. call' = [call EXCEPT ![t] = new]
  BY <1>1, <1>4
<1> HIDE DEF aim
<1>7. /\ new \in CallType
      /\ new.session = s /\ new.lock = lock /\ new.rest = script /\ new.aim = aim
  <2>1. new \in CallType
    BY <1>2, <1>4, <1>5 DEF CallType
  <2> QED BY <1>4, <2>1
<1>8. call[t] = NoCall /\ client' = client /\ view' = view /\ on' = on
  BY DEF Begin
<1>9. client' = Nobody \/ (client' = client /\ client # t)
  BY <1>8 DEF ToolsInv, Typed
<1>10. ASSUME NEW u \in Tasks, u # t, call[u].session # new.session
       PROVE  /\ new.lock = "exclusive" => call[u].lock = "none"
              /\ call[u].lock = "exclusive" => new.lock = "none"
  <2>1. \A kind : call[u].lock = kind => call[u].session \in Holders(kind)
    BY DEF Holders
  <2>2. call[u].lock \in {"exclusive", "observer", "none"}
    <3>1. call[u] \in CallType
      BY DEF ToolsInv, Typed
    <3> QED BY <3>1, CallFields
  <2>3. Admitted(s, lock)
    BY DEF Begin
  <2>4. lock = "exclusive" => Holders("exclusive") \subseteq {s} /\ Holders("observer") \subseteq {s}
    BY <2>3 DEF Admitted
  <2>5. lock = "observer" => Holders("exclusive") \subseteq {s}
    BY <2>3 DEF Admitted
  <2> QED BY <1>7, <1>10, <2>1, <2>2, <2>4, <2>5
<1>11. \A thing \in on' : ~Owes(call[t], thing)
  BY <1>8, NoCallTyped, EmptyRest DEF Owes
<1>12. /\ ~new.aim.sound /\ (new.rest = <<>> => new = NoCall)
       /\ new.lock = "observer" => new.rest \in Blind /\ NoRetry(new.rest)
  BY <1>2, <1>3, <1>5, <1>7
<1> QED BY <1>6, <1>7, <1>8, <1>9, <1>10, <1>11, <1>12, OneCallChanges

\* A call that is dropped has its debts forgiven (Owed).
LEMMA DropKeeps ==
    ASSUME ToolsInv, NEW t \in Tasks, Drop(t)
    PROVE  ToolsInv'
<1> DEFINE new == NoCall
<1>1. /\ new \in CallType /\ ~new.aim.sound /\ new.rest = <<>> /\ new.lock = "none"
  BY NoCallTyped, NoAimTyped
<1>2. /\ call' = [call EXCEPT ![t] = new]
      /\ on' = on \ Owed(call[t])
      /\ client' = IF client = t THEN Nobody ELSE client
      /\ view' = view
  BY DEF Drop
<1>3. on' \subseteq on /\ \A thing \in on' : ~Owes(call[t], thing)
  BY <1>2 DEF Owed
<1>4. client' = Nobody \/ (client' = client /\ client # t)
  BY <1>2
<1>5. new.rest = <<>> => new = NoCall
  OBVIOUS
<1> HIDE DEF new
<1> QED BY <1>1, <1>2, <1>3, <1>4, <1>5, OneCallChanges

\* A lease that ends leaves its session's calls without a lock.
LEMMA LeaseEndsKeeps ==
    ASSUME ToolsInv, NEW s \in Sessions, LeaseEnds(s)
    PROVE  ToolsInv'
<1>1. /\ call' = [t \in Tasks |-> IF call[t].session = s THEN [call[t] EXCEPT !.lock = "none"]
                                                         ELSE call[t]]
      /\ client' = client /\ view' = view /\ on' = on
  BY DEF LeaseEnds
<1>2. ASSUME NEW u \in Tasks
      PROVE  /\ call'[u] \in CallType
             /\ call'[u].session = call[u].session /\ call'[u].rest = call[u].rest
             /\ call'[u].lock \in {call[u].lock, "none"} /\ call'[u].aim = call[u].aim
             /\ call[u] = NoCall => call'[u] = NoCall
  <2>1. call[u] \in CallType
    BY DEF ToolsInv, Typed
  <2>2. CASE call[u].session = s
    <3>1. call'[u] = [call[u] EXCEPT !.lock = "none"]
      BY <1>1, <2>2
    <3>2. call[u] # NoCall
      BY <2>2, NoCallTyped, ToolsAssumption
    <3>3. PICK d \in CallType : d = call[u]
      BY <2>1
    <3>4. PICK e : e = [d EXCEPT !.lock = "none"]
      OBVIOUS
    <3>5. e \in CallType /\ e.session = d.session /\ e.rest = d.rest /\ e.lock = "none"
          /\ e.aim = d.aim
      BY <3>4 DEF CallType
    <3> QED BY <3>1, <3>2, <3>3, <3>4, <3>5
  <2>3. CASE call[u].session # s
    BY <1>1, <2>1, <2>3
  <2> QED BY <2>2, <2>3
<1>3. call' \in [Tasks -> CallType]
  BY <1>1, <1>2
<1>4. view' \in 0 .. MaxView
  BY <1>1 DEF ToolsInv, Typed
<1> QED BY <1>1, <1>2, <1>3, <1>4, SameCallsGoOn

\* Another document makes every aim unsound.
LEMMA CommitKeeps ==
    ASSUME ToolsInv, Commit
    PROVE  ToolsInv'
<1>1. /\ view' = 0 /\ on' = on \ {"overlay"} /\ client' = client
      /\ call' = [t \in Tasks |-> [call[t] EXCEPT !.aim.sound = FALSE]]
  BY DEF Commit
<1>2. ASSUME NEW u \in Tasks
      PROVE  /\ call'[u] \in CallType
             /\ call'[u].session = call[u].session /\ call'[u].rest = call[u].rest
             /\ call'[u].lock = call[u].lock /\ ~call'[u].aim.sound
             /\ call[u] = NoCall => call'[u] = NoCall
  <2> DEFINE no == FALSE
             old == call[u].aim
             aim == [old EXCEPT !.sound = no]
  <2>1. call[u] \in CallType
    BY DEF ToolsInv, Typed
  <2>2. call'[u] = [call[u] EXCEPT !.aim = aim]
    BY <1>1
  <2>3. old \in AimType /\ no \in BOOLEAN
    BY <2>1, CallFields
  <2>4. call[u] = NoCall => ~old.sound
    BY NoCallTyped, NoAimTyped
  <2> HIDE DEF old
  <2>5. aim \in AimType /\ ~aim.sound /\ (~old.sound => aim = old)
    BY <2>3 DEF AimType
  <2> HIDE DEF aim
  <2>6. PICK new : new = [call[u] EXCEPT !.aim = aim]
    OBVIOUS
  <2>7. /\ new \in CallType
        /\ new.session = call[u].session /\ new.lock = call[u].lock /\ new.rest = call[u].rest
        /\ new.aim = aim /\ (aim = call[u].aim => new = call[u])
    BY <2>1, <2>5, <2>6, OtherAim
  <2> QED BY <2>2, <2>4, <2>5, <2>6, <2>7 DEF old
<1>3. call' \in [Tasks -> CallType]
  BY <1>1, <1>2
<1>4. view' \in 0 .. MaxView
  BY <1>1, ToolsAssumption
<1>5. on' \subseteq on
  BY <1>1
<1> QED BY <1>1, <1>2, <1>3, <1>4, <1>5, SameCallsGoOn

-----------------------------------------------------------------------------
(* The theorems                                                            *)

\* Nothing runs at first.
LEMMA ToolsStart == Init => ToolsInv
<1> SUFFICES ASSUME Init PROVE ToolsInv
  OBVIOUS
<1> DEFINE none == NoCall
<1>1. /\ call = [t \in Tasks |-> none] /\ client = Nobody /\ view = 0 /\ on = {}
  BY DEF Init
<1>2. /\ none \in CallType /\ none.lock = "none" /\ ~none.aim.sound
  BY NoCallTyped, NoAimTyped
<1>3. \A t \in Tasks : call[t] = none
  BY <1>1
<1>4. 0 \in 0 .. MaxView
  BY ToolsAssumption
<1>5. Typed
  <2>1. call \in [Tasks -> CallType]
    <3> HIDE DEF none
    <3> QED BY <1>1, <1>2
  <2> QED BY <1>1, <1>3, <1>4, <2>1 DEF Typed
<1> HIDE DEF none
<1>6. LeasesKeepApart /\ AimsRight
  BY <1>2, <1>3 DEF LeasesKeepApart, AimsRight, AimRight
<1>7. NothingLeftOn
  BY <1>1 DEF NothingLeftOn
<1> QED BY <1>5, <1>6, <1>7 DEF ToolsInv

\* Every step of every caller keeps the invariant.
LEMMA ToolsStep == ToolsInv /\ [Next]_vars => ToolsInv'
<1> SUFFICES ASSUME ToolsInv, [Next]_vars PROVE ToolsInv'
  OBVIOUS
<1>1. ASSUME NEW t \in Tasks, NEW s \in Sessions \cup {Nobody}, NEW drops \in BOOLEAN,
             NEW lock \in {"exclusive", "observer", "none"}, Begin(t, s, lock, drops)
      PROVE  ToolsInv'
  BY <1>1, BeginKeeps
<1>2. ASSUME NEW t \in Tasks, Play(t) PROVE ToolsInv'
  BY <1>2, PlayKeeps
<1>3. ASSUME NEW t \in Tasks, Drop(t) PROVE ToolsInv'
  BY <1>3, DropKeeps
<1>4. ASSUME NEW s \in Sessions, LeaseEnds(s) PROVE ToolsInv'
  BY <1>4, LeaseEndsKeeps
<1>5. CASE Commit
  BY <1>5, CommitKeeps
<1>6. CASE UNCHANGED vars
  BY <1>6 DEF vars, ToolsInv, Typed, LeasesKeepApart, AimsRight, AimRight, NothingLeftOn, Owes
<1> QED BY <1>1, <1>2, <1>3, <1>4, <1>5, <1>6 DEF Next

\* The inductive invariant of Tools.
LEMMA ToolsInvariant == Spec => []ToolsInv
  BY ToolsStart, ToolsStep, PTL DEF Spec

\* A task runs a call exactly while it has steps of it left, the client is
\* locked for a task that runs one, the page stays within its bounds and an aim
\* is a point: for any sessions, tasks, page and viewport, whatever the tools of
\* mcp/ and the handlers of handlers.rs do to one another.
THEOREM ToolsTypeCorrect == Spec => []ToolsTypeOK
<1>1. ToolsInv => ToolsTypeOK
  <2> SUFFICES ASSUME ToolsInv PROVE ToolsTypeOK
    OBVIOUS
  <2>1. ASSUME NEW t \in Tasks
        PROVE  /\ call[t].session \in Sessions \cup {Nobody}
               /\ call[t] = NoCall <=> call[t].rest = <<>>
               /\ call[t].aim.at \in Int
    <3>1. call[t] \in CallType /\ (call[t].rest = <<>> => call[t] = NoCall)
      BY DEF ToolsInv, Typed
    <3>2. call[t].aim \in AimType
      BY <3>1, CallFields
    <3>3. call[t].aim.at \in Int
      BY <3>2 DEF AimType
    <3> QED BY <3>1, <3>3, CallFields, NoCallTyped
  <2> QED BY <2>1 DEF ToolsInv, Typed, ToolsTypeOK
<1> QED BY <1>1, ToolsInvariant, PTL

\* Whatever a tool pressed, created or overrode is switched off by a step that
\* some call in progress has yet to take, on every script of every tool and
\* handler, however often its loops run: unless a command was lost or a call cut
\* short (supervisor.rs, client.rs).
THEOREM NothingStaysOn == Spec => []NothingLeftOn
<1>1. ToolsInv => NothingLeftOn
  BY DEF ToolsInv
<1> QED BY <1>1, ToolsInvariant, PTL

\* The input of a tool that keeps its lock reaches the point of the page that
\* scroll_into_view_and_translate aimed at, whoever scrolls meanwhile: for any
\* number of sessions and tasks, any page, viewport and length of the scripts.
THEOREM AimedInputAlwaysLands == Spec => []AimedInputLands
<1>1. ToolsInv => AimedInputLands
  BY DEF ToolsInv, AimsRight, AimRight, AimedInputLands, Aimed
<1> QED BY <1>1, ToolsInvariant, PTL
=============================================================================
