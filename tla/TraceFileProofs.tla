-------------------------- MODULE TraceFileProofs --------------------------
(***************************************************************************)
(* What read_file may accept, for any buffers, limits and number of        *)
(* flushes: its loop is followed line by line over any file, and no fault  *)
(* or rewriting of the file gets past the digest in the footer.            *)
(***************************************************************************)
EXTENDS TraceFile, NumberProofs, SequenceTheorems

-----------------------------------------------------------------------------
(* The loop as a function.                                                 *)

\* The state of the loop after each line.  There is such a function: were there
\* none up to some line, there would be none up to a first such line, and one
\* more turn extends the function of the line before it.
Turns(L, n, f) ==
  f = [i \in 0 .. n |-> IF i = 0 THEN LoopStart ELSE Advance(f[i - 1], L, i)]

\* The loop over any number of lines has its states.
LEMMA TurnsExist ==
  ASSUME NEW L, NEW length \in Nat
  PROVE  \E f : Turns(L, length, f)
<1> DEFINE UpTo(n, f) == f = [i \in 0 .. n |-> IF i = 0 THEN LoopStart
                                               ELSE Advance(f[i - 1], L, i)]
           Without == {n \in Nat : ~\E f : UpTo(n, f)}
<1>1. Without = {}
  <2> SUFFICES ASSUME Without # {} PROVE FALSE
    OBVIOUS
  <2>1. PICK n \in Without : \A m \in Without : n <= m
    BY LeastNatural
  <2>2. n # 0
    <3> SUFFICES ASSUME n = 0 PROVE FALSE
      OBVIOUS
    <3>1. UpTo(0, [i \in 0 .. 0 |-> LoopStart])
      OBVIOUS
    <3> QED
      BY <3>1, <2>1
  <2>3. n - 1 \in Nat /\ n - 1 \notin Without
    <3>1. n \in Nat
      OBVIOUS
    <3> HIDE DEF Without
    <3> QED
      BY <3>1, <2>1, <2>2
  <2>4. PICK f : UpTo(n - 1, f)
    BY <2>3
  <2> DEFINE g == [i \in 0 .. n |-> IF i = n THEN Advance(f[n - 1], L, n) ELSE f[i]]
  <2>5. \A i \in 0 .. n - 1 : f[i] = IF i = 0 THEN LoopStart ELSE Advance(f[i - 1], L, i)
    BY <2>4
  <2>6. ASSUME NEW i \in 0 .. n
        PROVE  g[i] = IF i = 0 THEN LoopStart ELSE Advance(g[i - 1], L, i)
    <3>1. CASE i = n
      <4>1. g[n - 1] = f[n - 1]
        BY <2>3
      <4> QED
        BY <3>1, <2>2, <4>1
    <3>2. CASE i # n
      <4>1. i \in 0 .. n - 1 /\ (i # 0 => g[i - 1] = f[i - 1])
        BY <3>2, <2>3
      <4> QED
        BY <3>2, <4>1, <2>5
    <3> QED
      BY <3>1, <3>2
  <2>7. UpTo(n, g)
    <3>1. g = [i \in 0 .. n |-> g[i]]
      OBVIOUS
    <3> HIDE DEF g
    <3> QED
      BY <3>1, <2>6
  <2> QED
    BY <2>1, <2>7
<1> QED
  BY <1>1 DEF Turns

After(L) == CHOOSE f : Turns(L, Len(L), f)

\* The states begin with LoopStart, each is the turn after the one before, and
\* the loop ends with the last.
LEMMA LoopTurns ==
  ASSUME NEW L, Len(L) \in Nat
  PROVE  /\ After(L)[0] = LoopStart
         /\ \A i \in 1 .. Len(L) : After(L)[i] = Advance(After(L)[i - 1], L, i)
         /\ Loop(L) = After(L)[Len(L)]
<1> DEFINE f == After(L)
<1>1. Loop(L) = f[Len(L)]
  BY DEF Loop, After, Turns
<1>2. Turns(L, Len(L), f)
  BY TurnsExist DEF After
<1> HIDE DEF f
<1>3. f = [i \in 0 .. Len(L) |-> IF i = 0 THEN LoopStart ELSE Advance(f[i - 1], L, i)]
  BY <1>2 DEF Turns
<1>4. f[0] = LoopStart /\ \A i \in 1 .. Len(L) : f[i] = Advance(f[i - 1], L, i)
  BY <1>3
<1> QED
  BY <1>1, <1>4 DEF f

-----------------------------------------------------------------------------
(* What the loop knows of the lines it has read.                           *)

LoopStates ==
  [ok : BOOLEAN,
   header : [capacity : 0 .. MaxEvents, platform : {"posix", "windows", "none"}],
   events : Seq(Payloads), footer : FooterLines \cup {[type |-> "none"]},
   digest : Seq(Line)]

\* The digest covers the lines read but the footer, of which the first is the
\* header and the others are the events; a footer is the last line of all.
ReadSoFar(L, i, s) ==
  /\ Len(s.digest) = IF SawFooter(s) THEN i - 1 ELSE i
  /\ \A j \in 1 .. Len(s.digest) : s.digest[j] = L[j]
  /\ SawHeader(s) <=> i # 0
  /\ SawHeader(s) =>
       /\ L[1] \in HeaderLines
       /\ s.header = [capacity |-> L[1].capacity, platform |-> L[1].platform]
  /\ Len(s.events) = IF SawHeader(s) THEN Len(s.digest) - 1 ELSE 0
  /\ \A j \in 1 .. Len(s.events) :
       s.events[j] = L[j + 1].payload /\ ValidEvent(s.events[j], s.header.platform)
  /\ SawFooter(s) => SawHeader(s) /\ i = Len(L) /\ s.footer = L[i]

Read(L, i, s) == s \in LoopStates /\ (s.ok => ReadSoFar(L, i, s))

\* The type of a line tells what it is.
LEMMA LineKinds ==
  ASSUME NEW line \in Line
  PROVE  /\ line.type = "header" <=> line \in HeaderLines
         /\ line.type = "event" <=> line \in EventLines
         /\ line.type = "footer" <=> line \in FooterLines
         /\ line.type = "garbage" <=> line = Garbage
         /\ line.type \in {"header", "event", "footer", "garbage"}
BY DEF Line, HeaderLines, EventLines, FooterLines, Garbage

\* The state after an event.
LEMMA EventFields ==
  ASSUME NEW s \in LoopStates, NEW ok, NEW events, NEW digest
  PROVE  [s EXCEPT !.ok = ok, !.events = events, !.digest = digest] =
           [ok |-> ok, header |-> s.header, events |-> events, footer |-> s.footer,
            digest |-> digest]
<1> DEFINE t == [s EXCEPT !.ok = ok, !.events = events, !.digest = digest]
<1>1. t = [f \in {"ok", "header", "events", "footer", "digest"} |-> t[f]]
  BY DEF LoopStates
<1>2. t.ok = ok /\ t.events = events /\ t.digest = digest
  BY DEF LoopStates
<1>3. t.header = s.header /\ t.footer = s.footer
  BY DEF LoopStates
<1> HIDE DEF t
<1>4. t = [ok |-> ok, header |-> s.header, events |-> events, footer |-> s.footer,
           digest |-> digest]
  BY <1>1, <1>2, <1>3
<1> QED
  BY <1>4 DEF t

\* The state after a footer.
LEMMA FooterFields ==
  ASSUME NEW s \in LoopStates, NEW ok, NEW footer
  PROVE  [s EXCEPT !.ok = ok, !.footer = footer] =
           [ok |-> ok, header |-> s.header, events |-> s.events, footer |-> footer,
            digest |-> s.digest]
<1> DEFINE t == [s EXCEPT !.ok = ok, !.footer = footer]
<1>1. t = [f \in {"ok", "header", "events", "footer", "digest"} |-> t[f]]
  BY DEF LoopStates
<1>2. t.ok = ok /\ t.footer = footer
  BY DEF LoopStates
<1>3. t.header = s.header /\ t.events = s.events /\ t.digest = s.digest
  BY DEF LoopStates
<1> HIDE DEF t
<1>4. t = [ok |-> ok, header |-> s.header, events |-> s.events, footer |-> footer,
           digest |-> s.digest]
  BY <1>1, <1>2, <1>3
<1> QED
  BY <1>4 DEF t

\* A state is its fields.
LEMMA StateFields ==
  /\ \A s \in LoopStates :
       /\ s.ok \in BOOLEAN
       /\ s.header \in [capacity : 0 .. MaxEvents, platform : {"posix", "windows", "none"}]
       /\ s.events \in Seq(Payloads) /\ s.digest \in Seq(Line)
       /\ s.footer \in FooterLines \cup {[type |-> "none"]}
  /\ \A ok \in BOOLEAN, events \in Seq(Payloads), digest \in Seq(Line),
        header \in [capacity : 0 .. MaxEvents, platform : {"posix", "windows", "none"}],
        footer \in FooterLines \cup {[type |-> "none"]} :
       [ok |-> ok, header |-> header, events |-> events, footer |-> footer,
        digest |-> digest] \in LoopStates
BY DEF LoopStates

\* A turn of the loop on a header.
LEMMA ReadHeader ==
  ASSUME NEW L \in Seq(Line), NEW i \in 1 .. Len(L), NEW s, Read(L, i - 1, s), s.ok,
         L[i].type = "header"
  PROVE  Read(L, i, TakeHeader(s, L[i]))
<1> DEFINE t == TakeHeader(s, L[i])
<1>1. L[i] \in Line /\ L[i] \in HeaderLines
  BY LineKinds
<1>2. s \in LoopStates /\ ReadSoFar(L, i - 1, s)
  BY DEF Read
<1>3. Append(s.digest, L[i]) \in Seq(Line) /\ Len(Append(s.digest, L[i])) = Len(s.digest) + 1
  BY <1>1, <1>2, AppendProperties DEF LoopStates
<1> DEFINE good == s.digest = <<>> /\ L[i].apis = L[i].platform
           limits == [capacity |-> L[i].capacity, platform |-> L[i].platform]
<1>6. /\ good \in BOOLEAN
      /\ limits \in [capacity : 0 .. MaxEvents, platform : {"posix", "windows", "none"}]
      /\ limits.capacity = L[i].capacity /\ limits.capacity # 0
      /\ good => s.digest = <<>>
  BY <1>1, LimitsAssumption DEF HeaderLines
<1>7. t = [s EXCEPT !.ok = good, !.header = limits, !.digest = Append(s.digest, L[i])]
  BY <1>2 DEF TakeHeader, LoopStates
<1> HIDE DEF t, good, limits
<1>8. t = [ok |-> good, header |-> limits, events |-> s.events, footer |-> s.footer,
           digest |-> Append(s.digest, L[i])]
  <2>1. t = [f \in {"ok", "header", "events", "footer", "digest"} |-> t[f]]
    BY <1>2, <1>7 DEF LoopStates
  <2>2. t.ok = good /\ t.header = limits /\ t.digest = Append(s.digest, L[i])
    BY <1>2, <1>7 DEF LoopStates
  <2>3. t.events = s.events /\ t.footer = s.footer
    BY <1>2, <1>7 DEF LoopStates
  <2> QED
    BY <2>1, <2>2, <2>3
<1>4. t \in LoopStates
  BY <1>2, <1>3, <1>6, <1>8, StateFields
<1>5. ASSUME t.ok
      PROVE  ReadSoFar(L, i, t)
  <2>1. s.digest = <<>> /\ i = 1
    <3>1. s.digest = <<>>
      BY <1>5, <1>6, <1>8
    <3>2. Len(s.digest) = 0
      BY <3>1
    <3> QED
      BY <3>1, <3>2, <1>2 DEF ReadSoFar, SawHeader
  <2>2. ~SawFooter(s) /\ s.events = <<>>
    BY <1>2, <2>1 DEF ReadSoFar, LoopStates, SawHeader
  <2>3. /\ t.header = [capacity |-> L[1].capacity, platform |-> L[1].platform]
        /\ t.digest = <<L[1]>> /\ t.events = <<>> /\ t.footer = s.footer
    BY <1>8, <2>1, <2>2 DEF limits
  <2> QED
    BY <1>1, <2>1, <2>2, <2>3 DEF ReadSoFar, SawHeader, SawFooter, HeaderLines
<1> QED
  BY <1>4, <1>5 DEF Read, t

\* A turn of the loop on an event.
LEMMA ReadEvent ==
  ASSUME NEW L \in Seq(Line), NEW i \in 1 .. Len(L), NEW s, Read(L, i - 1, s), s.ok,
         L[i].type = "event"
  PROVE  Read(L, i, TakeEvent(s, L[i]))
<1> DEFINE t == TakeEvent(s, L[i])
<1>1. L[i] \in Line /\ L[i] \in EventLines
  BY LineKinds
<1>2. s \in LoopStates /\ ReadSoFar(L, i - 1, s)
  BY DEF Read
<1>3. /\ Append(s.digest, L[i]) \in Seq(Line)
      /\ Len(Append(s.digest, L[i])) = Len(s.digest) + 1
      /\ \A j \in 1 .. Len(s.digest) : Append(s.digest, L[i])[j] = s.digest[j]
      /\ Append(s.digest, L[i])[Len(s.digest) + 1] = L[i]
  BY <1>1, <1>2, AppendProperties DEF LoopStates
<1>4. /\ L[i].payload \in Payloads
      /\ Append(s.events, L[i].payload) \in Seq(Payloads)
      /\ Len(Append(s.events, L[i].payload)) = Len(s.events) + 1
      /\ \A j \in 1 .. Len(s.events) : Append(s.events, L[i].payload)[j] = s.events[j]
      /\ Append(s.events, L[i].payload)[Len(s.events) + 1] = L[i].payload
  <2>1. L[i].payload \in Payloads
    BY <1>1 DEF EventLines
  <2> QED
    BY <2>1, <1>2, AppendProperties DEF LoopStates
<1> DEFINE good == /\ SawHeader(s) /\ ~SawFooter(s)
                   /\ Len(s.events) < MaxEvents
                   /\ Len(s.events) < s.header.capacity
                   /\ ValidEvent(L[i].payload, s.header.platform)
                   /\ L[i].sequence = Len(s.events) + 1
<1>6. good => SawHeader(s) /\ ~SawFooter(s) /\ ValidEvent(L[i].payload, s.header.platform)
  OBVIOUS
<1>0. good \in BOOLEAN
  OBVIOUS
<1>9. t = [s EXCEPT !.ok = good, !.events = Append(s.events, L[i].payload),
                    !.digest = Append(s.digest, L[i])]
  BY <1>2 DEF TakeEvent, LoopStates
<1> HIDE DEF t, good
<1>5. t = [ok |-> good, header |-> s.header, events |-> Append(s.events, L[i].payload),
           footer |-> s.footer, digest |-> Append(s.digest, L[i])]
  BY ZenonT(30), <1>2, <1>9, EventFields
<1>7. t \in LoopStates
  BY <1>0, <1>2, <1>3, <1>4, <1>5, StateFields
<1>8. ASSUME t.ok
      PROVE  ReadSoFar(L, i, t)
  <2>1. SawHeader(s) /\ ~SawFooter(s) /\ ValidEvent(L[i].payload, s.header.platform)
    BY <1>5, <1>6, <1>8
  <2>2. SawHeader(t) /\ ~SawFooter(t) /\ t.header = s.header
    BY <2>1, <1>5 DEF SawHeader, SawFooter
  <2>3. /\ t.digest = Append(s.digest, L[i])
        /\ t.events = Append(s.events, L[i].payload)
    BY <1>5
  <2>4. Len(s.digest) = i - 1 /\ Len(s.events) = i - 2
    BY <1>2, <2>1 DEF ReadSoFar
  <2>5. \A j \in 1 .. Len(t.digest) : t.digest[j] = L[j]
    BY <2>3, <2>4, <1>2, <1>3 DEF ReadSoFar
  <2>6. \A j \in 1 .. Len(t.events) :
          t.events[j] = L[j + 1].payload /\ ValidEvent(t.events[j], t.header.platform)
    <3> SUFFICES ASSUME NEW j \in 1 .. Len(t.events)
                 PROVE  t.events[j] = L[j + 1].payload
                        /\ ValidEvent(t.events[j], t.header.platform)
      OBVIOUS
    <3>1. CASE j \in 1 .. Len(s.events)
      BY <3>1, <2>2, <2>3, <1>2, <1>4 DEF ReadSoFar
    <3>2. CASE j = Len(s.events) + 1
      BY <3>2, <2>1, <2>2, <2>3, <2>4, <1>4
    <3> QED
      <4>1. Len(t.events) = i - 1 /\ Len(s.events) = i - 2
        BY <2>3, <2>4, <1>4
      <4>2. j \in 1 .. Len(s.events) \/ j = Len(s.events) + 1
        BY <4>1
      <4> QED
        BY <4>2, <3>1, <3>2
  <2> QED
    <3>1. Len(t.digest) = i /\ Len(t.events) = i - 1
      BY <1>3, <1>4, <2>3, <2>4
    <3>2. L[1] \in HeaderLines
          /\ t.header = [capacity |-> L[1].capacity, platform |-> L[1].platform]
      BY <1>2, <2>1, <2>2 DEF ReadSoFar
    <3> QED
      BY <2>2, <2>5, <2>6, <3>1, <3>2 DEF ReadSoFar
<1> QED
  BY <1>7, <1>8 DEF Read, t

\* A turn of the loop on a footer.
LEMMA ReadFooter ==
  ASSUME NEW L \in Seq(Line), NEW i \in 1 .. Len(L), NEW s, Read(L, i - 1, s), s.ok,
         L[i].type = "footer"
  PROVE  Read(L, i, TakeFooter(s, L[i], i = Len(L)))
<1> DEFINE t == TakeFooter(s, L[i], i = Len(L))
<1>1. L[i] \in Line /\ L[i] \in FooterLines
  BY LineKinds
<1>2. s \in LoopStates /\ ReadSoFar(L, i - 1, s)
  BY DEF Read
<1> DEFINE good == SawHeader(s) /\ ~SawFooter(s) /\ i = Len(L)
<1>6. good \in BOOLEAN /\ (good => SawHeader(s) /\ ~SawFooter(s) /\ i = Len(L))
  OBVIOUS
<1>7. t = [s EXCEPT !.ok = good, !.footer = L[i]]
  BY <1>2 DEF TakeFooter, LoopStates
<1> HIDE DEF t, good
<1>3. t = [ok |-> good, header |-> s.header, events |-> s.events, footer |-> L[i],
           digest |-> s.digest]
  BY <1>2, <1>7, FooterFields
<1>4. t \in LoopStates
  BY <1>1, <1>2, <1>3, <1>6, StateFields
<1>5. ASSUME t.ok
      PROVE  ReadSoFar(L, i, t)
  <2>1. SawHeader(s) /\ ~SawFooter(s) /\ i = Len(L)
    BY <1>3, <1>5, <1>6
  <2>2. SawHeader(t) /\ SawFooter(t)
    BY <2>1, <1>1, <1>3 DEF SawHeader, SawFooter, FooterLines
  <2> QED
    BY <2>1, <2>2, <1>2, <1>3 DEF ReadSoFar
<1> QED
  BY <1>4, <1>5 DEF Read, t

\* A turn of the loop on any line.
LEMMA ReadOn ==
  ASSUME NEW L \in Seq(Line), NEW i \in 1 .. Len(L), NEW s, Read(L, i - 1, s)
  PROVE  Read(L, i, Advance(s, L, i))
<1>1. CASE ~s.ok
  BY <1>1 DEF Advance, Read
<1>2. CASE s.ok /\ L[i].type = "header"
  BY <1>2, ReadHeader DEF Advance
<1>3. CASE s.ok /\ L[i].type = "event"
  BY <1>3, ReadEvent DEF Advance
<1>4. CASE s.ok /\ L[i].type = "footer"
  BY <1>4, ReadFooter DEF Advance
<1>5. CASE s.ok /\ L[i].type = "garbage"
  BY <1>5 DEF Advance, Read, LoopStates
<1>6. L[i].type \in {"header", "event", "footer", "garbage"}
  BY LineKinds
<1> QED
  BY <1>1, <1>2, <1>3, <1>4, <1>5, <1>6

\* After each line the loop knows what it has read.
LEMMA LoopReads ==
  ASSUME NEW L \in Seq(Line)
  PROVE  \A i \in 0 .. Len(L) : Read(L, i, After(L)[i])
<1> DEFINE Wrong == {i \in 0 .. Len(L) : ~Read(L, i, After(L)[i])}
<1>0. Len(L) \in Nat
  OBVIOUS
<1>1. Read(L, 0, LoopStart)
  <2>1. LoopStart \in LoopStates
    BY LimitsAssumption DEF LoopStates, LoopStart
  <2> QED
    BY <2>1 DEF Read, LoopStart, ReadSoFar, SawHeader, SawFooter
<1>2. ASSUME Wrong # {} PROVE FALSE
  <2>1. PICK i \in Wrong : \A j \in Wrong : i <= j
    <3>1. Wrong \subseteq Nat
      BY <1>0
    <3> QED
      BY <3>1, <1>2, LeastNatural
  <2>2. i # 0
    BY <1>0, <1>1, LoopTurns
  <2>3. i \in 1 .. Len(L) /\ i - 1 \notin Wrong /\ i - 1 \in 0 .. Len(L)
    <3>1. i \in 0 .. Len(L)
      OBVIOUS
    <3> HIDE DEF Wrong
    <3> QED
      BY <3>1, <2>1, <2>2
  <2>4. Read(L, i, Advance(After(L)[i - 1], L, i))
    BY <2>3, ReadOn
  <2> QED
    BY <1>0, <2>3, <2>4, LoopTurns
<1> QED
  BY <1>2

-----------------------------------------------------------------------------
(* The lines of a flush, and the lines of an accepted file.                *)

\* The lines that the digest of a flush covers.
LEMMA BodyLines ==
  ASSUME NEW b \in Buffers
  PROVE  /\ Body(b) \in Seq(Line) /\ Len(Body(b)) = Len(b.events) + 1
         /\ Header(b) \in HeaderLines /\ Body(b)[1] = Header(b)
         /\ \A i \in 1 .. Len(b.events) :
              EventLine(b, i) \in EventLines /\ Body(b)[i + 1] = EventLine(b, i)
<1> DEFINE events == [i \in DOMAIN b.events |-> EventLine(b, i)]
<1>1. /\ b.events \in Seq(Payloads) /\ b.capacity \in 1 .. MaxEvents
      /\ DOMAIN b.events = 1 .. Len(b.events) /\ Len(b.events) \in Nat
  BY BuffersAssumption
<1>2. Header(b) \in HeaderLines
  BY <1>1, HostAssumption DEF Header, HeaderLines
<1>3. \A i \in 1 .. Len(b.events) : EventLine(b, i) \in EventLines
  <2> SUFFICES ASSUME NEW i \in 1 .. Len(b.events)
               PROVE  EventLine(b, i) \in EventLines
    OBVIOUS
  <2>1. b.events[i] \in Payloads /\ i \in Nat
    BY <1>1
  <2> QED
    BY <2>1 DEF EventLine, EventLines
<1>4. HeaderLines \subseteq Line /\ EventLines \subseteq Line
  BY DEF Line
<1>5. events = [i \in 1 .. Len(b.events) |-> EventLine(b, i)]
  BY <1>1
<1>6. events \in Seq(Line) /\ Len(events) = Len(b.events)
  BY <1>1, <1>3, <1>4, <1>5
<1>7. <<Header(b)>> \in Seq(Line) /\ Len(<<Header(b)>>) = 1
  BY <1>2, <1>4
<1>8. Body(b) = <<Header(b)>> \o events
  BY DEF Body
<1>9. \A i \in 1 .. Len(b.events) : events[i] = EventLine(b, i)
  BY <1>5
<1> HIDE DEF events
<1>10. /\ Body(b) \in Seq(Line) /\ Len(Body(b)) = 1 + Len(b.events)
       /\ \A i \in 1 .. 1 + Len(b.events) :
            Body(b)[i] = IF i <= 1 THEN <<Header(b)>>[i] ELSE events[i - 1]
  BY <1>6, <1>7, <1>8, ConcatProperties
<1>11. Body(b)[1] = Header(b)
  BY <1>1, <1>10
<1>12. \A i \in 1 .. Len(b.events) : Body(b)[i + 1] = EventLine(b, i)
  BY <1>1, <1>9, <1>10
<1> QED
  BY <1>1, <1>2, <1>3, <1>10, <1>11, <1>12

\* The lines of a flush that has begun: those and the footer.
LEMMA FlushedLines ==
  ASSUME begun \subseteq Buffers, NEW b \in begun
  PROVE  /\ FlushLines(b) \in Seq(Line) /\ Len(FlushLines(b)) = Len(b.events) + 2
         /\ \A i \in 1 .. Len(b.events) + 1 : FlushLines(b)[i] = Body(b)[i]
         /\ FlushLines(b)[Len(b.events) + 2] = Footer(b, Body(b))
         /\ Footer(b, Body(b)) \in FooterLines
<1>1. /\ b \in Buffers /\ b.dropped \in Nat /\ b.reentrant \in Nat
      /\ Len(b.events) \in Nat
  BY BuffersAssumption
<1>2. Body(b) \in Seq(Line) /\ Len(Body(b)) = Len(b.events) + 1
  BY <1>1, BodyLines
<1>3. Footer(b, Body(b)) \in FooterLines
  <2>1. Body(b) \in Digests
    BY DEF Digests
  <2>2. (b.dropped = 0 /\ b.reentrant = 0) \in BOOLEAN
    OBVIOUS
  <2> QED
    BY <1>1, <2>1, <2>2 DEF Footer, FooterLines
<1>4. Footer(b, Body(b)) \in Line
  BY <1>3 DEF Line
<1> QED
  BY <1>1, <1>2, <1>3, <1>4, AppendProperties DEF FlushLines

\* What an accepted file is: the lines that the digest in its footer covers, and
\* that footer, which says that nothing was lost.
LEMMA AcceptedLines ==
  ASSUME NEW L \in Seq(Line), Accepts(Loop(L))
  PROVE  LET footer == L[Len(L)]
         IN /\ Len(L) \in Nat \ {0, 1} /\ footer \in FooterLines
            /\ footer.digest = SubSeq(L, 1, Len(L) - 1) /\ Len(footer.digest) = Len(L) - 1
            /\ L = Append(footer.digest, footer)
            /\ footer.count = Len(L) - 2 /\ footer.complete
            /\ footer.dropped = 0 /\ footer.reentrant = 0
            /\ L[1] \in HeaderLines
            /\ \A j \in 1 .. Len(L) - 2 : ValidEvent(L[j + 1].payload, L[1].platform)
<1> DEFINE n == Len(L)
           s == Loop(L)
<1>1. n \in Nat /\ s = After(L)[n]
  BY LoopTurns
<1>2. Read(L, n, s)
  BY <1>1, LoopReads
<1>3. /\ s.ok /\ SawHeader(s) /\ SawFooter(s)
      /\ s.footer.count = Len(s.events) /\ s.footer.complete
      /\ s.footer.dropped = 0 /\ s.footer.reentrant = 0
      /\ s.footer.digest = s.digest
  BY DEF Accepts
<1> HIDE DEF s
<1>4. s \in LoopStates /\ ReadSoFar(L, n, s)
  BY <1>2, <1>3 DEF Read
<1>5. /\ n # 0 /\ L[n] = s.footer /\ Len(s.digest) = n - 1 /\ Len(s.events) = n - 2
      /\ \A j \in 1 .. n - 1 : s.digest[j] = L[j]
      /\ L[1] \in HeaderLines /\ s.header.platform = L[1].platform
      /\ \A j \in 1 .. n - 2 :
           s.events[j] = L[j + 1].payload /\ ValidEvent(s.events[j], s.header.platform)
  BY <1>1, <1>3, <1>4 DEF ReadSoFar
<1>6. n \in Nat \ {0, 1} /\ s.digest \in Seq(Line) /\ L[n] \in Line
  <2>1. Len(s.events) \in Nat /\ s.digest \in Seq(Line)
    BY <1>4 DEF LoopStates
  <2> QED
    BY <1>1, <1>5, <2>1
<1>7. L[n] \in FooterLines
  BY <1>3, <1>5, <1>6, LineKinds DEF SawFooter
<1>8. s.digest = SubSeq(L, 1, n - 1)
  <2>1. /\ SubSeq(L, 1, n - 1) \in Seq(Line) /\ Len(SubSeq(L, 1, n - 1)) = n - 1
        /\ \A j \in 1 .. n - 1 : SubSeq(L, 1, n - 1)[j] = L[j]
    <3>1. \A j \in 1 .. n - 1 : L[j] \in Line
      BY <1>6
    <3> DEFINE m == n - 1
    <3>2. m \in Nat
      BY <1>6
    <3> HIDE DEF m
    <3>3. /\ SubSeq(L, 1, m) \in Seq(Line) /\ Len(SubSeq(L, 1, m)) = m
          /\ \A j \in 1 .. m : SubSeq(L, 1, m)[j] = L[j]
      <4>1. \A j \in 1 .. m : L[j] \in Line
        BY <3>1 DEF m
      <4>2. /\ SubSeq(L, 1, m) \in Seq(Line)
            /\ Len(SubSeq(L, 1, m)) = IF 1 <= m THEN m - 1 + 1 ELSE 0
            /\ \A j \in 1 .. m - 1 + 1 : SubSeq(L, 1, m)[j] = L[1 + j - 1]
        BY <3>2, <4>1, SubSeqProperties
      <4> QED
        BY <3>2, <4>2
    <3> QED
      BY <3>3 DEF m
  <2> QED
    BY <2>1, <1>5, <1>6, SeqEqual
<1>9. L = Append(s.digest, L[n])
  <2>1. /\ Append(s.digest, L[n]) \in Seq(Line) /\ Len(Append(s.digest, L[n])) = n
        /\ \A j \in 1 .. n - 1 : Append(s.digest, L[n])[j] = s.digest[j]
        /\ Append(s.digest, L[n])[n] = L[n]
    BY <1>5, <1>6, AppendProperties
  <2>2. \A j \in 1 .. n : L[j] = Append(s.digest, L[n])[j]
    BY <1>5, <1>6, <2>1
  <2> QED
    BY <2>1, <2>2, SeqEqual
<1> QED
  BY <1>3, <1>5, <1>6, <1>7, <1>8, <1>9

\* The lines of a flush are accepted exactly if nothing was lost and every event
\* keeps the contract of its operation.
LEMMA FlushedAccepted ==
  ASSUME begun \subseteq Buffers, NEW b \in begun
  PROVE  Accepts(Loop(FlushLines(b))) <=>
           /\ Lossless(b)
           /\ \A i \in DOMAIN b.events : ValidEvent(b.events[i], HostPlatform)
<1> DEFINE L == FlushLines(b)
           n == Len(b.events)
<1>1. /\ b \in Buffers /\ b.events \in Seq(Payloads) /\ n \in Nat /\ n <= b.capacity
      /\ DOMAIN b.events = 1 .. n /\ b.capacity \in 1 .. MaxEvents
  BY BuffersAssumption
<1>2. /\ L \in Seq(Line) /\ Len(L) = n + 2 /\ L[n + 2] = Footer(b, Body(b))
      /\ L[n + 2] \in FooterLines
  BY FlushedLines
<1>3. L[1] = Header(b) /\ L[1] \in HeaderLines
  BY <1>1, FlushedLines, BodyLines
<1>4. \A i \in 1 .. n : L[i + 1] = EventLine(b, i) /\ L[i + 1] \in EventLines
  <2> SUFFICES ASSUME NEW i \in 1 .. n
               PROVE  L[i + 1] = EventLine(b, i) /\ L[i + 1] \in EventLines
    OBVIOUS
  <2>1. i + 1 \in 1 .. n + 1
    BY <1>1
  <2>2. L[i + 1] = Body(b)[i + 1]
    BY <2>1, FlushedLines
  <2> QED
    BY <1>1, <2>2, BodyLines
<1>5. L[n + 2].digest = Body(b) /\ L[n + 2].count = n
      /\ L[n + 2].dropped = b.dropped /\ L[n + 2].reentrant = b.reentrant
      /\ (L[n + 2].complete <=> b.dropped = 0 /\ b.reentrant = 0)
  <2> DEFINE footer == Footer(b, Body(b))
  <2>1. footer.digest = Body(b) /\ footer.count = n
        /\ footer.dropped = b.dropped /\ footer.reentrant = b.reentrant
    BY DEF Footer
  <2>2. footer.complete <=> b.dropped = 0 /\ b.reentrant = 0
    BY DEF Footer
  <2> HIDE DEF L, footer
  <2>3. L[n + 2] = footer
    BY <1>2 DEF footer
  <2> QED
    BY <2>1, <2>2, <2>3
<1> HIDE DEF L
<1>6. ASSUME Accepts(Loop(L))
      PROVE  Lossless(b) /\ \A i \in DOMAIN b.events : ValidEvent(b.events[i], HostPlatform)
  <2>1. /\ L[n + 2].dropped = 0 /\ L[n + 2].reentrant = 0
        /\ \A i \in 1 .. n : ValidEvent(L[i + 1].payload, L[1].platform)
    <3>1. Len(L) - 2 = n
      BY <1>1, <1>2
    <3> QED
      BY <3>1, <1>2, <1>6, AcceptedLines
  <2>2. L[1].platform = HostPlatform
    BY <1>3 DEF Header
  <2>3. \A i \in 1 .. n : L[i + 1].payload = b.events[i]
    <3> SUFFICES ASSUME NEW i \in 1 .. n
                 PROVE  L[i + 1].payload = b.events[i]
      OBVIOUS
    <3>1. L[i + 1] = EventLine(b, i)
      BY <1>4
    <3> QED
      BY <3>1 DEF EventLine
  <2> QED
    BY <1>1, <1>5, <2>1, <2>2, <2>3 DEF Lossless
<1>7. ASSUME Lossless(b), \A i \in DOMAIN b.events : ValidEvent(b.events[i], HostPlatform)
      PROVE  Accepts(Loop(L))
  <2> DEFINE f == After(L)
             Fine(i) == f[i].ok /\ ~SawFooter(f[i])
             Wrong == {i \in 1 .. n + 1 : ~Fine(i)}
  <2>1. /\ f[0] = LoopStart /\ \A i \in 1 .. n + 2 : f[i] = Advance(f[i - 1], L, i)
        /\ \A i \in 0 .. n + 2 : Read(L, i, f[i])
        /\ Loop(L) = f[n + 2]
    <3>1. Len(L) \in Nat /\ Len(L) = n + 2
      BY <1>1, <1>2
    <3>2. \A i \in 0 .. Len(L) : Read(L, i, f[i])
      BY <1>2, LoopReads
    <3>3. /\ f[0] = LoopStart /\ \A i \in 1 .. Len(L) : f[i] = Advance(f[i - 1], L, i)
          /\ Loop(L) = f[Len(L)]
      BY <3>1, LoopTurns
    <3> QED
      BY <3>1, <3>2, <3>3
  <2> HIDE DEF f
  <2>2. Fine(1)
    <3>1. f[1] = TakeHeader(LoopStart, L[1])
      <4>1. f[1] = Advance(f[0], L, 1)
        BY <1>1, <2>1
      <4>2. LoopStart.ok /\ L[1].type = "header"
        BY <1>3 DEF LoopStart, HeaderLines
      <4> QED
        BY <2>1, <4>1, <4>2 DEF Advance
    <3>2. L[1].apis = L[1].platform
      BY <1>3 DEF Header
    <3>3. f[1].ok /\ f[1].footer = LoopStart.footer
      BY <3>1, <3>2 DEF TakeHeader, LoopStart
    <3> QED
      BY <3>3 DEF LoopStart, SawFooter
  <2>3. ASSUME NEW i \in 2 .. n + 1, Fine(i - 1)
        PROVE  Fine(i)
    <3> DEFINE s == f[i - 1]
    <3>1. Read(L, i - 1, s) /\ f[i] = Advance(s, L, i) /\ s.ok /\ ~SawFooter(s)
      BY <1>1, <2>1, <2>3
    <3>2. L[i] = EventLine(b, i - 1) /\ L[i].type = "event" /\ ValidEvent(L[i].payload, HostPlatform)
      <4>1. i - 1 \in 1 .. n /\ (i - 1) + 1 = i
        BY <1>1
      <4>2. L[i] = EventLine(b, i - 1)
        BY <4>1, <1>4
      <4> QED
        BY <4>1, <4>2, <1>1, <1>7 DEF EventLine
    <3>3. f[i] = TakeEvent(s, L[i])
      BY <3>1, <3>2 DEF Advance
    <3> HIDE DEF s
    <3>4. s \in LoopStates /\ ReadSoFar(L, i - 1, s)
      BY <3>1 DEF Read
    <3>5. SawHeader(s) /\ Len(s.events) = i - 2
      BY <3>1, <3>4 DEF ReadSoFar
    <3>6. s.header.capacity = b.capacity /\ s.header.platform = HostPlatform
      BY <3>4, <3>5, <1>3 DEF ReadSoFar, Header
    <3>7. L[i].sequence = i - 1
      BY <3>2 DEF EventLine
    <3>8. Len(s.events) < MaxEvents /\ Len(s.events) < s.header.capacity
          /\ L[i].sequence = Len(s.events) + 1
      BY <3>5, <3>6, <3>7, <1>1, LimitsAssumption
    <3>9. f[i].ok
      BY <3>1, <3>2, <3>3, <3>4, <3>5, <3>6, <3>8 DEF TakeEvent, LoopStates
    <3>10. f[i].footer = s.footer
      BY <3>3, <3>4 DEF TakeEvent, LoopStates
    <3> QED
      BY <3>1, <3>9, <3>10 DEF SawFooter
  <2>4. Fine(n + 1)
    <3>1. ASSUME Wrong # {} PROVE FALSE
      <4>1. Wrong \subseteq Nat
        BY <1>1
      <4>2. PICK i \in Wrong : \A j \in Wrong : i <= j
        BY <3>1, <4>1, LeastNatural
      <4>3. i \in 1 .. n + 1 /\ ~Fine(i)
        OBVIOUS
      <4> HIDE DEF Wrong, Fine
      <4>4. i \in 2 .. n + 1 /\ i - 1 \in 1 .. n + 1 /\ i - 1 \notin Wrong
        BY <4>2, <4>3, <2>2, <1>1
      <4>5. Fine(i - 1)
        BY <4>4 DEF Wrong
      <4> QED
        BY <4>3, <4>4, <4>5, <2>3
    <3>2. n + 1 \in 1 .. n + 1
      BY <1>1
    <3> HIDE DEF Fine
    <3> QED
      BY <3>1, <3>2
  <2> DEFINE s == f[n + 1]
             t == f[n + 2]
  <2>5. Read(L, n + 1, s) /\ s.ok /\ ~SawFooter(s)
    BY <1>1, <2>1, <2>4
  <2>6. t = TakeFooter(s, L[n + 2], TRUE)
    <3>1. t = Advance(s, L, n + 2)
      BY <1>1, <2>1
    <3>2. L[n + 2].type = "footer" /\ n + 2 = Len(L)
      BY <1>2 DEF FooterLines
    <3> QED
      BY <3>1, <3>2, <2>5 DEF Advance
  <2> HIDE DEF s
  <2>7. s \in LoopStates /\ ReadSoFar(L, n + 1, s)
    BY <2>5 DEF Read
  <2>8. SawHeader(s) /\ Len(s.events) = n /\ Len(s.digest) = n + 1
    BY <1>1, <2>5, <2>7 DEF ReadSoFar
  <2>9. s.header.capacity = b.capacity
    BY <2>7, <2>8, <1>3 DEF ReadSoFar, Header
  <2>10. t.ok /\ t.footer = L[n + 2] /\ t.header = s.header /\ t.events = s.events
         /\ t.digest = s.digest
    BY <2>5, <2>6, <2>7, <2>8 DEF TakeFooter, LoopStates
  <2>11. s.digest = Body(b)
    <3>1. \A j \in 1 .. n + 1 : s.digest[j] = Body(b)[j]
      <4>1. \A j \in 1 .. n + 1 : s.digest[j] = L[j]
        BY <2>7, <2>8 DEF ReadSoFar
      <4>2. \A j \in 1 .. n + 1 : L[j] = Body(b)[j]
        BY FlushedLines DEF L
      <4> QED
        BY <4>1, <4>2
    <3>2. s.digest \in Seq(Line) /\ Body(b) \in Seq(Line) /\ Len(Body(b)) = n + 1
      BY <2>7, <1>1, BodyLines DEF LoopStates
    <3> QED
      BY <3>1, <3>2, <2>8, SeqEqual
  <2>12. SawHeader(t) /\ SawFooter(t)
    BY <2>8, <2>10, <1>2 DEF SawHeader, SawFooter, FooterLines
  <2>13. b.dropped = 0 /\ b.reentrant = 0
    BY <1>7 DEF Lossless
  <2> HIDE DEF t
  <2> QED
    BY <2>1, <2>8, <2>9, <2>10, <2>11, <2>12, <2>13, <1>1, <1>5 DEF Accepts, t
<1> QED
  BY <1>6, <1>7 DEF L

-----------------------------------------------------------------------------
(* Types, and the answer of the reader.                                    *)

\* More flushes only add lines.
LEMMA LinesGrow ==
  ASSUME begun \subseteq begun'
  PROVE  Line \subseteq Line' /\ \A s \in Seq(Line) : s \in Seq(Line)'
<1>1. Digests \subseteq Digests'
  BY DEF Digests
<1>2. FooterLines \subseteq FooterLines'
  BY <1>1 DEF FooterLines
<1>3. Line \subseteq Line'
  BY <1>2 DEF Line, HeaderLines, EventLines, Garbage
<1> QED
  BY <1>3, SeqMonotonic

\* The parts of a sequence, and what replaces them.
LEMMA PartsOfSeq ==
  ASSUME NEW S, NEW s \in Seq(S), NEW i \in DOMAIN s
  PROVE  /\ RemoveAt(s, i) \in Seq(S) /\ SubSeq(s, 1, i - 1) \in Seq(S)
         /\ \A e \in S : InsertAt(s, i, e) \in Seq(S) /\ ReplaceAt(s, i, e) \in Seq(S)
         /\ i < Len(s) => [s EXCEPT ![i] = s[i + 1], ![i + 1] = s[i]] \in Seq(S)
<1>1. i \in 1 .. Len(s) /\ Len(s) \in Nat /\ \A j \in 1 .. Len(s) : s[j] \in S
  OBVIOUS
<1>2. /\ SubSeq(s, 1, i - 1) \in Seq(S) /\ SubSeq(s, i + 1, Len(s)) \in Seq(S)
      /\ SubSeq(s, i, Len(s)) \in Seq(S)
  <2>1. /\ \A j \in 1 .. i - 1 : s[j] \in S
        /\ \A j \in i + 1 .. Len(s) : s[j] \in S
        /\ \A j \in i .. Len(s) : s[j] \in S
    BY <1>1
  <2>2. 1 \in Int /\ i - 1 \in Int /\ i \in Int /\ i + 1 \in Int /\ Len(s) \in Int
    BY <1>1
  <2>3. SubSeq(s, 1, i - 1) \in Seq(S)
    BY <2>1, <2>2, SubSeqProperties
  <2>4. SubSeq(s, i + 1, Len(s)) \in Seq(S)
    BY <2>1, <2>2, SubSeqProperties
  <2>5. SubSeq(s, i, Len(s)) \in Seq(S)
    BY <2>1, <2>2, SubSeqProperties
  <2> QED
    BY <2>3, <2>4, <2>5
<1>3. RemoveAt(s, i) \in Seq(S)
  BY <1>2, ConcatProperties DEF RemoveAt
<1>4. ASSUME NEW e \in S
      PROVE  InsertAt(s, i, e) \in Seq(S) /\ ReplaceAt(s, i, e) \in Seq(S)
  <2>1. <<e>> \in Seq(S)
    OBVIOUS
  <2>2. SubSeq(s, 1, i - 1) \o <<e>> \in Seq(S)
    BY <1>2, <2>1, ConcatProperties
  <2>3. InsertAt(s, i, e) \in Seq(S)
    BY <1>2, <2>2, ConcatProperties DEF InsertAt
  <2>4. ReplaceAt(s, i, e) \in Seq(S)
    BY <1>1, ExceptSeq DEF ReplaceAt
  <2> QED
    BY <2>3, <2>4
<1>5. ASSUME i < Len(s)
      PROVE  [s EXCEPT ![i] = s[i + 1], ![i + 1] = s[i]] \in Seq(S)
  <2> DEFINE t == [s EXCEPT ![i] = s[i + 1]]
  <2>1. i + 1 \in 1 .. Len(s) /\ s[i + 1] \in S /\ s[i] \in S
    BY <1>1, <1>5
  <2>2. t \in Seq(S) /\ Len(t) = Len(s)
    BY <1>1, <2>1, ExceptSeq
  <2> HIDE DEF t
  <2>3. [t EXCEPT ![i + 1] = s[i]] \in Seq(S)
    BY <2>1, <2>2, ExceptSeq
  <2> QED
    BY <2>3 DEF t
<1> QED
  BY <1>2, <1>3, <1>4, <1>5

\* An altered line is a line.
LEMMA AlteredLine ==
  ASSUME NEW line \in Line, NEW l \in Altered(line)
  PROVE  l \in Line /\ l.type = line.type
<1>1. CASE line.type = "header"
  <2>1. line \in HeaderLines
    BY <1>1, LineKinds
  <2>2. \/ \E c \in 1 .. MaxEvents : l = [line EXCEPT !.capacity = c]
        \/ l = [line EXCEPT !.platform = "windows"]
        \/ l = [line EXCEPT !.apis = "windows"]
    BY <1>1 DEF Altered
  <2>3. l \in HeaderLines
    BY <2>1, <2>2 DEF HeaderLines
  <2> QED
    BY <1>1, <2>3 DEF HeaderLines, Line
<1>2. CASE line.type = "event"
  <2>1. line \in EventLines
    BY <1>2, LineKinds
  <2>2. \/ l = [line EXCEPT !.sequence = line.sequence + 1]
        \/ \E p \in Payloads : l = [line EXCEPT !.payload = p]
    BY <1>2, <2>1 DEF Altered, EventLines
  <2>3. l \in EventLines
    BY <2>1, <2>2 DEF EventLines
  <2> QED
    BY <1>2, <2>3 DEF EventLines, Line
<1>3. CASE line.type = "footer"
  <2>1. line \in FooterLines
    BY <1>3, LineKinds
  <2>2. \/ \E n \in Nat : \/ l = [line EXCEPT !.count = n]
                          \/ l = [line EXCEPT !.dropped = n]
                          \/ l = [line EXCEPT !.reentrant = n]
        \/ l = [line EXCEPT !.complete = ~line.complete]
        \/ l = [line EXCEPT !.digest = <<>>]
    <3>1. 0 .. MaxEvents \subseteq Nat /\ 0 .. 1 \subseteq Nat
      BY LimitsAssumption
    <3>2. Altered(line) =
            {[line EXCEPT !.count = n] : n \in 0 .. MaxEvents}
              \cup {[line EXCEPT !.dropped = n] : n \in 0 .. 1}
              \cup {[line EXCEPT !.reentrant = n] : n \in 0 .. 1}
              \cup {[line EXCEPT !.complete = ~@], [line EXCEPT !.digest = <<>>]}
      BY <1>3 DEF Altered
    <3> QED
      BY <3>1, <3>2, <2>1 DEF FooterLines
  <2>3. <<>> \in Digests /\ (~line.complete) \in BOOLEAN
    BY DEF Digests
  <2>4. l \in FooterLines
    BY <2>1, <2>2, <2>3 DEF FooterLines
  <2> QED
    BY <1>3, <2>4 DEF FooterLines, Line
<1>4. CASE line.type = "garbage"
  BY <1>4 DEF Altered
<1> QED
  BY <1>1, <1>2, <1>3, <1>4, LineKinds

\* What is left of a damaged file is in any set that has garbage and the altered
\* forms of the damaged line.
LEMMA DamagedLines ==
  ASSUME NEW S, NEW lines \in Seq(S), NEW i \in DOMAIN lines, NEW d \in Damaged(lines, i),
         Garbage \in S, Altered(lines[i]) \subseteq S
  PROVE  d \in Seq(S)
<1>1. lines[i] \in S /\ Garbage \in S
  OBVIOUS
<1>2. \A l \in Altered(lines[i]) : l \in S
  OBVIOUS
<1>3. \/ d \in {RemoveAt(lines, i), InsertAt(lines, i, lines[i]), SubSeq(lines, 1, i - 1),
                 ReplaceAt(lines, i, Garbage)}
      \/ \E l \in Altered(lines[i]) : d = ReplaceAt(lines, i, l)
      \/ i < Len(lines) /\ d = [lines EXCEPT ![i] = lines[i + 1], ![i + 1] = lines[i]]
  <2> DEFINE swap == [lines EXCEPT ![i] = lines[i + 1], ![i + 1] = lines[i]]
  <2>1. Damaged(lines, i) =
          {RemoveAt(lines, i), InsertAt(lines, i, lines[i]), SubSeq(lines, 1, i - 1),
           ReplaceAt(lines, i, Garbage)}
            \cup {ReplaceAt(lines, i, l) : l \in Altered(lines[i])}
            \cup (IF i < Len(lines) THEN {swap} ELSE {})
    BY DEF Damaged
  <2> HIDE DEF swap
  <2> QED
    BY <2>1 DEF swap
<1>4. /\ RemoveAt(lines, i) \in Seq(S) /\ SubSeq(lines, 1, i - 1) \in Seq(S)
      /\ \A e \in S : InsertAt(lines, i, e) \in Seq(S)
                          /\ ReplaceAt(lines, i, e) \in Seq(S)
  BY PartsOfSeq
<1>5. ASSUME i < Len(lines)
      PROVE  [lines EXCEPT ![i] = lines[i + 1], ![i + 1] = lines[i]] \in Seq(S)
  BY <1>5, PartsOfSeq
<1> QED
  BY <1>1, <1>2, <1>3, <1>4, <1>5

\* The lines of a flush are lines after the step that begins it.
LEMMA FlushedLinesNext ==
  ((begun \subseteq Buffers) => \A b \in begun : FlushLines(b) \in Seq(Line))'
<1>1. (begun \subseteq Buffers) => \A b \in begun : FlushLines(b) \in Seq(Line)
  BY FlushedLines
<1> QED
  BY <1>1, PTL

\* Every action keeps the types.
LEMMA TypeStep == TypeOK /\ [Next]_vars => TypeOK'
<1> SUFFICES ASSUME TypeOK, [Next]_vars
             PROVE  TypeOK'
  OBVIOUS
<1> USE DEF TypeOK
<1>0. Garbage \in Line /\ <<>> \in Seq(Line)
  BY DEF Line
<1>a. ASSUME UNCHANGED begun
      PROVE  Line' = Line
  BY <1>a DEF Line, HeaderLines, EventLines, FooterLines, Digests, Garbage
<1>1. ASSUME NEW b \in Buffers, FlushBegin(b)
      PROVE  TypeOK'
  <2>1. begun' = begun \cup {b} /\ begun' \subseteq Buffers
    BY <1>1 DEF FlushBegin
  <2>2. \A s \in Seq(Line) : s \in Seq(Line)'
    BY <2>1, LinesGrow
  <2>3. FlushLines(b) \in Seq(Line)'
    BY <2>1, FlushedLinesNext
  <2>4. reader' \in [pc : {"idle", "reading", "refused", "accepted"}, length : Nat,
                     stable : BOOLEAN, bytes : Seq(Line)']
    BY <1>1, <2>2 DEF FlushBegin, Rewrite
  <2>5. file' \in Seq(Line)'
    BY <1>0, <1>1, <2>2 DEF FlushBegin, Rewrite
  <2>6. flush' \in [pc : {"idle", "writing", "ok", "io"}, lines : Seq(Line)', calls : Nat]
    BY <1>1, <2>3 DEF FlushBegin
  <2> QED
    BY <1>1, <2>1, <2>4, <2>5, <2>6 DEF FlushBegin
<1>2. CASE FlushOpenFails
  BY <1>0, <1>2, <1>a DEF FlushOpenFails
<1>3. CASE FlushLine
  <2>1. flush.lines # <<>> /\ Head(flush.lines) \in Line /\ Tail(flush.lines) \in Seq(Line)
    BY <1>3, HeadTailProperties DEF FlushLine
  <2>2. Append(file, Head(flush.lines)) \in Seq(Line)
    BY <2>1
  <2> QED
    BY <1>3, <2>1, <2>2, <1>a DEF FlushLine, Rewrite
<1>4. ASSUME NEW partial \in BOOLEAN, FlushStops(partial)
      PROVE  TypeOK'
  <2>1. Append(file, Garbage) \in Seq(Line)
    BY <1>0
  <2> QED
    BY <1>4, <1>0, <2>1, <1>a DEF FlushStops, Rewrite
<1>5. CASE Damage
  <2>0. PICK i \in DOMAIN file : \E lines \in Damaged(file, i) : Rewrite(lines)
    BY <1>5 DEF Damage
  <2>1. PICK lines \in Damaged(file, i) : Rewrite(lines)
    BY <2>0
  <2>2. lines \in Seq(Line)
    <3>1. file[i] \in Line /\ \A l \in Altered(file[i]) : l \in Line
      BY AlteredLine
    <3> QED
      BY <3>1, <2>1, <1>0, DamagedLines
  <2>3. faults' \in 0 .. MaxFaults
    BY <1>5, LimitsAssumption DEF Damage
  <2> QED
    BY <1>5, <2>1, <2>2, <2>3, <1>a DEF Damage, Rewrite
<1>6. CASE ReaderOpen
  BY <1>6, <1>0, <1>a DEF ReaderOpen
<1>7. CASE ReaderChunk
  <2>1. reader' \in [pc : {"idle", "reading", "refused", "accepted"}, length : Nat,
                     stable : BOOLEAN, bytes : Seq(Line)]
    <3> DEFINE at == Len(reader.bytes) + 1
    <3>1. CASE at > Len(file)
      BY <1>7, <3>1 DEF ReaderChunk
    <3>2. CASE ~(at > Len(file))
      <4>1. file[at] \in Line
        BY <3>2
      <4>2. PICK line \in Line : reader' = [reader EXCEPT !.bytes = Append(reader.bytes, line)]
        BY <1>7, <1>0, <3>2, <4>1 DEF ReaderChunk
      <4>3. Append(reader.bytes, line) \in Seq(Line)
        OBVIOUS
      <4> QED
        BY <4>2, <4>3
    <3> QED
      BY <3>1, <3>2
  <2> QED
    BY <1>7, <2>1, <1>a DEF ReaderChunk
<1>8. CASE ReaderParse
  BY <1>8, <1>a DEF ReaderParse
<1>9. CASE UNCHANGED vars
  BY <1>9, <1>a DEF vars
<1> QED
  BY <1>1, <1>2, <1>3, <1>4, <1>5, <1>6, <1>7, <1>8, <1>9 DEF Next

\* Every action keeps the answer of the reader to the bytes it has read.
LEMMA DecidedStep == TypeOK /\ Decided /\ [Next]_vars => Decided'
<1> SUFFICES ASSUME TypeOK, Decided, [Next]_vars
             PROVE  Decided'
  OBVIOUS
<1> USE DEF TypeOK, Decided
<1>0. ASSUME reader'.pc = reader.pc, reader'.length = reader.length,
             reader'.bytes = reader.bytes
      PROVE  Decided'
  BY <1>0
<1>1. ASSUME NEW lines, Rewrite(lines)
      PROVE  Decided'
  BY <1>0, <1>1 DEF Rewrite
<1>2. ASSUME UNCHANGED reader
      PROVE  Decided'
  BY <1>0, <1>2
<1>3. CASE ReaderOpen
  <2>1. Len(<<>>) = 0 /\ Len(file) \in Nat /\ MaxLines \in Nat
    BY LimitsAssumption
  <2>2. /\ reader'.pc = IF Len(file) > MaxLines THEN "refused" ELSE "reading"
        /\ reader'.length = Len(file) /\ reader'.bytes = <<>>
    BY <1>3 DEF ReaderOpen
  <2> QED
    BY <2>1, <2>2
<1>4. CASE ReaderChunk
  <2> DEFINE at == Len(reader.bytes) + 1
  <2>1. CASE at > Len(file)
    BY <1>4, <2>1 DEF ReaderChunk
  <2>2. CASE ~(at > Len(file))
    <3>1. PICK line : reader' = [reader EXCEPT !.bytes = Append(reader.bytes, line)]
      BY <1>4, <2>2 DEF ReaderChunk
    <3>2. Len(reader'.bytes) = Len(reader.bytes) + 1
      BY <3>1
    <3> QED
      BY <1>4, <3>1, <3>2 DEF ReaderChunk
  <2> QED
    BY <2>1, <2>2
<1>5. CASE ReaderParse
  BY <1>5 DEF ReaderParse
<1> QED
  BY <1>1, <1>2, <1>3, <1>4, <1>5
  DEF Next, FlushBegin, FlushOpenFails, FlushLine, FlushStops, Damage, vars

\* The types of every state, and that the reader answers by what it has read: the
\* inductive strengthening of what follows.
THEOREM TraceInvariant == Spec => []TraceInv
<1>1. Init => TraceInv
  <2>1. <<>> \in Seq(Line)
    OBVIOUS
  <2> QED
    BY <2>1, LimitsAssumption DEF Init, TraceInv, TypeOK, Decided, NoReader
<1>2. TraceInv /\ [Next]_vars => TraceInv'
  BY TypeStep, DecidedStep DEF TraceInv
<1> QED
  BY <1>1, <1>2, PTL DEF Spec

-----------------------------------------------------------------------------
(* The properties.                                                         *)

\* The writer and the reader agree on every file a flush has written in full: it
\* is accepted exactly if nothing was lost and every event keeps its contract.
THEOREM WriterAndReaderAgree == Spec => []FlushedIsReadable
<1>1. TraceInv => FlushedIsReadable
  <2> SUFFICES ASSUME TraceInv, NEW b \in begun,
                      reader.pc \in {"accepted", "refused"}, reader.bytes = FlushLines(b),
                      reader.length = Len(reader.bytes)
               PROVE  reader.pc = "accepted" <=>
                        /\ Lossless(b)
                        /\ \A i \in DOMAIN b.events : ValidEvent(b.events[i], HostPlatform)
    BY DEF FlushedIsReadable
  <2>1. reader.pc = "accepted" <=> Accepts(Loop(FlushLines(b)))
    BY DEF TraceInv, Decided
  <2> QED
    BY <2>1, FlushedAccepted DEF TraceInv, TypeOK
<1> QED
  BY <1>1, TraceInvariant, PTL

\* What is accepted is the lines of a buffer that a flush set out to write, event
\* for event, and a footer that claims it had lost nothing.
AcceptedIsBody ==
  reader.pc = "accepted" =>
    \E b \in begun, footer \in FooterLines :
      /\ reader.bytes = Append(Body(b), footer) /\ footer.digest = Body(b)
      /\ footer.count = Len(b.events) /\ footer.complete
      /\ footer.dropped = 0 /\ footer.reentrant = 0

\* However often storage damages the file, no lost, added, reordered or altered
\* event gets past the digest.
THEOREM AcceptedEventsAreFlushed == Spec => []AcceptedIsBody
<1>1. TraceInv => AcceptedIsBody
  <2> SUFFICES ASSUME TraceInv, reader.pc = "accepted"
               PROVE  \E b \in begun, footer \in FooterLines :
                        /\ reader.bytes = Append(Body(b), footer) /\ footer.digest = Body(b)
                        /\ footer.count = Len(b.events) /\ footer.complete
                        /\ footer.dropped = 0 /\ footer.reentrant = 0
    BY DEF AcceptedIsBody
  <2> DEFINE L == reader.bytes
             footer == L[Len(L)]
  <2>1. L \in Seq(Line) /\ begun \subseteq Buffers /\ Accepts(Loop(L))
    BY DEF TraceInv, TypeOK, Decided
  <2>2. /\ Len(L) \in Nat \ {0, 1} /\ footer \in FooterLines
        /\ L = Append(footer.digest, footer) /\ Len(footer.digest) = Len(L) - 1
        /\ footer.count = Len(L) - 2 /\ footer.complete
        /\ footer.dropped = 0 /\ footer.reentrant = 0
    BY <2>1, AcceptedLines
  <2> HIDE DEF L, footer
  <2>3. footer.digest # <<>>
    BY <2>2
  <2>4. PICK b \in begun : footer.digest = Body(b)
    BY <2>2, <2>3 DEF FooterLines, Digests
  <2>5. b \in Buffers /\ Len(b.events) \in Nat /\ Len(Body(b)) = Len(b.events) + 1
    BY <2>1, BodyLines, BuffersAssumption
  <2>6. Len(b.events) = Len(L) - 2
    BY <2>2, <2>4, <2>5
  <2> QED
    BY <2>2, <2>4, <2>6 DEF L
<1> QED
  BY <1>1, TraceInvariant, PTL

\* A sequence of some lines whose members are others is one of the others.
LEMMA SeqOfMembers ==
  ASSUME NEW T, NEW S, NEW s \in Seq(T), \A i \in DOMAIN s : s[i] \in S
  PROVE  s \in Seq(S)
OBVIOUS

\* With one fault no line is altered twice.
LEMMA AlteredOnceStep == TypeOK /\ TypeOK' /\ AlteredOnce /\ [Next]_vars => AlteredOnce'
<1> SUFFICES ASSUME TypeOK, TypeOK', AlteredOnce, [Next]_vars
             PROVE  AlteredOnce'
  OBVIOUS
<1> USE DEF AlteredOnce
<1>0. faults \in Nat /\ faults' \in Nat
  BY LimitsAssumption DEF TypeOK
<1>1. Garbage \in Pristine /\ Pristine \subseteq Once
  BY DEF Pristine, Once
<1>2. ASSUME begun \subseteq begun'
      PROVE  /\ \A s \in Seq(Pristine) : s \in Seq(Pristine)'
             /\ \A s \in Seq(Once) : s \in Seq(Once)'
  <2>1. Pristine \subseteq Pristine'
    BY <1>2 DEF Pristine
  <2>2. Once \subseteq Once'
    BY <2>1 DEF Once
  <2> QED
    BY <2>1, <2>2, SeqMonotonic
<1>3. \A s \in Seq(Pristine) : s \in Seq(Once)
  BY <1>1, SeqMonotonic
<1>4. ASSUME NEW b \in Buffers, FlushBegin(b)
      PROVE  AlteredOnce'
  <2>1. begun' = begun \cup {b} /\ flush'.lines = FlushLines(b) /\ file' = <<>>
        /\ reader'.bytes = reader.bytes /\ faults' = faults
    BY <1>4 DEF FlushBegin, Rewrite, TypeOK
  <2>2. FlushLines(b) \in Seq(Pristine)'
    <3>1. FlushLines(b) \in Seq(Line)'
      BY <2>1 DEF TypeOK
    <3>2. \A i \in DOMAIN FlushLines(b) : FlushLines(b)[i] \in Pristine'
      BY <2>1 DEF Pristine
    <3> QED
      BY <3>1, <3>2, SeqOfMembers
  <2>3. <<>> \in Seq(Pristine)' /\ <<>> \in Seq(Once)'
    OBVIOUS
  <2> QED
    BY <1>2, <2>1, <2>2, <2>3
<1>5. ASSUME UNCHANGED <<begun, faults>>, flush'.lines \in Seq(Pristine),
             faults = 0 => file' \in Seq(Pristine),
             faults <= 1 => file' \in Seq(Once) /\ reader'.bytes \in Seq(Once)
      PROVE  AlteredOnce'
  BY <1>2, <1>5
<1>6. CASE FlushOpenFails
  <2>1. flush'.lines = <<>> /\ UNCHANGED <<file, reader, begun, faults>>
    BY <1>6 DEF FlushOpenFails
  <2> QED
    BY <1>5, <2>1
<1>7. CASE FlushLine
  <2>1. /\ flush.lines # <<>> /\ flush'.lines = Tail(flush.lines)
        /\ file' = Append(file, Head(flush.lines)) /\ reader'.bytes = reader.bytes
        /\ UNCHANGED <<begun, faults>>
    BY <1>7 DEF FlushLine, Rewrite, TypeOK
  <2>2. Head(flush.lines) \in Pristine /\ Tail(flush.lines) \in Seq(Pristine)
    BY <2>1, HeadTailProperties
  <2>3. faults = 0 => file' \in Seq(Pristine)
    BY <2>1, <2>2
  <2>4. faults <= 1 => file' \in Seq(Once)
    BY <2>1, <2>2, <1>1
  <2> QED
    BY <1>5, <2>1, <2>2, <2>3, <2>4
<1>8. ASSUME NEW partial \in BOOLEAN, FlushStops(partial)
      PROVE  AlteredOnce'
  <2>1. /\ flush'.lines = <<>> /\ file' \in {file, Append(file, Garbage)}
        /\ reader'.bytes = reader.bytes /\ UNCHANGED <<begun, faults>>
    BY <1>8 DEF FlushStops, Rewrite, TypeOK
  <2>2. faults = 0 => file' \in Seq(Pristine)
    BY <2>1, <1>1
  <2>3. faults <= 1 => file' \in Seq(Once)
    BY <2>1, <1>1
  <2> QED
    BY <1>5, <2>1, <2>2, <2>3
<1>9. CASE Damage
  <2>1. /\ faults' = faults + 1 /\ UNCHANGED <<flush, begun>>
        /\ reader'.bytes = reader.bytes
    BY <1>9 DEF Damage, Rewrite, TypeOK
  <2>2. ASSUME faults = 0
        PROVE  file' \in Seq(Once)
    <3>1. PICK i \in DOMAIN file : \E lines \in Damaged(file, i) : Rewrite(lines)
      BY <1>9 DEF Damage
    <3>2. file' \in Damaged(file, i)
      BY <3>1 DEF Rewrite
    <3>3. file[i] \in Pristine
      BY <2>2
    <3>4. Altered(file[i]) \subseteq Once /\ Garbage \in Once /\ file \in Seq(Once)
      BY <3>3, <1>1, <1>3, <2>2 DEF Once
    <3> QED
      BY <3>2, <3>4, DamagedLines
  <2>3. faults' <= 1 => file' \in Seq(Once)' /\ reader'.bytes \in Seq(Once)'
    BY <1>0, <1>2, <2>1, <2>2
  <2>4. flush'.lines \in Seq(Pristine)' /\ faults' # 0
    BY <1>0, <1>2, <2>1
  <2> QED
    BY <2>3, <2>4
<1>10. CASE ReaderOpen
  <2>1. reader'.bytes = <<>> /\ UNCHANGED <<flush, file, begun, faults>>
    BY <1>10 DEF ReaderOpen
  <2> QED
    BY <1>5, <2>1
<1>11. CASE ReaderChunk
  <2>1. UNCHANGED <<flush, file, begun, faults>>
    BY <1>11 DEF ReaderChunk
  <2>2. ASSUME faults <= 1
        PROVE  reader'.bytes \in Seq(Once)
    <3> DEFINE at == Len(reader.bytes) + 1
    <3>1. CASE at > Len(file)
      BY <1>11, <2>2, <3>1 DEF ReaderChunk, TypeOK
    <3>2. CASE ~(at > Len(file))
      <4>1. PICK line \in {file[at], Garbage} :
              reader' = [reader EXCEPT !.bytes = Append(reader.bytes, line)]
        BY <1>11, <3>2 DEF ReaderChunk
      <4>2. file[at] \in Once
        BY <2>2, <3>2
      <4>3. reader'.bytes = Append(reader.bytes, line)
        BY <4>1 DEF TypeOK
      <4> QED
        BY <2>2, <4>1, <4>2, <4>3, <1>1
    <3> QED
      BY <3>1, <3>2
  <2> QED
    BY <1>5, <2>1, <2>2
<1>12. CASE ReaderParse
  <2>1. reader'.bytes = reader.bytes /\ UNCHANGED <<flush, file, begun, faults>>
    BY <1>12 DEF ReaderParse, TypeOK
  <2> QED
    BY <1>5, <2>1
<1>13. CASE UNCHANGED vars
  BY <1>5, <1>13 DEF vars
<1> QED
  BY <1>4, <1>6, <1>7, <1>8, <1>9, <1>10, <1>11, <1>12, <1>13 DEF Next

\* A footer with one field altered that is accepted is the one flush wrote.
LEMMA FooterUnaltered ==
  ASSUME begun \subseteq Buffers, NEW footer \in Once, footer.type = "footer",
         footer.digest # <<>>, footer.count = Len(footer.digest) - 1, footer.complete,
         footer.dropped = 0, footer.reentrant = 0
  PROVE  \E b \in begun : Lossless(b) /\ footer = Footer(b, Body(b))
<1>1. PICK line \in Pristine : footer = line \/ footer \in Altered(line)
  BY DEF Once
<1>2. line \in Line /\ line.type = "footer"
  <2>1. line \in Line
    BY FlushedLines DEF Pristine, Line
  <2> QED
    BY <1>1, <2>1, AlteredLine
<1>3. PICK b \in begun : line = Footer(b, Body(b))
  <2>1. PICK b \in begun : \E i \in DOMAIN FlushLines(b) : line = FlushLines(b)[i]
    BY <1>2 DEF Pristine, Garbage
  <2>2. PICK i \in DOMAIN FlushLines(b) : line = FlushLines(b)[i]
    BY <2>1
  <2>3. b \in Buffers /\ Len(b.events) \in Nat /\ i \in 1 .. Len(b.events) + 2
    BY BuffersAssumption, FlushedLines
  <2>4. ASSUME i \in 1 .. Len(b.events) + 1
        PROVE  FALSE
    <3>1. line = Body(b)[i]
      BY <2>2, <2>4, FlushedLines
    <3>2. CASE i = 1
      BY <1>2, <2>3, <3>1, <3>2, BodyLines DEF HeaderLines
    <3>3. CASE i # 1
      <4>1. i - 1 \in 1 .. Len(b.events) /\ (i - 1) + 1 = i
        BY <2>3, <2>4, <3>3
      <4>2. Body(b)[i] \in EventLines
        BY <2>3, <4>1, BodyLines
      <4> QED
        BY <1>2, <3>1, <4>2 DEF EventLines
    <3> QED
      BY <3>2, <3>3
  <2>5. i = Len(b.events) + 2
    BY <2>3, <2>4
  <2> QED
    BY <2>2, <2>5, FlushedLines
<1>4. /\ b \in Buffers /\ b.dropped \in Nat /\ b.reentrant \in Nat
      /\ Len(Body(b)) = Len(b.events) + 1 /\ Len(b.events) \in Nat
  BY BodyLines, BuffersAssumption
<1>5. /\ line = [type |-> "footer", count |-> Len(b.events), dropped |-> b.dropped,
                 reentrant |-> b.reentrant, complete |-> line.complete, digest |-> Body(b)]
      /\ line.complete <=> b.dropped = 0 /\ b.reentrant = 0
  BY <1>3 DEF Footer
<1>6. CASE footer = line
  BY <1>3, <1>5, <1>6 DEF Lossless
<1>7. CASE footer \in Altered(line)
  <2>1. \/ \E n \in 0 .. MaxEvents : footer = [line EXCEPT !.count = n]
        \/ \E n \in 0 .. 1 : footer = [line EXCEPT !.dropped = n]
        \/ \E n \in 0 .. 1 : footer = [line EXCEPT !.reentrant = n]
        \/ footer = [line EXCEPT !.complete = ~line.complete]
        \/ footer = [line EXCEPT !.digest = <<>>]
    BY <1>2, <1>7 DEF Altered
  <2>2. footer = line /\ Lossless(b)
    <3>0. /\ line = [type |-> line.type, count |-> line.count, dropped |-> line.dropped,
                    reentrant |-> line.reentrant, complete |-> line.complete,
                    digest |-> line.digest]
          /\ line.count = Len(b.events) /\ line.dropped = b.dropped
          /\ line.reentrant = b.reentrant /\ line.digest = Body(b)
      BY <1>5
    <3>1. ASSUME NEW n, footer = [line EXCEPT !.count = n]
          PROVE  footer = line /\ Lossless(b)
      <4>1. n = line.count
        BY <1>4, <3>0, <3>1
      <4>2. footer = line
        BY <3>0, <3>1, <4>1
      <4> QED
        BY <3>0, <4>2 DEF Lossless
    <3>2. ASSUME NEW n, footer = [line EXCEPT !.dropped = n]
          PROVE  footer = line /\ Lossless(b)
      <4>1. line.complete /\ n = 0
        BY <3>0, <3>2
      <4>2. Lossless(b) /\ n = line.dropped
        BY <1>5, <3>0, <4>1 DEF Lossless
      <4> QED
        BY <3>0, <3>2, <4>2
    <3>3. ASSUME NEW n, footer = [line EXCEPT !.reentrant = n]
          PROVE  footer = line /\ Lossless(b)
      <4>1. line.complete /\ n = 0
        BY <3>0, <3>3
      <4>2. Lossless(b) /\ n = line.reentrant
        BY <1>5, <3>0, <4>1 DEF Lossless
      <4> QED
        BY <3>0, <3>3, <4>2
    <3>4. footer # [line EXCEPT !.complete = ~line.complete]
      <4> SUFFICES ASSUME footer = [line EXCEPT !.complete = ~line.complete]
                   PROVE  FALSE
        OBVIOUS
      <4>1. line.dropped = 0 /\ line.reentrant = 0 /\ ~line.complete
        BY <3>0
      <4> QED
        BY <1>5, <3>0, <4>1
    <3>5. footer # [line EXCEPT !.digest = <<>>]
      BY <3>0
    <3> QED
      BY <2>1, <3>1, <3>2, <3>3, <3>4, <3>5
  <2> QED
    BY <2>2, <1>3
<1> QED
  BY <1>1, <1>6, <1>7

\* Up to one damaged line, what is accepted is, byte for byte, one flush of a
\* buffer that had lost nothing: whatever else happens to the file, whenever it
\* is rewritten and for any buffers.
THEOREM AcceptedIsOneFlush == Spec => [](faults <= 1 => AcceptedIsFlushed)
<1>1. Init => AlteredOnce
  BY DEF Init, AlteredOnce, NoReader
<1>2. TraceInv /\ TraceInv' /\ AlteredOnce /\ [Next]_vars => AlteredOnce'
  BY AlteredOnceStep DEF TraceInv
<1>3. TraceInv /\ AcceptedIsBody /\ AlteredOnce => (faults <= 1 => AcceptedIsFlushed)
  <2> SUFFICES ASSUME TraceInv, AcceptedIsBody, AlteredOnce, faults <= 1,
                      reader.pc = "accepted"
               PROVE  \E b \in begun : Lossless(b) /\ reader.bytes = FlushLines(b)
    BY DEF AcceptedIsFlushed
  <2>1. PICK c \in begun : \E footer \in FooterLines :
          /\ reader.bytes = Append(Body(c), footer) /\ footer.digest = Body(c)
          /\ footer.count = Len(c.events) /\ footer.complete
          /\ footer.dropped = 0 /\ footer.reentrant = 0
    BY DEF AcceptedIsBody
  <2>2. PICK footer \in FooterLines :
          /\ reader.bytes = Append(Body(c), footer) /\ footer.digest = Body(c)
          /\ footer.count = Len(c.events) /\ footer.complete
          /\ footer.dropped = 0 /\ footer.reentrant = 0
    BY <2>1
  <2>3. begun \subseteq Buffers /\ reader.bytes \in Seq(Once)
    BY DEF TraceInv, TypeOK, AlteredOnce
  <2>4. /\ Body(c) \in Seq(Line) /\ Len(Body(c)) = Len(c.events) + 1
        /\ Len(c.events) \in Nat
    BY <2>3, BodyLines, BuffersAssumption
  <2>5. footer \in Once
    <3>1. reader.bytes[Len(Body(c)) + 1] = footer
          /\ Len(Body(c)) + 1 \in DOMAIN reader.bytes
      BY <2>2, <2>4
    <3> QED
      BY <2>3, <3>1
  <2>6. footer.digest # <<>> /\ footer.count = Len(footer.digest) - 1
        /\ footer.type = "footer"
    BY <2>2, <2>4 DEF FooterLines
  <2>7. PICK b \in begun : Lossless(b) /\ footer = Footer(b, Body(b))
    BY <2>2, <2>3, <2>5, <2>6, FooterUnaltered
  <2>8. Body(c) = Body(b)
    BY <2>2, <2>7 DEF Footer
  <2> QED
    BY <2>2, <2>7, <2>8 DEF FlushLines
<1> QED
  BY <1>1, <1>2, <1>3, TraceInvariant, AcceptedEventsAreFlushed, PTL DEF Spec
=============================================================================
