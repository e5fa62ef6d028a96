--------------------------- MODULE EventLogProofs ---------------------------
(***************************************************************************)
(* The event log, for every set of processes and of events and any number  *)
(* of deaths, refusals and writes cut short.  The argument: only the       *)
(* holder of the file lock appends (OneWriter), it restored its cache from *)
(* the file it appends to (Writing), so the new line is chained to the     *)
(* last one (Chain); a line that lost its newline swallows the next one,   *)
(* after which nobody can restore and the file stays as it is (Ending).    *)
(* A verify_chain() that runs meanwhile holds the hash of a line that is   *)
(* still there (Reading).                                                  *)
(***************************************************************************)
EXTENDS EventLog, SequenceTheorems, TLAPS

Emitting == {"locked", "restored", "half", "bare", "written"}

Last == file[Len(file)]

Typed ==
    /\ file \in Seq(Lines \cup {Garbage})
    /\ tail \in {"clean", "half", "bare"}
    /\ glued \in BOOLEAN
    /\ lock \in Processes \cup {Nobody}
    /\ cache \in [Processes -> [seq : Nat, prev : Hashes]]
    /\ pc \in [Processes -> Emitting \cup {"idle", "down"}]
    /\ current \in [Processes -> Events \cup {Nobody}]
    /\ queue \subseteq Events
    /\ reader \in [at : {"idle", "reading", "raised", "broken", "intact"}, pos : Nat, prev : Hashes]

OneWriter ==
    \A p \in Processes :
        /\ pc[p] \in Emitting <=> lock = p
        /\ lock = p => current[p] \in Events

Chain ==
    \A i \in DOMAIN file :
        IF IsLine(file[i])
        THEN Chained(file[i], i - 1, IF i = 1 THEN Genesis ELSE file[i - 1].hash)
        ELSE i = Len(file)

\* How the file ends: only the last line can be unreadable, and it is while it
\* is half written or once it was glued.
Ending ==
    /\ tail # "clean" \/ glued => Len(file) > 0
    /\ tail = "half" \/ glued => Last = Garbage
    /\ Len(file) > 0 /\ Last = Garbage => tail = "half" \/ glued

\* Where the next line is chained when the last one is being written.
Before == LET n == Len(file) - 1 IN [seq |-> n, prev |-> IF n = 0 THEN Genesis ELSE file[n].hash]

\* What the emitter knows of the file.
Writing ==
    \A p \in Processes :
        /\ pc[p] = "restored" => Readable /\ cache[p] = Restored
        /\ pc[p] = "half" => tail = "half" /\ (~glued => cache[p] = Before)
        /\ pc[p] = "bare" => tail = "bare" /\ (~glued => Last = NewLine(p))
        /\ pc[p] = "written" => tail = "clean" /\ (~glued => Len(file) > 0 /\ IsLine(Last) /\ Last.event = current[p])

\* What the reader has read is still what the file says, unless its last line
\* was glued since.
Reading ==
    /\ reader.at # "broken"
    /\ reader.at = "idle" => reader = Idle
    /\ reader.at = "reading" =>
          /\ reader.pos <= Len(file)
          /\ reader.pos = 0 => reader.prev = Genesis
          /\ reader.pos > 0 => \/ IsLine(file[reader.pos]) /\ reader.prev = file[reader.pos].hash
                               \/ glued /\ ~IsLine(file[reader.pos])

LogInv == Typed /\ OneWriter /\ Chain /\ Ending /\ Writing /\ Reading

\* GENESIS_PREV_HASH is a hash.
LEMMA GenesisType == Genesis \in Hashes
  BY EmptySeq DEF Genesis, Hashes

\* A signed event is a line.
LEMMA HashType ==
    ASSUME NEW seq \in Nat, NEW event \in Events, NEW prev \in Hashes
    PROVE  SignedEvent(seq, event, prev) \in Lines
  BY AppendProperties DEF SignedEvent, ComputeHash, Lines, Hashes

\* The file is a sequence of lines, some of them unreadable.
LEMMA FileShape ==
    ASSUME Typed
    PROVE  /\ Len(file) \in Nat /\ DOMAIN file = 1 .. Len(file)
           /\ \A i \in 1 .. Len(file) : file[i] \in Lines \cup {Garbage}
           /\ \A i \in 1 .. Len(file) : IsLine(file[i]) => file[i] \in Lines
  BY LenProperties DEF Typed, IsLine

\* The invariant holds at the start.
LEMMA LogInit == Init => LogInv
  <1> SUFFICES ASSUME Init PROVE LogInv
    OBVIOUS
  <1>1. Typed
    BY EmptySeq, GenesisType DEF Init, Typed, Idle
  <1>2. OneWriter /\ Ending /\ Writing /\ Reading
    BY LogParameters DEF Init, OneWriter, Ending, Writing, Reading, Emitting, Idle
  <1>3. Chain
    BY DEF Init, Chain
  <1>4. QED
    BY <1>1, <1>2, <1>3 DEF LogInv

\* What emit() and the constructor restore.
LEMMA RestoredType ==
    ASSUME Typed, Readable
    PROVE  Restored \in [seq : Nat, prev : Hashes]
  <1>1. CASE file = <<>>
    BY <1>1, GenesisType DEF Restored
  <1>2. CASE file # <<>>
    <2>1. Len(file) \in 1 .. Len(file)
      BY <1>2, EmptySeq, FileShape DEF Typed
    <2>2. file[Len(file)] \in Lines
      BY <2>1, FileShape DEF Readable
    <2>3. QED
      BY <1>2, <2>2 DEF Restored, Lines
  <1>3. QED
    BY <1>1, <1>2

\* The steps of a process that leave the file alone.
LEMMA FileUntouched ==
    ASSUME LogInv, UNCHANGED diskVars, Typed', OneWriter', Writing', Reading'
    PROVE  LogInv'
  BY DEF diskVars, LogInv, Chain, Ending, Last

\* A step that changes neither the file nor the reader leaves what it has read.
LEMMA ReaderUntouched ==
    ASSUME LogInv, UNCHANGED diskVars, UNCHANGED reader
    PROVE  Reading'
  BY DEF diskVars, LogInv, Reading

\* The steps of emit(), of a death and of a restart that do not write keep the
\* invariant.
LEMMA QuietKeeps ==
    ASSUME LogInv, NEW p \in Processes,
           \/ \E e \in queue : Acquire(p, e) \/ Refused(p, e)
           \/ Restore(p) \/ RestoreRaises(p) \/ Return(p) \/ WriteFails(p) \/ Die(p) \/ Start(p)
    PROVE  LogInv'
  <1>1. UNCHANGED diskVars /\ UNCHANGED reader
    BY DEF Acquire, Refused, Restore, RestoreRaises, Return, WriteFails, Die, Start
  <1>2. /\ lock' \in {lock, p, Nobody} /\ queue' \subseteq queue
        /\ pc' = [pc EXCEPT ![p] = pc'[p]] /\ pc'[p] \in {"locked", "restored", "idle", "down"}
        /\ current' = [current EXCEPT ![p] = current'[p]] /\ current'[p] \in Events \cup {Nobody}
        /\ cache' = [cache EXCEPT ![p] = cache'[p]] /\ cache'[p] \in {cache[p], Restored}
        /\ cache'[p] # cache[p] => Readable
        /\ pc'[p] = "restored" => Readable /\ cache'[p] = Restored
    BY DEF Acquire, Refused, Restore, RestoreRaises, Return, Release, WriteFails, Die, Start, LogInv, Typed
  <1>3. Typed'
    <2>1. cache'[p] \in [seq : Nat, prev : Hashes]
      BY <1>2, RestoredType DEF LogInv, Typed
    <2>2. cache' \in [Processes -> [seq : Nat, prev : Hashes]]
      BY <1>2, <2>1 DEF LogInv, Typed
    <2>3. /\ pc' \in [Processes -> Emitting \cup {"idle", "down"}]
          /\ current' \in [Processes -> Events \cup {Nobody}]
      BY <1>2 DEF LogInv, Typed, Emitting
    <2>4. QED
      BY <1>1, <1>2, <2>2, <2>3 DEF diskVars, LogInv, Typed
  <1>4. OneWriter'
    BY LogParameters DEF Acquire, Refused, Restore, RestoreRaises, Return, Release, WriteFails, Die, Start,
       LogInv, Typed, OneWriter, Emitting
  <1>5. Writing'
    BY <1>1, <1>2 DEF diskVars, LogInv, Typed, Writing, Readable, Restored, Before, Last, NewLine
  <1>6. QED
    BY <1>1, <1>3, <1>4, <1>5, FileUntouched, ReaderUntouched

\* A file that was extended by one line, or whose last line was replaced.
LEMMA Extended ==
    ASSUME NEW S, NEW f \in Seq(S), NEW x \in S
    PROVE  /\ Append(f, x) \in Seq(S) /\ Len(Append(f, x)) = Len(f) + 1
           /\ Append(f, x)[Len(f) + 1] = x
           /\ \A i \in 1 .. Len(f) : Append(f, x)[i] = f[i]
  BY AppendProperties, LenProperties

\* Replacing the last element of a sequence.
LEMMA Replaced ==
    ASSUME NEW S, NEW f \in Seq(S), NEW x \in S, Len(f) > 0, NEW g, g = [f EXCEPT ![Len(f)] = x]
    PROVE  /\ g \in Seq(S) /\ Len(g) = Len(f)
           /\ g[Len(f)] = x
           /\ \A i \in 1 .. Len(f) : i # Len(f) => g[i] = f[i]
  <1>1. Len(f) \in 1 .. Len(f)
    BY LenProperties
  <1>2. QED
    BY <1>1, ExceptSeq

\* The first bytes of a line: a new last line, or the end of the old one.
LEMMA HalfFile ==
    ASSUME LogInv, NEW p \in Processes, WriteHalf(p)
    PROVE  /\ file' \in Seq(Lines \cup {Garbage})
           /\ Len(file') \in Nat \ {0} /\ file'[Len(file')] = Garbage
           /\ \A i \in 1 .. Len(file') : i # Len(file') => i \in 1 .. Len(file) /\ file'[i] = file[i]
           /\ tail = "bare" => Len(file') = Len(file)
           /\ tail # "bare" => tail = "clean" /\ Len(file') = Len(file) + 1
  <1>1. file \in Seq(Lines \cup {Garbage}) /\ Len(file) \in Nat
    BY FileShape DEF LogInv, Typed
  <1>2. Readable /\ Garbage \in Lines \cup {Garbage}
    BY DEF WriteHalf, LogInv, Writing
  <1>3. CASE tail = "bare"
    <2>1. file' = [file EXCEPT ![Len(file)] = Garbage] /\ Len(file) > 0
      BY <1>3 DEF WriteHalf, LogInv, Ending
    <2>2. /\ file' \in Seq(Lines \cup {Garbage}) /\ Len(file') = Len(file)
          /\ file'[Len(file)] = Garbage
          /\ \A i \in 1 .. Len(file) : i # Len(file) => file'[i] = file[i]
      BY <1>1, <1>2, <2>1, Replaced
    <2>3. Len(file) > 0
      BY <2>1
    <2>4. QED
      BY <1>1, <1>3, <2>2, <2>3
  <1>4. CASE tail # "bare"
    <2>1. file' = Append(file, Garbage)
      BY <1>4 DEF WriteHalf
    <2>2. tail = "clean"
      <3>1. Len(file) > 0 => IsLine(Last)
        BY <1>1, <1>2, FileShape DEF Readable, Last, LogInv
      <3>2. QED
        BY <1>4, <3>1 DEF LogInv, Typed, Ending, IsLine
    <2>3. /\ file' \in Seq(Lines \cup {Garbage}) /\ Len(file') = Len(file) + 1
          /\ file'[Len(file) + 1] = Garbage
          /\ \A i \in 1 .. Len(file) : file'[i] = file[i]
      BY <1>1, <1>2, <2>1, Extended
    <2>4. QED
      BY <1>1, <1>4, <2>2, <2>3
  <1>5. QED
    BY <1>3, <1>4

\* The first bytes of a line keep the invariant.
LEMMA WriteHalfKeeps ==
    ASSUME LogInv, NEW p \in Processes, WriteHalf(p)
    PROVE  LogInv'
  <1>1. /\ lock = p /\ pc[p] = "restored" /\ Readable /\ cache[p] = Restored
        /\ glued' = (tail = "bare") /\ tail' = "half"
        /\ UNCHANGED <<lock, cache, current, queue, acked, reader>>
        /\ pc' = [pc EXCEPT ![p] = "half"]
    BY DEF WriteHalf, LogInv, OneWriter, Writing, Emitting
  <1>2. /\ file' \in Seq(Lines \cup {Garbage})
        /\ Len(file') \in Nat \ {0} /\ file'[Len(file')] = Garbage
    BY HalfFile
  <1>3. \A i \in 1 .. Len(file') : i # Len(file') => i \in 1 .. Len(file) /\ file'[i] = file[i]
    BY HalfFile
  <1>4. /\ tail = "bare" => Len(file') = Len(file)
        /\ tail # "bare" => tail = "clean" /\ Len(file') = Len(file) + 1
    BY HalfFile
  <1>5. Len(file) \in Nat
    BY FileShape DEF LogInv
  <1>8. DOMAIN file = 1 .. Len(file) /\ DOMAIN file' = 1 .. Len(file')
    BY <1>2, FileShape, LenProperties DEF LogInv
  <1>6. \A i \in 1 .. Len(file) : IsLine(file[i])
    BY <1>1, <1>8 DEF Readable
  <1>a. Typed'
    BY <1>1, <1>2 DEF LogInv, Typed, Emitting
  <1>b. OneWriter'
    BY <1>1 DEF LogInv, Typed, OneWriter, Emitting
  <1>c. Chain'
    <2> SUFFICES ASSUME NEW i \in 1 .. Len(file')
                 PROVE  IF IsLine(file'[i])
                        THEN Chained(file'[i], i - 1, IF i = 1 THEN Genesis ELSE file'[i - 1].hash)
                        ELSE i = Len(file')
      BY <1>8 DEF Chain
    <2>1. CASE i = Len(file')
      BY <1>2, <2>1 DEF IsLine
    <2>2. CASE i # Len(file')
      <3>1. i \in 1 .. Len(file) /\ file'[i] = file[i]
        BY <1>3, <2>2
      <3>2. i # 1 => file'[i - 1] = file[i - 1]
        <4>1. i # 1 => i - 1 \in 1 .. Len(file') /\ i - 1 # Len(file')
          BY <1>2
        <4>2. QED
          BY <1>3, <4>1
      <3>3. IsLine(file[i])
        BY <1>6, <3>1
      <3>4. Chained(file[i], i - 1, IF i = 1 THEN Genesis ELSE file[i - 1].hash)
        BY <1>8, <3>1, <3>3 DEF LogInv, Chain
      <3>5. QED
        BY <3>1, <3>2, <3>3, <3>4
    <2>3. QED
      BY <2>1, <2>2
  <1>d. Ending'
    BY <1>1, <1>2 DEF Ending, Last
  <1>e. Writing'
    <2>1. \A q \in Processes \ {p} : pc'[q] \notin Emitting
      BY <1>1 DEF LogInv, Typed, OneWriter
    <2>2. ~glued' => cache[p] = Before'
      <3> SUFFICES ASSUME ~glued' PROVE cache[p] = Before'
        OBVIOUS
      <3>1. Len(file') = Len(file) + 1
        BY <1>1, <1>4
      <3>2. CASE Len(file) = 0
        <4>1. file = <<>>
          BY <3>2, EmptySeq DEF LogInv, Typed
        <4>2. QED
          BY <1>1, <3>1, <3>2, <4>1 DEF Restored, Before
      <3>3. CASE Len(file) # 0
        <4> DEFINE n == Len(file)
        <4>1. n \in 1 .. n /\ n \in 1 .. Len(file') /\ n # Len(file') /\ Len(file') - 1 = n
          BY <1>5, <3>1, <3>3
        <4>2. file'[n] = file[n] /\ IsLine(file[n])
          BY <1>3, <1>6, <4>1
        <4>3. file[n].seq = n - 1
          BY <1>8, <4>1, <4>2 DEF LogInv, Chain, Chained
        <4>4. file # <<>>
          BY <3>3, EmptySeq
        <4>5. cache[p] = [seq |-> n, prev |-> file[n].hash]
          BY <1>1, <1>5, <4>3, <4>4 DEF Restored
        <4>6. QED
          BY <1>5, <3>3, <4>1, <4>2, <4>5 DEF Before
      <3>4. QED
        BY <3>2, <3>3
    <2>3. QED
      BY <1>1, <2>1, <2>2 DEF Writing, LogInv, Typed, Emitting
  <1>f. Reading'
    <2> SUFFICES ASSUME reader.at = "reading"
                 PROVE  Reading'
      BY <1>1 DEF LogInv, Reading
    <2>1. reader.pos \in Nat /\ reader.pos <= Len(file) /\ (reader.pos = 0 => reader.prev = Genesis)
      BY DEF LogInv, Typed, Reading
    <2>2. Len(file) <= Len(file')
      BY <1>4, <1>5
    <2>3. reader.pos > 0 => reader.pos \in 1 .. Len(file)
      BY <1>5, <2>1
    <2>4. reader.pos > 0 => reader.prev = file[reader.pos].hash /\ IsLine(file[reader.pos])
      BY <1>6, <2>3 DEF LogInv, Reading
    <2>5. CASE reader.pos > 0 /\ reader.pos = Len(file')
      <3>1. glued'
        <4>1. tail = "bare"
          BY <1>4, <1>5, <2>1, <2>5
        <4>2. QED
          BY <1>1, <4>1
      <3>2. QED
        BY <1>1, <1>2, <2>5, <3>1 DEF LogInv, Reading, IsLine
    <2>6. CASE reader.pos > 0 /\ reader.pos # Len(file')
      <3>1. file'[reader.pos] = file[reader.pos] /\ reader.pos <= Len(file')
        BY <1>2, <1>3, <1>5, <2>1, <2>2, <2>3, <2>6
      <3>2. QED
        BY <1>1, <2>4, <2>6, <3>1 DEF LogInv, Reading
    <2>7. CASE reader.pos = 0
      BY <1>1, <1>2, <2>1, <2>7 DEF LogInv, Reading
    <2>8. QED
      BY <2>1, <2>5, <2>6, <2>7
  <1>7. QED
    BY <1>a, <1>b, <1>c, <1>d, <1>e, <1>f DEF LogInv

\* The rest of a line keeps it: the line is chained to the one before.
LEMMA WriteRestKeeps ==
    ASSUME LogInv, NEW p \in Processes, WriteRest(p)
    PROVE  LogInv'
  <1> DEFINE n == Len(file)
             new == NewLine(p)
  <1>1. /\ lock = p /\ pc[p] = "half" /\ tail = "half" /\ (~glued => cache[p] = Before)
        /\ tail' = "bare" /\ pc' = [pc EXCEPT ![p] = "bare"]
        /\ UNCHANGED <<glued, lock, cache, current, queue, acked, reader>>
    BY DEF WriteRest, LogInv, OneWriter, Writing, Emitting
  <1>2. /\ n \in Nat \ {0} /\ file \in Seq(Lines \cup {Garbage}) /\ file[n] = Garbage
    BY <1>1, FileShape DEF LogInv, Typed, Ending, Last
  <1>3. new \in Lines /\ new # Garbage
    <2>1. cache[p].seq \in Nat /\ cache[p].prev \in Hashes /\ current[p] \in Events
      BY <1>1 DEF LogInv, Typed, OneWriter
    <2>2. QED
      BY <2>1, HashType, GarbageIsNoLine DEF NewLine
  <1>4. /\ file' \in Seq(Lines \cup {Garbage}) /\ Len(file') = n
        /\ file'[n] = IF glued THEN Garbage ELSE new
        /\ \A i \in 1 .. n : i # n => file'[i] = file[i]
    <2>1. CASE glued
      BY <1>2, <2>1 DEF WriteRest
    <2>2. CASE ~glued
      <3>1. file' = [file EXCEPT ![Len(file)] = new]
        BY <2>2 DEF WriteRest
      <3>2. n > 0 /\ new \in Lines \cup {Garbage}
        BY <1>2, <1>3
      <3>3. QED
        BY <1>2, <2>2, <3>1, <3>2, Replaced
    <2>3. QED
      BY <2>1, <2>2
  <1>5. DOMAIN file = 1 .. n /\ DOMAIN file' = 1 .. n
    BY <1>2, <1>4, LenProperties
  <1>6. new' = new
    BY <1>1 DEF NewLine
  <1>7. ~glued => /\ new.seq = n - 1
                  /\ new.prev = IF n = 1 THEN Genesis ELSE file[n - 1].hash
                  /\ new.hash = ComputeHash(new.seq, new.event, new.prev)
    BY <1>1, <1>2 DEF NewLine, SignedEvent, Before
  <1> HIDE DEF n, new
  <1>a. Typed'
    BY <1>1, <1>4 DEF LogInv, Typed, Emitting
  <1>b. OneWriter'
    BY <1>1 DEF LogInv, Typed, OneWriter, Emitting
  <1>c. Chain'
    <2> SUFFICES ASSUME NEW i \in 1 .. n
                 PROVE  IF IsLine(file'[i])
                        THEN Chained(file'[i], i - 1, IF i = 1 THEN Genesis ELSE file'[i - 1].hash)
                        ELSE i = n
      BY <1>4, <1>5 DEF Chain
    <2>1. i # 1 => file'[i - 1] = file[i - 1]
      <3>1. i # 1 => i - 1 \in 1 .. n /\ i - 1 # n
        BY <1>2
      <3>2. QED
        BY <1>4, <3>1
    <2>2. CASE i = n
      <3>1. CASE glued
        BY <1>4, <2>2, <3>1 DEF IsLine
      <3>2. CASE ~glued
        BY <1>3, <1>4, <1>7, <2>1, <2>2, <3>2 DEF IsLine, Chained
      <3>3. QED
        BY <3>1, <3>2
    <2>3. CASE i # n
      <3>1. file'[i] = file[i]
        BY <1>4, <2>3
      <3>2. IF IsLine(file[i])
            THEN Chained(file[i], i - 1, IF i = 1 THEN Genesis ELSE file[i - 1].hash)
            ELSE i = n
        BY <1>5 DEF LogInv, Chain, n
      <3>3. QED
        BY <2>1, <3>1, <3>2
    <2>4. QED
      BY <2>2, <2>3
  <1>d. Ending'
    BY <1>1, <1>2, <1>3, <1>4 DEF Ending, Last
  <1>e. Writing'
    <2>1. \A q \in Processes \ {p} : pc'[q] \notin Emitting
      BY <1>1 DEF LogInv, Typed, OneWriter
    <2>2. ~glued' => Last' = NewLine(p)'
      BY <1>1, <1>4, <1>6 DEF Last, new
    <2>3. QED
      BY <1>1, <2>1, <2>2 DEF Writing, LogInv, Typed, Emitting
  <1>f. Reading'
    <2> SUFFICES ASSUME reader.at = "reading", reader.pos > 0
                 PROVE  /\ reader.pos <= n
                        /\ \/ IsLine(file'[reader.pos]) /\ reader.prev = file'[reader.pos].hash
                           \/ glued /\ ~IsLine(file'[reader.pos])
      BY <1>1, <1>2, <1>4 DEF LogInv, Typed, Reading, n
    <2>1. /\ reader.pos \in 1 .. n
          /\ \/ IsLine(file[reader.pos]) /\ reader.prev = file[reader.pos].hash
             \/ glued /\ ~IsLine(file[reader.pos])
      BY DEF LogInv, Typed, Reading, n
    <2>2. CASE reader.pos = n
      BY <1>2, <1>4, <2>1, <2>2 DEF IsLine
    <2>3. CASE reader.pos # n
      BY <1>2, <1>4, <2>1, <2>3
    <2>4. QED
      BY <2>2, <2>3
  <1>8. QED
    BY <1>a, <1>b, <1>c, <1>d, <1>e, <1>f DEF LogInv

\* The newline keeps it.
LEMMA WriteNewlineKeeps ==
    ASSUME LogInv, NEW p \in Processes, WriteNewline(p)
    PROVE  LogInv'
  <1>1. /\ lock = p /\ pc[p] = "bare" /\ tail = "bare" /\ (~glued => Last = NewLine(p))
        /\ tail' = "clean" /\ pc' = [pc EXCEPT ![p] = "written"]
        /\ cache' = [cache EXCEPT ![p] = [seq |-> cache[p].seq + 1, prev |-> NewLine(p).hash]]
        /\ UNCHANGED <<file, glued, lock, current, queue, acked, reader>>
    BY DEF WriteNewline, LogInv, OneWriter, Writing, Emitting
  <1>2. NewLine(p) \in Lines /\ cache[p].seq \in Nat
    BY <1>1, HashType DEF NewLine, LogInv, Typed, OneWriter
  <1>3. NewLine(p).hash \in Hashes /\ NewLine(p).event = current[p]
    BY <1>2 DEF Lines, NewLine, SignedEvent
  <1>4. Typed'
    BY <1>1, <1>2, <1>3 DEF LogInv, Typed, Emitting
  <1>5. OneWriter' /\ Chain' /\ Ending' /\ Reading'
    BY <1>1 DEF LogInv, Typed, OneWriter, Chain, Ending, Last, Reading, Emitting
  <1>6. Writing'
    <2>1. \A q \in Processes \ {p} : pc'[q] \notin Emitting
      BY <1>1 DEF LogInv, Typed, OneWriter
    <2>2. ~glued => Len(file) > 0 /\ IsLine(Last) /\ Last.event = current[p]
      BY <1>1, <1>3 DEF LogInv, Ending, IsLine
    <2>3. QED
      BY <1>1, <2>1, <2>2 DEF Writing, LogInv, Typed, Emitting, Last
  <1>7. QED
    BY <1>4, <1>5, <1>6 DEF LogInv

\* The reader keeps it: a line it reads is chained to the one it read before.
LEMMA VerifyKeeps ==
    ASSUME LogInv, Verify
    PROVE  LogInv'
  <1>1. UNCHANGED <<diskVars, lock, cache, pc, current, queue, acked>>
    BY DEF Verify, VerifyStart, VerifyLine, VerifyEnd
  <1>2. OneWriter' /\ Writing'
    BY <1>1 DEF diskVars, LogInv, OneWriter, Writing, Readable, Restored, Before, Last, NewLine
  <1>3. reader' \in [at : {"idle", "reading", "raised", "broken", "intact"}, pos : Nat, prev : Hashes]
        /\ Reading'
    <2>1. CASE VerifyStart
      <3>1. reader' = [at |-> "reading", pos |-> 0, prev |-> Genesis]
        BY <2>1 DEF VerifyStart, Idle, LogInv, Reading
      <3>2. Len(file') \in Nat
        BY <1>1, FileShape DEF LogInv, diskVars
      <3>3. QED
        BY <3>1, <3>2, GenesisType DEF Reading
    <2>2. CASE VerifyEnd
      BY <1>1, <2>2 DEF VerifyEnd, LogInv, Typed, Reading, diskVars
    <2>3. CASE VerifyLine
      <3> DEFINE i == reader.pos + 1
      <3>1. /\ reader.at = "reading" /\ reader.pos \in Nat /\ reader.pos < Len(file)
            /\ reader' = IF ~IsLine(file[i]) THEN [reader EXCEPT !.at = "raised"]
                         ELSE IF ~Chained(file[i], reader.pos, reader.prev)
                         THEN [reader EXCEPT !.at = "broken"]
                         ELSE [at |-> "reading", pos |-> i, prev |-> file[i].hash]
        BY <2>3 DEF VerifyLine, LogInv, Typed
      <3>2. Len(file) \in Nat /\ i \in 1 .. Len(file) /\ i - 1 = reader.pos
        BY <3>1, FileShape DEF LogInv
      <3>3. IsLine(file[i]) => file[i] \in Lines
        BY <3>2, FileShape DEF LogInv
      <3>4. IsLine(file[i]) => Chained(file[i], reader.pos, reader.prev)
        <4>1. IsLine(file[i]) => Chained(file[i], reader.pos, IF i = 1 THEN Genesis ELSE file[i - 1].hash)
          BY <3>2, FileShape DEF LogInv, Chain
        <4>2. reader.pos = 0 => i = 1 /\ reader.prev = Genesis
          BY <3>1 DEF LogInv, Reading
        <4>3. reader.pos > 0 => i # 1 /\ reader.prev = file[i - 1].hash
          <5> SUFFICES ASSUME reader.pos > 0 PROVE reader.prev = file[reader.pos].hash
            BY <3>1, <3>2
          <5>1. reader.pos \in DOMAIN file /\ reader.pos # Len(file)
            BY <3>1, <3>2, FileShape DEF LogInv
          <5>2. IsLine(file[reader.pos])
            BY <5>1 DEF LogInv, Chain
          <5>3. QED
            BY <3>1, <5>2 DEF LogInv, Reading
        <4>4. QED
          BY <3>1, <4>1, <4>2, <4>3
      <3> HIDE DEF i
      <3>5. CASE IsLine(file[i])
        <4>1. reader' = [at |-> "reading", pos |-> i, prev |-> file[i].hash]
          BY <3>1, <3>4, <3>5
        <4>2. file[i].hash \in Hashes
          BY <3>3, <3>5 DEF Lines
        <4>3. QED
          BY <1>1, <3>2, <3>5, <4>1, <4>2 DEF Reading, diskVars
      <3>6. CASE ~IsLine(file[i])
        BY <1>1, <3>1, <3>6 DEF LogInv, Typed, Reading, diskVars
      <3>7. QED
        BY <3>5, <3>6
    <2>4. QED
      BY <2>1, <2>2, <2>3 DEF Verify
  <1>4. Typed'
    BY <1>1, <1>3 DEF diskVars, LogInv, Typed
  <1>5. QED
    BY <1>1, <1>2, <1>3, <1>4, FileUntouched

\* Every step keeps the invariant.
LEMMA LogStep == LogInv /\ [Next]_vars => LogInv'
  <1> SUFFICES ASSUME LogInv, [Next]_vars PROVE LogInv'
    OBVIOUS
  <1>1. ASSUME NEW p \in Processes, Emit(p) \/ Faults(p)
        PROVE  LogInv'
    BY <1>1, QuietKeeps, WriteHalfKeeps, WriteRestKeeps, WriteNewlineKeeps DEF Emit, Faults
  <1>2. CASE Verify
    BY <1>2, VerifyKeeps
  <1>3. CASE UNCHANGED vars
    <2>1. Typed' /\ OneWriter' /\ Writing' /\ Reading'
      BY <1>3 DEF vars, diskVars, LogInv, Typed, OneWriter, Writing, Reading, Readable, Restored,
         Before, Last, NewLine
    <2>2. QED
      BY <1>3, <2>1, FileUntouched DEF vars, diskVars
  <1>4. QED
    BY <1>1, <1>2, <1>3 DEF Next

\* The invariant holds in every reachable state.
THEOREM LogInvariant == Spec => []LogInv
  BY LogInit, LogStep, PTL DEF Spec

\* The readable lines are one hash chain from genesis with seq numbers 0, 1, 2, ...
\* whatever processes wrote them, died or failed, and no verify_chain() that reads
\* meanwhile reports a break.
THEOREM LogIsOneChain == Spec => []ReadableChain
  <1>1. LogInv => ReadableChain
    BY DEF LogInv, Chain, Reading, ReadableChain
  <1>2. QED
    BY <1>1, LogInvariant, PTL

-----------------------------------------------------------------------------
(* Lines stay.                                                             *)

\* Every step leaves the lines that have their newline.
LEMMA CompleteGrows ==
    ASSUME LogInv, [Next]_vars
    PROVE  /\ Complete \in Nat /\ Complete <= Len(file) /\ Complete' >= Complete
           /\ \A i \in 1 .. Complete : file'[i] = file[i]
  <1>1. /\ Len(file) \in Nat /\ Complete \in Nat /\ Complete <= Len(file)
        /\ Complete = IF tail = "clean" THEN Len(file) ELSE Len(file) - 1
    BY FileShape DEF LogInv, Complete, Ending
  <1>2. ASSUME file' = file, tail' = tail \/ tail' = "clean"
        PROVE  Complete' >= Complete /\ \A i \in 1 .. Complete : file'[i] = file[i]
    BY <1>1, <1>2 DEF Complete
  <1>3. ASSUME NEW p \in Processes, WriteHalf(p)
        PROVE  Complete' >= Complete /\ \A i \in 1 .. Complete : file'[i] = file[i]
    <2>1. tail' = "half"
      BY <1>3 DEF WriteHalf
    <2>2. Len(file') \in Nat /\ Complete' = Len(file') - 1
      BY <1>3, <2>1, HalfFile DEF Complete
    <2>3. \A i \in 1 .. Len(file') : i # Len(file') => file'[i] = file[i]
      BY <1>3, HalfFile
    <2>4. Complete = Len(file') - 1
      <3>1. CASE tail = "bare"
        BY <1>1, <1>3, <3>1, HalfFile
      <3>2. CASE tail # "bare"
        <4>1. tail = "clean" /\ Len(file') = Len(file) + 1
          BY <1>3, <3>2, HalfFile
        <4>2. QED
          BY <1>1, <4>1
      <3>3. QED
        BY <3>1, <3>2
    <2>5. QED
      BY <2>2, <2>3, <2>4
  <1>4. ASSUME NEW p \in Processes, WriteRest(p)
        PROVE  Complete' >= Complete /\ \A i \in 1 .. Complete : file'[i] = file[i]
    <2>1. tail = "half" /\ tail' = "bare"
      BY <1>4 DEF WriteRest, LogInv, Writing
    <2>2. file' = file \/ file' = [file EXCEPT ![Len(file)] = NewLine(p)]
      BY <1>4 DEF WriteRest
    <2>3. Len(file') = Len(file) /\ \A i \in 1 .. Len(file) : i # Len(file) => file'[i] = file[i]
      <3>1. CASE file' = file
        BY <3>1
      <3>2. CASE file' = [file EXCEPT ![Len(file)] = NewLine(p)]
        <4>1. Len(file) > 0 /\ file \in Seq(Lines \cup {Garbage}) /\ NewLine(p) \in Lines \cup {Garbage}
          BY <1>4, <2>1, HashType DEF LogInv, Typed, Ending, OneWriter, Emitting, WriteRest, NewLine
        <4>2. QED
          BY <3>2, <4>1, Replaced
      <3>3. QED
        BY <2>2, <3>1, <3>2
    <2>4. Complete = Len(file) - 1 /\ Complete' = Len(file) - 1
      BY <1>1, <2>1, <2>3 DEF Complete
    <2>5. QED
      BY <1>1, <2>3, <2>4
  <1>5. CASE \A p \in Processes : ~WriteHalf(p) /\ ~WriteRest(p)
    <2>1. file' = file /\ (tail' = tail \/ tail' = "clean")
      BY <1>5 DEF Next, Emit, Faults, Verify, Acquire, Refused, Restore, RestoreRaises, WriteNewline,
         Return, WriteFails, Die, Start, VerifyStart, VerifyLine, VerifyEnd, vars, diskVars
    <2>2. QED
      BY <1>1, <1>2, <2>1
  <1>6. QED
    BY <1>1, <1>3, <1>4, <1>5

\* The log is append-only: a line that has its newline is never changed.
THEOREM CompleteLinesStay == Spec => AppendOnly
  <1>1. LogInv /\ [Next]_vars =>
           [Complete' >= Complete /\ \A i \in 1 .. Complete : file'[i] = file[i]]_vars
    BY CompleteGrows
  <1>2. QED
    BY <1>1, LogInvariant, PTL DEF Spec, AppendOnly

-----------------------------------------------------------------------------
(* EventLog implements LinearLog.                                          *)

\* The abstract log.
Log == [i \in 1 .. Complete |-> IF IsLine(file[i]) THEN file[i].event ELSE Garbage]

\* An event is in one place: in the queue, being emitted, or in one line.
Once ==
    /\ \A i \in DOMAIN file : IsLine(file[i]) =>
          /\ file[i].event \notin queue
          /\ \A p \in Processes : lock = p /\ file[i].event = current[p] =>
                i = Len(file) /\ pc[p] \in {"bare", "written"}
    /\ \A p \in Processes : lock = p => current[p] \notin queue

\* Nothing is emitted at the start.
LEMMA OnceInit == Init => Once
  BY LogParameters DEF Init, Once

\* Every step leaves an event in one place.
LEMMA OnceStep == LogInv /\ Once /\ [Next]_vars => Once'
  <1> SUFFICES ASSUME LogInv, Once, [Next]_vars PROVE Once'
    OBVIOUS
  <1>1. ASSUME NEW p \in Processes, NEW e \in queue, Acquire(p, e)
        PROVE  Once'
    BY <1>1 DEF Acquire, Release, diskVars, LogInv, Typed, Once
  <1>2. ASSUME NEW p \in Processes,
               \/ \E e \in queue : Refused(p, e)
               \/ Restore(p) \/ RestoreRaises(p) \/ Return(p) \/ WriteFails(p) \/ Die(p) \/ Start(p)
        PROVE  Once'
    <2>1. /\ UNCHANGED file /\ queue' \subseteq queue
          /\ lock' = Nobody \/ (lock' = lock /\ lock' # p) \/ (Restore(p) /\ UNCHANGED <<lock, current>>)
      BY <1>2, LogParameters DEF Refused, Restore, RestoreRaises, Return, Release, WriteFails, Die, Start,
         diskVars, LogInv, Typed, OneWriter, Emitting
    <2>2. /\ \A q \in Processes \ {p} : current'[q] = current[q] /\ pc'[q] = pc[q]
      BY <1>2 DEF Refused, Restore, RestoreRaises, Return, Release, WriteFails, Die, Start, LogInv, Typed
    <2>3. Restore(p) => pc[p] = "locked"
      BY DEF Restore
    <2>4. QED
      BY <2>1, <2>2, <2>3, LogParameters DEF Once
  <1>3. ASSUME NEW p \in Processes, WriteHalf(p)
        PROVE  Once'
    <2>1. /\ pc[p] = "restored" /\ lock = p /\ UNCHANGED <<lock, current, queue>>
          /\ \A q \in Processes \ {p} : lock # q
      BY <1>3 DEF WriteHalf, LogInv, OneWriter, Emitting
    <2>2. /\ \A i \in 1 .. Len(file') : i # Len(file') => i \in 1 .. Len(file) /\ file'[i] = file[i]
          /\ ~IsLine(file'[Len(file')])
      BY <1>3, HalfFile DEF IsLine
    <2>3. DOMAIN file' = 1 .. Len(file') /\ DOMAIN file = 1 .. Len(file)
      BY <1>3, HalfFile, LenProperties, FileShape DEF LogInv
    <2>4. QED
      BY <2>1, <2>2, <2>3 DEF Once
  <1>4. ASSUME NEW p \in Processes, WriteRest(p)
        PROVE  Once'
    <2>1. /\ pc[p] = "half" /\ lock = p /\ UNCHANGED <<lock, current, queue>> /\ tail = "half"
          /\ \A q \in Processes \ {p} : lock # q
          /\ pc' = [pc EXCEPT ![p] = "bare"]
      BY <1>4 DEF WriteRest, LogInv, OneWriter, Writing, Emitting
    <2>2. CASE file' = file
      BY <2>1, <2>2 DEF Once, LogInv, Typed
    <2>3. CASE file' = [file EXCEPT ![Len(file)] = NewLine(p)]
      <3>1. Len(file) > 0 /\ file \in Seq(Lines \cup {Garbage}) /\ NewLine(p) \in Lines \cup {Garbage}
        BY <2>1, HashType DEF LogInv, Typed, Ending, OneWriter, NewLine
      <3>2. /\ Len(file') = Len(file) /\ file'[Len(file)] = NewLine(p) /\ file' \in Seq(Lines \cup {Garbage})
            /\ \A i \in 1 .. Len(file) : i # Len(file) => file'[i] = file[i]
        BY <2>3, <3>1, Replaced
      <3>3. NewLine(p).event = current[p]
        BY DEF NewLine, SignedEvent
      <3>4. DOMAIN file' = 1 .. Len(file) /\ DOMAIN file = 1 .. Len(file)
        BY <3>1, <3>2, LenProperties
      <3>5. QED
        BY <2>1, <3>2, <3>3, <3>4 DEF Once, LogInv, Typed
    <2>4. QED
      BY <1>4, <2>2, <2>3 DEF WriteRest
  <1>5. ASSUME NEW p \in Processes, WriteNewline(p)
        PROVE  Once'
    BY <1>5 DEF WriteNewline, LogInv, Typed, Once
  <1>6. CASE Verify \/ UNCHANGED vars
    BY <1>6 DEF Verify, VerifyStart, VerifyLine, VerifyEnd, vars, diskVars, Once
  <1>7. QED
    BY <1>1, <1>2, <1>3, <1>4, <1>5, <1>6 DEF Next, Emit, Faults

\* Equal ranges have equal ends.
LEMMA SameRange ==
    ASSUME NEW m \in Nat, NEW n \in Nat, 1 .. m = 1 .. n
    PROVE  m = n
  OBVIOUS

\* The abstract log is a sequence with one event per complete line.
LEMMA LogType == LogInv => Log \in Seq(Events \cup {Garbage}) /\ Len(Log) = Complete
  <1> SUFFICES ASSUME LogInv PROVE Log \in Seq(Events \cup {Garbage}) /\ Len(Log) = Complete
    OBVIOUS
  <1>1. Complete \in Nat /\ Complete <= Len(file) /\ Len(file) \in Nat
    BY FileShape DEF LogInv, Complete, Ending
  <1>2. \A i \in 1 .. Complete : IsLine(file[i]) => file[i].event \in Events
    BY <1>1, FileShape DEF LogInv, Lines
  <1>3. Log \in [1 .. Complete -> Events \cup {Garbage}]
    BY <1>2 DEF Log
  <1> DEFINE log == Log
  <1>4. log \in Seq(Events \cup {Garbage}) /\ DOMAIN log = 1 .. Complete
    BY <1>1, <1>3, SeqDef
  <1> HIDE DEF log
  <1>5. DOMAIN log = 1 .. Len(log) /\ Len(log) \in Nat
    BY <1>4, LenProperties
  <1>6. 1 .. Len(log) = 1 .. Complete
    BY <1>4, <1>5
  <1>7. Len(log) = Complete
    BY ONLY <1>1, <1>5, <1>6, SameRange
  <1>8. QED
    BY <1>4, <1>7 DEF log

\* The same after a step.
LEMMA LogTypeAfter == LogInv' => (Log \in Seq(Events \cup {Garbage}) /\ Len(Log) = Complete)'
  BY LogType, PTL

\* The abstract log changes with the complete lines only.
LEMMA LogSame ==
    ASSUME Complete' = Complete, \A i \in 1 .. Complete : file'[i] = file[i]
    PROVE  Log' = Log
  BY DEF Log

\* The log starts empty.
LEMMA LinearInit == Init => Linear!Init
  <1> SUFFICES ASSUME Init PROVE Linear!Init
    OBVIOUS
  <1>1. Log \in Seq(Events \cup {Garbage}) /\ Len(Log) = 0
    <2>1. Complete = 0
      BY DEF Init, Complete
    <2>2. QED
      BY <2>1, LogInit, LogType
  <1>2. Log = <<>>
    BY <1>1, EmptySeq
  <1>3. acked = {}
    BY DEF Init
  <1>4. QED
    BY <1>2, <1>3 DEF Linear!Init, Log

\* The newline of a line that was not glued appends its event to the log.
LEMMA NewlineAppends ==
    ASSUME LogInv, Once, NEW p \in Processes, WriteNewline(p), ~glued
    PROVE  Linear!Next
  <1>1. /\ lock = p /\ pc[p] = "bare" /\ tail = "bare" /\ Last = NewLine(p) /\ tail' = "clean"
        /\ UNCHANGED <<file, acked>>
    BY DEF WriteNewline, LogInv, OneWriter, Writing, Emitting
  <1>2. current[p] \in Events /\ Last.event = current[p]
    BY <1>1 DEF LogInv, OneWriter, NewLine, SignedEvent
  <1>3. Len(file) \in Nat \ {0} /\ IsLine(Last)
    BY <1>1, FileShape DEF LogInv, Ending, IsLine
  <1>4. Complete = Len(file) - 1 /\ Complete' = Len(file)
    BY <1>1 DEF Complete
  <1>5. \A i \in 1 .. Complete : Log[i] # current[p]
    <2> SUFFICES ASSUME NEW i \in 1 .. Complete PROVE Log[i] # current[p]
      OBVIOUS
    <2>1. i \in DOMAIN file /\ i # Len(file)
      BY <1>3, <1>4, FileShape DEF LogInv
    <2>2. IsLine(file[i]) => file[i].event # current[p]
      BY <1>1, <2>1 DEF Once
    <2>3. QED
      BY <1>2, <2>2, GarbageIsNoLine DEF Log
  <1>6. Log \in Seq(Events \cup {Garbage}) /\ Len(Log) = Complete
    BY LogType
  <1>7. Log' = Append(Log, current[p])
    <2>1. LogInv'
      BY WriteNewlineKeeps
    <2>2. Log' \in Seq(Events \cup {Garbage}) /\ Len(Log') = Complete'
      BY <2>1, LogTypeAfter
    <2> DEFINE new == Append(Log, current[p])
    <2>3. /\ new \in Seq(Events \cup {Garbage}) /\ Len(new) = Complete + 1
          /\ new[Complete + 1] = current[p]
          /\ \A i \in 1 .. Complete : new[i] = Log[i]
      BY <1>2, <1>6, Extended
    <2> HIDE DEF new
    <2>4. \A i \in 1 .. Complete : Log'[i] = Log[i]
      BY <1>1, <1>3, <1>4 DEF Log
    <2>5. Log'[Complete + 1] = current[p]
      BY <1>1, <1>2, <1>3, <1>4 DEF Log, Last
    <2>6. \A i \in 1 .. Len(new) : Log'[i] = new[i]
      BY <1>3, <1>4, <2>3, <2>4, <2>5
    <2>7. Len(Log') = Len(new)
      BY <1>3, <1>4, <2>2, <2>3
    <2>8. Log' = new
      BY <2>2, <2>3, <2>6, <2>7, SeqEqual
    <2>9. QED
      BY <2>8 DEF new
  <1>8. current[p] \notin {Log[i] : i \in DOMAIN Log}
    <2>1. DOMAIN Log = 1 .. Complete
      BY DEF Log
    <2>2. QED
      BY <1>5, <2>1
  <1>9. QED
    BY <1>1, <1>2, <1>7, <1>8 DEF Linear!Next, Linear!Append1, Linear!Logged, Log

\* An emit() that returns finds its event in the log.
LEMMA ReturnAcknowledges ==
    ASSUME LogInv, NEW p \in Processes, Return(p), ~glued
    PROVE  Linear!Acknowledge(current[p]) /\ current[p] \in Events
  <1>1. /\ pc[p] = "written" /\ lock = p /\ tail = "clean" /\ IsLine(Last) /\ Last.event = current[p]
        /\ Len(file) > 0 /\ acked' = acked \cup {current[p]} /\ UNCHANGED diskVars
    BY DEF Return, LogInv, OneWriter, Writing, Emitting
  <1>2. Complete = Len(file) /\ Len(file) \in 1 .. Len(file)
    BY <1>1, FileShape DEF Complete, LogInv
  <1>3. Len(file) \in DOMAIN Log /\ Log[Len(file)] = current[p]
    BY <1>1, <1>2 DEF Log, Last
  <1>4. Log' = Log
    BY <1>1, LogSame DEF Complete, diskVars
  <1>5. current[p] \in Events
    BY <1>1 DEF LogInv, OneWriter
  <1>6. QED
    BY <1>1, <1>3, <1>4, <1>5 DEF Linear!Acknowledge, Linear!Logged, Log

\* Every step is a step of LinearLog or changes nothing of it, while no line was
\* glued to one without a newline.
LEMMA LinearStep ==
    LogInv /\ Once /\ [Next]_vars => [~glued' => [Linear!Next]_(Linear!vars)]_vars
  <1> SUFFICES ASSUME LogInv, Once, Next, ~glued'
               PROVE  [Linear!Next]_(Linear!vars)
    OBVIOUS
  <1>1. ASSUME Log' = Log, acked' = acked
        PROVE  [Linear!Next]_(Linear!vars)
    BY <1>1 DEF Linear!vars, Log
  <1>2. ASSUME NEW p \in Processes, WriteNewline(p)
        PROVE  [Linear!Next]_(Linear!vars)
    <2>1. ~glued
      BY <1>2 DEF WriteNewline
    <2>2. QED
      BY <1>2, <2>1, NewlineAppends
  <1>3. ASSUME NEW p \in Processes, Return(p)
        PROVE  [Linear!Next]_(Linear!vars)
    <2>1. ~glued
      BY <1>3 DEF Return, diskVars
    <2>2. QED
      BY <1>3, <2>1, ReturnAcknowledges DEF Linear!Next
  <1>4. CASE \A p \in Processes : ~WriteNewline(p) /\ ~Return(p)
    <2>1. acked' = acked
      BY <1>4 DEF Next, Emit, Faults, Verify, Acquire, Refused, Restore, RestoreRaises, WriteHalf,
         WriteRest, WriteFails, Die, Start, VerifyStart, VerifyLine, VerifyEnd
    <2>2. Complete' = Complete
      <3>1. ASSUME NEW p \in Processes, WriteHalf(p)
            PROVE  Complete' = Complete
        <4>1. tail = "clean" /\ tail' = "half" /\ Len(file') = Len(file) + 1 /\ Len(file) \in Nat
          BY <3>1, HalfFile, FileShape DEF WriteHalf, LogInv
        <4>2. QED
          BY <4>1 DEF Complete
      <3>2. ASSUME NEW p \in Processes, WriteRest(p)
            PROVE  Complete' = Complete
        <4>1. tail = "half" /\ tail' = "bare"
          BY <3>2 DEF WriteRest, LogInv, Writing
        <4>2. Len(file') = Len(file)
          <5>1. CASE file' = file
            BY <5>1
          <5>2. CASE file' = [file EXCEPT ![Len(file)] = NewLine(p)]
            <6>1. Len(file) > 0 /\ file \in Seq(Lines \cup {Garbage}) /\ NewLine(p) \in Lines \cup {Garbage}
              BY <3>2, <4>1, HashType DEF LogInv, Typed, Ending, OneWriter, Emitting, WriteRest, NewLine
            <6>2. QED
              BY <5>2, <6>1, Replaced
          <5>3. QED
            BY <3>2, <5>1, <5>2 DEF WriteRest
        <4>3. QED
          BY <4>1, <4>2 DEF Complete
      <3>3. CASE \A p \in Processes : ~WriteHalf(p) /\ ~WriteRest(p)
        BY <1>4, <3>3 DEF Next, Emit, Faults, Verify, Acquire, Refused, Restore, RestoreRaises,
           WriteFails, Die, Start, VerifyStart, VerifyLine, VerifyEnd, diskVars, Complete
      <3>4. QED
        BY <3>1, <3>2, <3>3
    <2>3. QED
      BY <1>1, <2>1, <2>2, CompleteGrows, LogSame
  <1>5. QED
    BY <1>2, <1>3, <1>4

\* EventLog implements LinearLog: an event enters the log once, at its end, before
\* its emit() returns, and stays, until a line is glued to one without a newline.
THEOREM LogIsLinear == Spec => LinearSpec
  <1>1. Spec => []Once
    BY OnceInit, OnceStep, LogInvariant, PTL DEF Spec
  <1>2. Spec => [][~glued' => [Linear!Next]_(Linear!vars)]_vars
    BY <1>1, LinearStep, LogInvariant, PTL DEF Spec
  <1>3. QED
    BY <1>2, LinearInit, PTL DEF Spec, LinearSpec
=============================================================================
