------------------------ MODULE OutputBuilderProofs ------------------------
(***************************************************************************)
(* What making and destroying an output leaves behind, wherever build()    *)
(* fails.                                                                  *)
(***************************************************************************)
EXTENDS OutputBuilder, SequenceTheorems, TLAPS

PP == INSTANCE FFmpegOutputProofs

-----------------------------------------------------------------------------
(* The inductive invariant.                                                *)

Objects == {"build", "encoder", "muxer", "scaler"}
Stages == {"scaler", "encoder"}

\* Types, and that an object has only what is its own.
BaseInv ==
  /\ phase \in {"building", "unwinding", "failed", "built"}
  /\ step \in 1 .. 16
  /\ has \in [Objects -> SUBSET Things]
  /\ \A o \in Objects : has[o] \subseteq Frees[o]
  /\ started \subseteq Stages
  /\ file \in {"none", "opened", "header", "complete"}

\* How far build() got, with no frame in the pipeline.  Steps 4 to 7 make the
\* encoder, 8 to 10 the muxer, the others after these the scaler.
BuildingInv ==
  phase = "building" =>
    /\ lost = {} /\ closing = 0 /\ lent = {}
    /\ has["encoder"] = {} <=> step <= 4
    /\ has["muxer"] = {} <=> step <= 8
    /\ has["scaler"] = {} <=> step <= 11
    /\ "encoder" \in started <=> step >= 8
    /\ "scaler" \in started <=> step = 16
    /\ file = IF step <= 9 THEN "none" ELSE IF step = 10 THEN "opened" ELSE "header"

\* What is left to undo after a failure in this step.
FailingInv ==
  phase \in {"unwinding", "failed"} =>
    /\ closing = 0 /\ step <= 15
    /\ lost \subseteq Frees[Steps[step].of]
    /\ IF Steps[step].of = "build" THEN lost = {} ELSE has[Steps[step].of] = {}
    /\ has["scaler"] = {} /\ "scaler" \notin started
    /\ step <= 7 => has["encoder"] = {} /\ "encoder" \notin started
    /\ step >= 8 /\ has["encoder"] = {} => thread["encoder"] = "ended"
    /\ step <= 10 => has["muxer"] = {}
    /\ step <= 7 => file = "none"
    /\ step >= 11 /\ has["muxer"] = {} => file = "complete"
    /\ phase = "failed" => \A o \in Objects : has[o] = {}

\* What is left to undo for the destructor.
BuiltInv ==
  phase = "built" =>
    /\ step = 16 /\ lost = {} /\ has["build"] = {}
    /\ closing >= 2 => has["scaler"] = {} /\ thread["scaler"] = "ended"
    /\ closing >= 3 => has["encoder"] = {} /\ thread["encoder"] = "ended"
    /\ closing = 4 => has["muxer"] = {} /\ file = "complete"

\* The pipeline has its invariant all along: in an output that is still being made,
\* or was not made, the encoder's thread may run, with no frames.
BInv ==
  /\ PP!IInv
  /\ BaseInv
  /\ BuildingInv
  /\ FailingInv
  /\ BuiltInv

-----------------------------------------------------------------------------
(* The steps of build().                                                   *)

\* What a step is.
StepType ==
  [of : Objects, makes : SUBSET Things, leaves : SUBSET Things, starts : BOOLEAN]

\* Sequence s is q followed by r, element by element.
Splits(s, q, r) ==
  /\ Len(s) = Len(q) + Len(r)
  /\ \A i \in 1 .. Len(q) : s[i] = q[i]
  /\ \A i \in 1 .. Len(r) : s[Len(q) + i] = r[i]

\* That is what a concatenation is.
LEMMA Concatenated ==
  ASSUME NEW T, NEW q \in Seq(T), NEW r \in Seq(T)
  PROVE  q \o r \in Seq(T) /\ Splits(q \o r, q, r)
<1>1. Len(q) \in Nat /\ Len(r) \in Nat
  BY LenProperties
<1>2. /\ q \o r \in Seq(T) /\ Len(q \o r) = Len(q) + Len(r)
      /\ \A i \in 1 .. Len(q) + Len(r) :
           (q \o r)[i] = IF i <= Len(q) THEN q[i] ELSE r[i - Len(q)]
  BY ConcatProperties
<1>3. ASSUME NEW i \in 1 .. Len(r) PROVE (q \o r)[Len(q) + i] = r[i]
  <2>1. Len(q) + i \in 1 .. Len(q) + Len(r) /\ ~(Len(q) + i <= Len(q)) /\ (Len(q) + i) - Len(q) = i
    BY <1>1
  <2> QED BY <1>2, <2>1
<1>4. ASSUME NEW i \in 1 .. Len(q) PROVE (q \o r)[i] = q[i]
  <2>1. i \in 1 .. Len(q) + Len(r) /\ i <= Len(q)
    BY <1>1
  <2> QED BY <1>2, <2>1
<1> QED BY <1>2, <1>3, <1>4 DEF Splits

\* A sequence of one, three or four elements.
LEMMA Listed ==
  ASSUME NEW T, NEW w \in T, NEW x \in T, NEW y \in T, NEW z \in T
  PROVE  /\ <<w>> \in Seq(T) /\ Len(<<w>>) = 1 /\ <<w>>[1] = w
         /\ <<w, x, y>> \in Seq(T) /\ Len(<<w, x, y>>) = 3
         /\ <<w, x, y>>[1] = w /\ <<w, x, y>>[2] = x /\ <<w, x, y>>[3] = y
         /\ <<w, x, y, z>> \in Seq(T) /\ Len(<<w, x, y, z>>) = 4
         /\ <<w, x, y, z>>[1] = w /\ <<w, x, y, z>>[2] = x /\ <<w, x, y, z>>[3] = y
         /\ <<w, x, y, z>>[4] = z
OBVIOUS

\* The fifteen steps, one by one.
LEMMA StepsListed ==
  /\ Len(Steps) = 15 /\ Steps \in Seq(StepType)
  /\ Steps[1] = Makes("build", {}, {})
  /\ Steps[2] = Makes("build", {"drmDevice"}, {})
  /\ Steps[3] = Makes("build", {"vaapiDevice"}, {})
  /\ Steps[4] = Makes("encoder", {"packet"}, {"packet"})
  /\ Steps[5] = Makes("encoder", {"framePool"}, {"framePool"})
  /\ Steps[6] = Makes("encoder", {"codec"}, {"codec"})
  /\ Steps[7] = StartsThread("encoder")
  /\ Steps[8] = Makes("muxer", {"format"}, {})
  /\ Steps[9] = Makes("muxer", {"file"}, {})
  /\ Steps[10] = Makes("muxer", {}, {})
  /\ Steps[11] = Makes("scaler", {"graph"}, {"graph"})
  /\ Steps[12] = Makes("scaler", IF IsDrmPrime THEN {"sourcePool"} ELSE {}, {})
  /\ Steps[13] = Makes("scaler", {"uploadDevice"}, {})
  /\ Steps[14] = Makes("scaler", {}, {})
  /\ Steps[15] = StartsThread("scaler")
<1> DEFINE a == << Makes("build", {}, {}), Makes("build", {"drmDevice"}, {}),
                   Makes("build", {"vaapiDevice"}, {}) >>
           b == EncoderSteps
           c == <<StartsThread("encoder")>>
           d == MuxerSteps
           e == ScalerSteps
           f == <<StartsThread("scaler")>>
<1>1. Steps = a \o b \o c \o d \o e \o f
  BY DEF Steps
<1>2. \A o \in Objects, m, l \in SUBSET Things : Makes(o, m, l) \in StepType
  BY DEF Makes, StepType
<1>3. \A o \in Objects : StartsThread(o) \in StepType
  BY DEF StartsThread, StepType
<1>4. /\ Makes("build", {}, {}) \in StepType
      /\ Makes("build", {"drmDevice"}, {}) \in StepType
      /\ Makes("build", {"vaapiDevice"}, {}) \in StepType
  BY <1>2 DEF Objects, Things
<1>5. /\ Makes("encoder", {"packet"}, {"packet"}) \in StepType
      /\ Makes("encoder", {"framePool"}, {"framePool"}) \in StepType
      /\ Makes("encoder", {"codec"}, {"codec"}) \in StepType
      /\ StartsThread("encoder") \in StepType
  BY <1>2, <1>3 DEF Objects, Things
<1>6. /\ Makes("muxer", {"format"}, {}) \in StepType
      /\ Makes("muxer", {"file"}, {}) \in StepType
      /\ Makes("muxer", {}, {}) \in StepType
  BY <1>2 DEF Objects, Things
<1>7. /\ Makes("scaler", {"graph"}, {"graph"}) \in StepType
      /\ Makes("scaler", IF IsDrmPrime THEN {"sourcePool"} ELSE {}, {}) \in StepType
      /\ Makes("scaler", {"uploadDevice"}, {}) \in StepType
      /\ Makes("scaler", {}, {}) \in StepType
      /\ StartsThread("scaler") \in StepType
  BY <1>2, <1>3 DEF Objects, Things
<1>8. /\ a \in Seq(StepType) /\ Len(a) = 3
      /\ a[1] = Makes("build", {}, {}) /\ a[2] = Makes("build", {"drmDevice"}, {})
      /\ a[3] = Makes("build", {"vaapiDevice"}, {})
  BY <1>4, Listed
<1>9. /\ b \in Seq(StepType) /\ Len(b) = 3
      /\ b[1] = Makes("encoder", {"packet"}, {"packet"})
      /\ b[2] = Makes("encoder", {"framePool"}, {"framePool"})
      /\ b[3] = Makes("encoder", {"codec"}, {"codec"})
  BY <1>5, Listed DEF EncoderSteps
<1>10. c \in Seq(StepType) /\ Len(c) = 1 /\ c[1] = StartsThread("encoder")
  BY <1>5, Listed
<1>11. /\ d \in Seq(StepType) /\ Len(d) = 3
       /\ d[1] = Makes("muxer", {"format"}, {}) /\ d[2] = Makes("muxer", {"file"}, {})
       /\ d[3] = Makes("muxer", {}, {})
  BY <1>6, Listed DEF MuxerSteps
<1>12. /\ e \in Seq(StepType) /\ Len(e) = 4
       /\ e[1] = Makes("scaler", {"graph"}, {"graph"})
       /\ e[2] = Makes("scaler", IF IsDrmPrime THEN {"sourcePool"} ELSE {}, {})
       /\ e[3] = Makes("scaler", {"uploadDevice"}, {})
       /\ e[4] = Makes("scaler", {}, {})
  BY <1>7, Listed DEF ScalerSteps
<1>13. f \in Seq(StepType) /\ Len(f) = 1 /\ f[1] = StartsThread("scaler")
  BY <1>7, Listed
<1> HIDE DEF a, b, c, d, e, f
<1> DEFINE ab == a \o b
           abc == ab \o c
           abcd == abc \o d
           abcde == abcd \o e
<1>14. ab \in Seq(StepType) /\ Splits(ab, a, b)
  BY <1>8, <1>9, Concatenated, Zenon
<1>15. abc \in Seq(StepType) /\ Splits(abc, ab, c)
  BY <1>10, <1>14, Concatenated, Zenon
<1>16. abcd \in Seq(StepType) /\ Splits(abcd, abc, d)
  BY <1>11, <1>15, Concatenated, Zenon
<1>17. abcde \in Seq(StepType) /\ Splits(abcde, abcd, e)
  BY <1>12, <1>16, Concatenated, Zenon
<1>18. Steps \in Seq(StepType) /\ Splits(Steps, abcde, f)
  BY <1>1, <1>13, <1>17, Concatenated, Zenon
<1> HIDE DEF ab, abc, abcd, abcde
<1>19. /\ Len(ab) = 6 /\ (\A i \in 1 .. 3 : ab[i] = a[i])
       /\ ab[4] = b[1] /\ ab[5] = b[2] /\ ab[6] = b[3]
  BY <1>8, <1>9, <1>14 DEF Splits
<1>20. Len(abc) = 7 /\ (\A i \in 1 .. 6 : abc[i] = ab[i]) /\ abc[7] = c[1]
  BY <1>10, <1>15, <1>19 DEF Splits
<1>21. /\ Len(abcd) = 10 /\ (\A i \in 1 .. 7 : abcd[i] = abc[i])
       /\ abcd[8] = d[1] /\ abcd[9] = d[2] /\ abcd[10] = d[3]
  BY <1>11, <1>16, <1>20 DEF Splits
<1>22. /\ Len(abcde) = 14 /\ (\A i \in 1 .. 10 : abcde[i] = abcd[i])
       /\ abcde[11] = e[1] /\ abcde[12] = e[2] /\ abcde[13] = e[3] /\ abcde[14] = e[4]
  BY <1>12, <1>17, <1>21 DEF Splits
<1>23. Len(Steps) = 15 /\ (\A i \in 1 .. 14 : Steps[i] = abcde[i]) /\ Steps[15] = f[1]
  BY <1>13, <1>18, <1>22 DEF Splits
<1>24. /\ Steps[1] = a[1] /\ Steps[2] = a[2] /\ Steps[3] = a[3]
       /\ Steps[4] = b[1] /\ Steps[5] = b[2] /\ Steps[6] = b[3] /\ Steps[7] = c[1]
       /\ Steps[8] = d[1] /\ Steps[9] = d[2] /\ Steps[10] = d[3]
       /\ Steps[11] = e[1] /\ Steps[12] = e[2] /\ Steps[13] = e[3] /\ Steps[14] = e[4]
  BY <1>19, <1>20, <1>21, <1>22, <1>23
<1> QED BY <1>8, <1>9, <1>10, <1>11, <1>12, <1>13, <1>18, <1>23, <1>24, Zenon

\* What object o has of a step that makes m and leaves l behind.
LEMMA StepFields ==
  ASSUME NEW o, NEW m, NEW l
  PROVE  /\ Makes(o, m, l).of = o /\ Makes(o, m, l).makes = m /\ Makes(o, m, l).leaves = l
         /\ ~Makes(o, m, l).starts
         /\ StartsThread(o).of = o /\ StartsThread(o).makes = {}
         /\ StartsThread(o).leaves = {} /\ StartsThread(o).starts
BY DEF Makes, StartsThread

\* Which object each step makes, and what of it.
StepFits(i) ==
  /\ Steps[i].of = IF i <= 3 THEN "build" ELSE IF i <= 7 THEN "encoder"
                   ELSE IF i <= 10 THEN "muxer" ELSE "scaler"
  /\ Steps[i].makes \subseteq Frees[Steps[i].of]
  /\ Steps[i].leaves \subseteq Frees[Steps[i].of]
  /\ Steps[i].starts <=> i = 7 \/ i = 15
  /\ "file" \in Steps[i].makes <=> i = 9
  /\ i \in {4, 8, 11} => Steps[i].makes # {}

\* build() has fifteen steps; those that start a thread are the last of the
\* encoder's and of the scaler's constructor.
LEMMA StepsProperties ==
  /\ Len(Steps) = 15 /\ DOMAIN Steps = 1 .. 15
  /\ \A i \in 1 .. 15 : StepFits(i)
<1>1. Len(Steps) = 15 /\ DOMAIN Steps = 1 .. 15
  BY StepsListed, LenProperties
<1>2. /\ Frees["build"] = {"drmDevice", "vaapiDevice"}
      /\ Frees["encoder"] = {"packet", "codec", "framePool"}
      /\ Frees["muxer"] = {"file", "format"}
      /\ Frees["scaler"] = {"uploadDevice", "sourcePool", "graph"}
  BY DEF Frees
<1>3. StepFits(1)
  <2>1. Steps[1] = Makes("build", {}, {})
    BY StepsListed
  <2>2. /\ Steps[1].of = "build" /\ Steps[1].makes = {}
        /\ Steps[1].leaves = {} /\ ~Steps[1].starts
    BY <2>1, StepFields
  <2>3. Steps[1].makes \subseteq Frees[Steps[1].of] /\ Steps[1].leaves \subseteq Frees[Steps[1].of]
    BY <1>2, <2>2
  <2> QED BY <2>2, <2>3 DEF StepFits
<1>4. StepFits(2)
  <2>1. Steps[2] = Makes("build", {"drmDevice"}, {})
    BY StepsListed
  <2>2. /\ Steps[2].of = "build" /\ Steps[2].makes = {"drmDevice"}
        /\ Steps[2].leaves = {} /\ ~Steps[2].starts
    BY <2>1, StepFields
  <2>3. Steps[2].makes \subseteq Frees[Steps[2].of] /\ Steps[2].leaves \subseteq Frees[Steps[2].of]
    BY <1>2, <2>2
  <2> QED BY <2>2, <2>3 DEF StepFits
<1>5. StepFits(3)
  <2>1. Steps[3] = Makes("build", {"vaapiDevice"}, {})
    BY StepsListed
  <2>2. /\ Steps[3].of = "build" /\ Steps[3].makes = {"vaapiDevice"}
        /\ Steps[3].leaves = {} /\ ~Steps[3].starts
    BY <2>1, StepFields
  <2>3. Steps[3].makes \subseteq Frees[Steps[3].of] /\ Steps[3].leaves \subseteq Frees[Steps[3].of]
    BY <1>2, <2>2
  <2> QED BY <2>2, <2>3 DEF StepFits
<1>6. StepFits(4)
  <2>1. Steps[4] = Makes("encoder", {"packet"}, {"packet"})
    BY StepsListed
  <2>2. /\ Steps[4].of = "encoder" /\ Steps[4].makes = {"packet"}
        /\ Steps[4].leaves = {"packet"} /\ ~Steps[4].starts
    BY <2>1, StepFields
  <2>3. Steps[4].makes \subseteq Frees[Steps[4].of] /\ Steps[4].leaves \subseteq Frees[Steps[4].of]
    BY <1>2, <2>2
  <2> QED BY <2>2, <2>3 DEF StepFits
<1>7. StepFits(5)
  <2>1. Steps[5] = Makes("encoder", {"framePool"}, {"framePool"})
    BY StepsListed
  <2>2. /\ Steps[5].of = "encoder" /\ Steps[5].makes = {"framePool"}
        /\ Steps[5].leaves = {"framePool"} /\ ~Steps[5].starts
    BY <2>1, StepFields
  <2>3. Steps[5].makes \subseteq Frees[Steps[5].of] /\ Steps[5].leaves \subseteq Frees[Steps[5].of]
    BY <1>2, <2>2
  <2> QED BY <2>2, <2>3 DEF StepFits
<1>8. StepFits(6)
  <2>1. Steps[6] = Makes("encoder", {"codec"}, {"codec"})
    BY StepsListed
  <2>2. /\ Steps[6].of = "encoder" /\ Steps[6].makes = {"codec"}
        /\ Steps[6].leaves = {"codec"} /\ ~Steps[6].starts
    BY <2>1, StepFields
  <2>3. Steps[6].makes \subseteq Frees[Steps[6].of] /\ Steps[6].leaves \subseteq Frees[Steps[6].of]
    BY <1>2, <2>2
  <2> QED BY <2>2, <2>3 DEF StepFits
<1>9. StepFits(7)
  <2>1. Steps[7] = StartsThread("encoder")
    BY StepsListed
  <2>2. /\ Steps[7].of = "encoder" /\ Steps[7].makes = {}
        /\ Steps[7].leaves = {} /\ Steps[7].starts
    BY <2>1, StepFields
  <2>3. Steps[7].makes \subseteq Frees[Steps[7].of] /\ Steps[7].leaves \subseteq Frees[Steps[7].of]
    BY <1>2, <2>2
  <2> QED BY <2>2, <2>3 DEF StepFits
<1>10. StepFits(8)
  <2>1. Steps[8] = Makes("muxer", {"format"}, {})
    BY StepsListed
  <2>2. /\ Steps[8].of = "muxer" /\ Steps[8].makes = {"format"}
        /\ Steps[8].leaves = {} /\ ~Steps[8].starts
    BY <2>1, StepFields
  <2>3. Steps[8].makes \subseteq Frees[Steps[8].of] /\ Steps[8].leaves \subseteq Frees[Steps[8].of]
    BY <1>2, <2>2
  <2> QED BY <2>2, <2>3 DEF StepFits
<1>11. StepFits(9)
  <2>1. Steps[9] = Makes("muxer", {"file"}, {})
    BY StepsListed
  <2>2. /\ Steps[9].of = "muxer" /\ Steps[9].makes = {"file"}
        /\ Steps[9].leaves = {} /\ ~Steps[9].starts
    BY <2>1, StepFields
  <2>3. Steps[9].makes \subseteq Frees[Steps[9].of] /\ Steps[9].leaves \subseteq Frees[Steps[9].of]
    BY <1>2, <2>2
  <2> QED BY <2>2, <2>3 DEF StepFits
<1>12. StepFits(10)
  <2>1. Steps[10] = Makes("muxer", {}, {})
    BY StepsListed
  <2>2. /\ Steps[10].of = "muxer" /\ Steps[10].makes = {}
        /\ Steps[10].leaves = {} /\ ~Steps[10].starts
    BY <2>1, StepFields
  <2>3. Steps[10].makes \subseteq Frees[Steps[10].of] /\ Steps[10].leaves \subseteq Frees[Steps[10].of]
    BY <1>2, <2>2
  <2> QED BY <2>2, <2>3 DEF StepFits
<1>13. StepFits(11)
  <2>1. Steps[11] = Makes("scaler", {"graph"}, {"graph"})
    BY StepsListed
  <2>2. /\ Steps[11].of = "scaler" /\ Steps[11].makes = {"graph"}
        /\ Steps[11].leaves = {"graph"} /\ ~Steps[11].starts
    BY <2>1, StepFields
  <2>3. Steps[11].makes \subseteq Frees[Steps[11].of] /\ Steps[11].leaves \subseteq Frees[Steps[11].of]
    BY <1>2, <2>2
  <2> QED BY <2>2, <2>3 DEF StepFits
<1>14. StepFits(12)
  <2>1. Steps[12] = Makes("scaler", IF IsDrmPrime THEN {"sourcePool"} ELSE {}, {})
    BY StepsListed
  <2>2. /\ Steps[12].of = "scaler" /\ Steps[12].makes = (IF IsDrmPrime THEN {"sourcePool"} ELSE {})
        /\ Steps[12].leaves = {} /\ ~Steps[12].starts
    BY <2>1, StepFields
  <2>3. Steps[12].makes \subseteq Frees[Steps[12].of] /\ Steps[12].leaves \subseteq Frees[Steps[12].of]
    BY <1>2, <2>2
  <2> QED BY <2>2, <2>3 DEF StepFits
<1>15. StepFits(13)
  <2>1. Steps[13] = Makes("scaler", {"uploadDevice"}, {})
    BY StepsListed
  <2>2. /\ Steps[13].of = "scaler" /\ Steps[13].makes = {"uploadDevice"}
        /\ Steps[13].leaves = {} /\ ~Steps[13].starts
    BY <2>1, StepFields
  <2>3. Steps[13].makes \subseteq Frees[Steps[13].of] /\ Steps[13].leaves \subseteq Frees[Steps[13].of]
    BY <1>2, <2>2
  <2> QED BY <2>2, <2>3 DEF StepFits
<1>16. StepFits(14)
  <2>1. Steps[14] = Makes("scaler", {}, {})
    BY StepsListed
  <2>2. /\ Steps[14].of = "scaler" /\ Steps[14].makes = {}
        /\ Steps[14].leaves = {} /\ ~Steps[14].starts
    BY <2>1, StepFields
  <2>3. Steps[14].makes \subseteq Frees[Steps[14].of] /\ Steps[14].leaves \subseteq Frees[Steps[14].of]
    BY <1>2, <2>2
  <2> QED BY <2>2, <2>3 DEF StepFits
<1>17. StepFits(15)
  <2>1. Steps[15] = StartsThread("scaler")
    BY StepsListed
  <2>2. /\ Steps[15].of = "scaler" /\ Steps[15].makes = {}
        /\ Steps[15].leaves = {} /\ Steps[15].starts
    BY <2>1, StepFields
  <2>3. Steps[15].makes \subseteq Frees[Steps[15].of] /\ Steps[15].leaves \subseteq Frees[Steps[15].of]
    BY <1>2, <2>2
  <2> QED BY <2>2, <2>3 DEF StepFits
<1> QED BY <1>1, <1>3, <1>4, <1>5, <1>6, <1>7, <1>8, <1>9, <1>10, <1>11, <1>12, <1>13, <1>14, <1>15, <1>16, <1>17

-----------------------------------------------------------------------------
(* The pipeline of an output, and that of FFmpegOutputProofs, are the same *)
(* definitions under two names.                                            *)

\* The actions of a stage's thread.
LEMMA SameThread == \A s : Pipeline!StageThread(s) <=> PP!StageThread(s)
<1> USE DEF Pipeline!Goto, PP!Goto, Pipeline!outputVars, PP!outputVars
<1>1. \A s : /\ Pipeline!Dequeue(s) <=> PP!Dequeue(s)
             /\ Pipeline!DequeueEnd(s) <=> PP!DequeueEnd(s)
  BY DEF Pipeline!Dequeue, PP!Dequeue, Pipeline!DequeueEnd, PP!DequeueEnd
<1>2. \A s : /\ Pipeline!Add(s) <=> PP!Add(s)
             /\ Pipeline!AddFails(s) <=> PP!AddFails(s)
  BY DEF Pipeline!Add, PP!Add, Pipeline!AddFails, PP!AddFails, Pipeline!BuffersOf, PP!BuffersOf
<1>3. \A s : /\ Pipeline!ExtractNothing(s) <=> PP!ExtractNothing(s)
             /\ Pipeline!ExtractFails(s) <=> PP!ExtractFails(s)
             /\ Pipeline!Catch(s) <=> PP!Catch(s)
  BY DEF Pipeline!ExtractNothing, PP!ExtractNothing, Pipeline!ExtractFails, PP!ExtractFails,
         Pipeline!Catch, PP!Catch
<1>4. \A s : Pipeline!Extract(s) <=> PP!Extract(s)
  BY DEF Pipeline!Extract, PP!Extract
<1>5. /\ Pipeline!ScalingDone <=> PP!ScalingDone
      /\ Pipeline!ScalingDoneThrows <=> PP!ScalingDoneThrows
  BY <1>4 DEF Pipeline!ScalingDone, PP!ScalingDone, Pipeline!ScalingDoneThrows,
     PP!ScalingDoneThrows, Pipeline!EncoderAccepts, PP!EncoderAccepts, Pipeline!Enqueue,
     PP!Enqueue, Pipeline!Scaled, PP!Scaled
<1>6. /\ Pipeline!WritePacket <=> PP!WritePacket
      /\ Pipeline!WritePacketThrows <=> PP!WritePacketThrows
  BY <1>4 DEF Pipeline!WritePacket, PP!WritePacket, Pipeline!WritePacketThrows,
     PP!WritePacketThrows, Pipeline!Rescaled, PP!Rescaled,
     Pipeline!CodecTimeBase, PP!CodecTimeBase
<1> QED BY <1>1, <1>2, <1>3, <1>5, <1>6 DEF Pipeline!StageThread, PP!StageThread

\* Those of the caller and the destructor.
LEMMA SameCaller ==
  /\ Pipeline!Caller <=> PP!Caller
  /\ Pipeline!DestroyBegin <=> PP!DestroyBegin
  /\ Pipeline!Destroy <=> PP!Destroy
  /\ Pipeline!DestructionOrder = PP!DestructionOrder
  /\ Pipeline!Destroyed <=> PP!Destroyed
<1> USE DEF Pipeline!stageVars, PP!stageVars, Pipeline!outputVars, PP!outputVars,
            Pipeline!BuffersOf, PP!BuffersOf
<1>1. Pipeline!DestructionOrder = PP!DestructionOrder
  BY DEF Pipeline!DestructionOrder, PP!DestructionOrder
<1>2. Pipeline!Destroyed <=> PP!Destroyed
  BY <1>1 DEF Pipeline!Destroyed, PP!Destroyed
<1>3. \A m : Pipeline!Destroying(m) <=> PP!Destroying(m)
  BY <1>1 DEF Pipeline!Destroying, PP!Destroying
<1>4. Pipeline!Frames = PP!Frames
  BY DEF Pipeline!Frames, PP!Frames, Pipeline!Wrapped, PP!Wrapped
<1>5. \A f : Pipeline!PushFrame(f) <=> PP!PushFrame(f)
  BY DEF Pipeline!PushFrame, PP!PushFrame, Pipeline!Accepted, PP!Accepted, Pipeline!KeepPts,
         PP!KeepPts, Pipeline!Enqueue, PP!Enqueue
<1>6. \A f : Pipeline!PushFrameThrows(f) <=> PP!PushFrameThrows(f)
  BY DEF Pipeline!PushFrameThrows, PP!PushFrameThrows, Pipeline!Accepted, PP!Accepted,
         Pipeline!KeepPts, PP!KeepPts
<1>7. Pipeline!Caller <=> PP!Caller
  BY <1>4, <1>5, <1>6 DEF Pipeline!Caller, PP!Caller
<1>8. Pipeline!DestroyBegin <=> PP!DestroyBegin
  BY DEF Pipeline!DestroyBegin, PP!DestroyBegin
<1>9. \A s : /\ Pipeline!SignalEOF(s) <=> PP!SignalEOF(s)
             /\ Pipeline!DestroyStage(s) <=> PP!DestroyStage(s)
  BY <1>3 DEF Pipeline!SignalEOF, PP!SignalEOF, Pipeline!DestroyStage, PP!DestroyStage,
     Pipeline!Join, PP!Join
<1>10. Pipeline!DestroyMuxer <=> PP!DestroyMuxer
  BY <1>3 DEF Pipeline!DestroyMuxer, PP!DestroyMuxer
<1>11. Pipeline!Destroy <=> PP!Destroy
  BY <1>9, <1>10 DEF Pipeline!Destroy, PP!Destroy, Pipeline!Stages, PP!Stages
<1> QED BY <1>1, <1>2, <1>7, <1>8, <1>11

\* So are those of finite sets.
LEMMA SameCardinality ==
  /\ PP!IsFiniteSet(Buffers) <=> IsFiniteSet(Buffers)
  /\ PP!Cardinality(Buffers) = Cardinality(Buffers)
<1>1. PP!IsFiniteSet(Buffers) <=> IsFiniteSet(Buffers)
  BY DEF PP!IsFiniteSet, IsFiniteSet
<1>2. PP!Cardinality(Buffers) = Cardinality(Buffers)
  BY DEF PP!Cardinality, Cardinality
<1> QED BY <1>1, <1>2

\* The initial states, and the stages.
LEMMA SamePipeline ==
  /\ Pipeline!Init <=> PP!Init
  /\ Pipeline!Stages = Stages /\ PP!Stages = Stages
BY DEF Pipeline!Init, PP!Init, Pipeline!Stages, PP!Stages, Stages

-----------------------------------------------------------------------------
(* What happens to the pipeline.                                           *)

\* The types of its variables that this proof is about.
LEMMA PipelineTypes ==
  ASSUME PP!IInv
  PROVE  closing \in 0 .. 4 /\ eof \in [Stages -> BOOLEAN]
<1>1. PP!ControlTyped
  BY PP!TypeParts, BuilderAssumption, SameCardinality DEF PP!IInv, PP!Stages
<1> QED BY <1>1, SamePipeline DEF PP!ControlTyped

\* It keeps its invariant while it does nothing, or what a pipeline does.
LEMMA PipelineKept ==
  ASSUME PP!IInv,
         \/ UNCHANGED pipelineVars
         \/ \E s \in Stages : Pipeline!StageThread(s)
         \/ Pipeline!Caller
         \/ Pipeline!DestroyBegin
         \/ Pipeline!Destroy
  PROVE  PP!IInv'
<1>1. PP!Next \/ UNCHANGED PP!vars
  BY SameThread, SameCaller, SamePipeline DEF PP!Next, PP!vars, pipelineVars
<1> QED BY <1>1, PP!InvNext, BuilderAssumption, SameCardinality DEF PP!Stages

\* A step of a thread is one of a thread that has not ended, and the only one to
\* change where that thread is.
LEMMA ThreadFacts ==
  ASSUME PP!IInv, NEW s \in Stages, Pipeline!StageThread(s)
  PROVE  /\ thread[s] # "ended" /\ closing' = closing /\ lent' \subseteq lent
         /\ \A t \in Stages : t # s => thread'[t] = thread[t]
<1>1. PP!TypeOK /\ PP!ShapeInv /\ PP!StageThread(s) /\ s \in PP!Stages
  BY SameThread, SamePipeline DEF PP!IInv
<1>2. lent' \subseteq lent
  BY <1>1, Zenon DEF PP!StageThread, PP!Dequeue, PP!DequeueEnd, PP!Add, PP!AddFails,
     PP!ExtractNothing, PP!ExtractFails, PP!Extract, PP!ScalingDone, PP!ScalingDoneThrows,
     PP!WritePacket, PP!WritePacketThrows, PP!Catch
<1> QED BY <1>2, <1>1, PP!ThreadSteps, BuilderAssumption, SameCardinality DEF PP!Stages, Stages

\* Signalling the end of the encoder's queue keeps the invariant too.
LEMMA SignalKeeps ==
  ASSUME PP!IInv, UnwindEncoderSignal
  PROVE  PP!IInv'
<1>1. /\ eof' = [eof EXCEPT !["encoder"] = TRUE]
      /\ UNCHANGED <<queue, thread, cur, inner, exc, lent, lastPts, written, threw, closing>>
  BY DEF UnwindEncoderSignal, Signalled
<1>2. eof' \in [PP!Stages -> BOOLEAN]
  BY <1>1, PipelineTypes, SamePipeline DEF Stages
<1>3. PP!TypeOK'
  BY <1>1, <1>2 DEF PP!IInv, PP!TypeOK
<1>4. PP!ShapeInv' /\ PP!LentInv' /\ PP!LengthInv' /\ PP!DestructionInv'
  BY <1>1 DEF PP!IInv, PP!ShapeInv, PP!OfStages, PP!LentInv, PP!LengthInv, PP!DestructionInv,
     PP!All, PP!Elems, PP!BuffersIn
<1>5. PP!OrderInv'
  BY <1>1 DEF PP!IInv, PP!OrderInv, PP!StageOrdered, PP!Ordered, PP!All, PP!Elems, PP!Before,
     PP!Chain
<1> QED BY <1>3, <1>4, <1>5 DEF PP!IInv

-----------------------------------------------------------------------------
(* build()                                                                 *)

\* The initial states satisfy the invariant.
LEMMA InvInit == Init => BInv
<1> SUFFICES ASSUME Init PROVE BInv
  OBVIOUS
<1>1. PP!IInv
  BY PP!InvInit, SamePipeline, BuilderAssumption, SameCardinality DEF Init, PP!Stages
<1>2. BaseInv
  BY DEF Init, BaseInv, Objects
<1>3. closing = 0 /\ lent = {}
  BY DEF Init, Pipeline!Init
<1>4. BuildingInv
  BY <1>3 DEF Init, BuildingInv
<1>5. FailingInv /\ BuiltInv
  BY DEF Init, FailingInv, BuiltInv
<1> QED BY <1>1, <1>2, <1>4, <1>5 DEF BInv

\* A step of build() adds to what the object that it makes has.
LEMMA BuildStepKeeps ==
  ASSUME BInv, BuildStep
  PROVE  BInv'
<1> DEFINE s == Steps[step]
           o == Steps[step].of
<1>1. /\ phase = "building" /\ step \in 1 .. 15 /\ step' = step + 1 /\ phase' = phase
      /\ lost' = lost /\ UNCHANGED pipelineVars
      /\ has' = [has EXCEPT ![o] = @ \cup s.makes]
      /\ started' = IF s.starts THEN started \cup {o} ELSE started
      /\ file' = IF "file" \in s.makes THEN "opened"
                 ELSE IF file = "opened" THEN "header" ELSE file
  BY StepsProperties DEF BuildStep
<1>2. /\ o = IF step <= 3 THEN "build" ELSE IF step <= 7 THEN "encoder"
             ELSE IF step <= 10 THEN "muxer" ELSE "scaler"
      /\ s.makes \subseteq Frees[o]
      /\ s.starts <=> step = 7 \/ step = 15
      /\ "file" \in s.makes <=> step = 9
      /\ step \in {4, 8, 11} => s.makes # {}
  BY <1>1, StepsProperties DEF StepFits
<1> HIDE DEF s, o
<1>3. BaseInv /\ o \in Objects
  BY <1>2 DEF BInv, Objects
<1>4. /\ has'[o] = has[o] \cup s.makes
      /\ \A p \in Objects : p # o => has'[p] = has[p]
  BY <1>1, <1>3 DEF BaseInv
<1>5. \A p \in Objects : Frees[p] \subseteq Things
  BY DEF Frees, Things, Objects
<1>6. PP!IInv'
  BY <1>1, PipelineKept DEF BInv
<1>7. BaseInv'
  <2>1. has' \in [Objects -> SUBSET Things]
    BY <1>1, <1>2, <1>3, <1>5 DEF BaseInv
  <2>2. \A p \in Objects : has'[p] \subseteq Frees[p]
    BY <1>2, <1>3, <1>4 DEF BaseInv
  <2>3. started' \subseteq Stages
    <3>1. s.starts => o \in Stages
      BY <1>1, <1>2 DEF Stages
    <3> QED BY <1>1, <1>3, <3>1 DEF BaseInv
  <2> QED BY <1>1, <1>3, <2>1, <2>2, <2>3 DEF BaseInv
<1>8. BuildingInv'
  <2>1. /\ lost = {} /\ closing = 0 /\ lent = {}
        /\ has["encoder"] = {} <=> step <= 4
        /\ has["muxer"] = {} <=> step <= 8
        /\ has["scaler"] = {} <=> step <= 11
        /\ "encoder" \in started <=> step >= 8
        /\ "scaler" \in started <=> step = 16
        /\ file = IF step <= 9 THEN "none" ELSE IF step = 10 THEN "opened" ELSE "header"
    BY <1>1 DEF BInv, BuildingInv
  <2>2. closing' = closing /\ lent' = lent
    BY <1>1 DEF pipelineVars
  <2>3. has'["encoder"] = {} <=> step' <= 4
    BY <1>1, <1>2, <1>4, <2>1 DEF Objects
  <2>4. has'["muxer"] = {} <=> step' <= 8
    BY <1>1, <1>2, <1>4, <2>1 DEF Objects
  <2>5. has'["scaler"] = {} <=> step' <= 11
    BY <1>1, <1>2, <1>4, <2>1 DEF Objects
  <2>6. "encoder" \in started' <=> step' >= 8
    BY <1>1, <1>2, <2>1
  <2>7. "scaler" \in started' <=> step' = 16
    BY <1>1, <1>2, <2>1
  <2>8. file' = IF step' <= 9 THEN "none" ELSE IF step' = 10 THEN "opened" ELSE "header"
    BY <1>1, <1>2, <2>1
  <2> QED BY <1>1, <2>1, <2>2, <2>3, <2>4, <2>5, <2>6, <2>7, <2>8 DEF BuildingInv
<1>9. FailingInv' /\ BuiltInv'
  BY <1>1 DEF FailingInv, BuiltInv
<1> QED BY <1>6, <1>7, <1>8, <1>9 DEF BInv

\* build() returns: the devices are only held by the objects that use them.
LEMMA BuiltKeeps ==
  ASSUME BInv, Built
  PROVE  BInv'
<1>1. /\ phase = "building" /\ step = 16 /\ phase' = "built"
      /\ has' = [has EXCEPT !["build"] = @ \ Frees["build"]]
      /\ UNCHANGED <<pipelineVars, step, lost, started, file>>
  BY StepsProperties DEF Built, BInv, BaseInv
<1>2. PP!IInv'
  BY <1>1, PipelineKept DEF BInv
<1>3. has'["build"] = {} /\ \A p \in Objects : p # "build" => has'[p] = has[p]
  BY <1>1 DEF BInv, BaseInv, Objects
<1>4. BaseInv'
  BY <1>1, <1>3 DEF BInv, BaseInv
<1>5. closing' = 0 /\ lost' = {}
  BY <1>1 DEF BInv, BuildingInv, pipelineVars
<1>6. BuiltInv'
  BY <1>1, <1>3, <1>5 DEF BuiltInv
<1> QED BY <1>1, <1>2, <1>4, <1>6 DEF BInv, BuildingInv, FailingInv

\* A step of build() fails: the object that it makes is gone, and what it had is
\* lost, unless only its thread was still to be started.
LEMMA BuildStepFailsKeeps ==
  ASSUME BInv, BuildStepFails
  PROVE  BInv'
<1> DEFINE s == Steps[step]
           o == Steps[step].of
<1>1. /\ phase = "building" /\ step \in 1 .. 15 /\ phase' = "unwinding"
      /\ UNCHANGED <<pipelineVars, step, started, file>>
      /\ IF o = "build" THEN UNCHANGED <<has, lost>>
         ELSE /\ has' = [has EXCEPT ![o] = {}]
              /\ lost' = IF s.starts THEN lost ELSE has[o] \cup s.leaves
  BY StepsProperties DEF BuildStepFails, Remains
<1>2. /\ o = IF step <= 3 THEN "build" ELSE IF step <= 7 THEN "encoder"
             ELSE IF step <= 10 THEN "muxer" ELSE "scaler"
      /\ s.leaves \subseteq Frees[o]
      /\ o' = o
  BY <1>1, StepsProperties DEF StepFits
<1> HIDE DEF s
<1>3. BaseInv /\ o \in Objects
  BY <1>2 DEF BInv, Objects
<1>4. /\ o # "build" => has'[o] = {}
      /\ \A p \in Objects : p # o => has'[p] = has[p]
      /\ \A p \in Objects : has'[p] \subseteq has[p]
      /\ has' \in [Objects -> SUBSET Things]
  <2>1. CASE o = "build"
    BY <1>1, <1>3, <2>1 DEF BaseInv
  <2>2. CASE o # "build"
    BY <1>1, <1>3, <2>2 DEF BaseInv
  <2> QED BY <2>1, <2>2
<1>5. PP!IInv'
  BY <1>1, PipelineKept DEF BInv
<1>6. BaseInv'
  BY <1>1, <1>3, <1>4 DEF BaseInv
<1>7. FailingInv'
  <2>1. /\ lost = {} /\ closing = 0 /\ lent = {}
        /\ has["encoder"] = {} <=> step <= 4
        /\ has["muxer"] = {} <=> step <= 8
        /\ has["scaler"] = {} <=> step <= 11
        /\ "encoder" \in started <=> step >= 8
        /\ "scaler" \in started <=> step = 16
        /\ file = IF step <= 9 THEN "none" ELSE IF step = 10 THEN "opened" ELSE "header"
    BY <1>1 DEF BInv, BuildingInv
  <2>2. closing' = closing
    BY <1>1 DEF pipelineVars
  <2>3. lost' \subseteq Frees[o]
    BY <1>1, <1>2, <1>3, <2>1 DEF BaseInv
  <2>4. IF o = "build" THEN lost' = {} ELSE has'[o] = {}
    BY <1>1, <1>4, <2>1
  <2>5. has'["scaler"] = {} /\ "scaler" \notin started'
    <3>1. o = "scaler" \/ step <= 11
      BY <1>1, <1>2
    <3> QED BY <1>1, <1>4, <2>1, <3>1 DEF Objects
  <2>6. step <= 7 => has'["encoder"] = {} /\ "encoder" \notin started'
    <3>1. step <= 7 => o = "encoder" \/ step <= 4
      BY <1>1, <1>2
    <3> QED BY <1>1, <1>4, <2>1, <3>1 DEF Objects
  <2>7. step >= 8 => has'["encoder"] # {}
    BY <1>1, <1>2, <1>4, <2>1 DEF Objects
  <2>8. step <= 10 => has'["muxer"] = {}
    <3>1. step <= 10 => o = "muxer" \/ step <= 8
      BY <1>1, <1>2
    <3> QED BY <1>1, <1>4, <2>1, <3>1 DEF Objects
  <2>9. step >= 11 => has'["muxer"] # {}
    BY <1>1, <1>2, <1>4, <2>1 DEF Objects
  <2>10. step <= 7 => file' = "none"
    BY <1>1, <2>1
  <2> HIDE DEF o
  <2>11. Steps[step'].of = o
    BY <1>1 DEF o
  <2> QED BY <1>1, <2>1, <2>2, <2>3, <2>4, <2>5, <2>6, <2>7, <2>8, <2>9, <2>10, <2>11
          DEF FailingInv
<1> QED BY <1>1, <1>5, <1>6, <1>7 DEF BInv, BuildingInv, BuiltInv

-----------------------------------------------------------------------------
(* The end of a build() that failed.                                       *)

\* An object that gives up what it frees has nothing left, and the others are left
\* alone.
LEMMA GivesUp ==
  ASSUME BaseInv, NEW o \in Objects, has' = [has EXCEPT ![o] = @ \ Frees[o]]
  PROVE  /\ has' \in [Objects -> SUBSET Things] /\ has'[o] = {}
         /\ \A p \in Objects : p # o => has'[p] = has[p]
         /\ \A p \in Objects : has'[p] \subseteq Frees[p] /\ (has[p] = {} => has'[p] = {})
BY DEF BaseInv

\* The muxer is destroyed: the output was opened, and its header written.
LEMMA UnwindMuxerKeeps ==
  ASSUME BInv, UnwindMuxer
  PROVE  BInv'
<1>1. /\ phase = "unwinding" /\ has["muxer"] # {} /\ file' = "complete"
      /\ has' = [has EXCEPT !["muxer"] = @ \ Frees["muxer"]]
      /\ UNCHANGED <<pipelineVars, phase, step, lost, started>>
  BY DEF UnwindMuxer, Completed
<1>2. BaseInv /\ FailingInv /\ "muxer" \in Objects
  BY DEF BInv, Objects
<1>3. PP!IInv'
  BY <1>1, PipelineKept DEF BInv
<1>4. /\ has' \in [Objects -> SUBSET Things] /\ has'["muxer"] = {}
      /\ \A p \in Objects : p # "muxer" => has'[p] = has[p]
      /\ \A p \in Objects : has'[p] \subseteq Frees[p] /\ (has[p] = {} => has'[p] = {})
  BY <1>1, <1>2, GivesUp
<1>5. BaseInv'
  BY <1>1, <1>2, <1>4 DEF BaseInv
<1>6. FailingInv'
  <2>1. step >= 11 /\ step \in 1 .. 15 /\ Steps[step'] = Steps[step] /\ Steps[step].of \in Objects
    BY <1>1, <1>2, StepsProperties DEF FailingInv, BaseInv, StepFits, Objects
  <2>2. thread' = thread /\ closing' = closing
    BY <1>1 DEF pipelineVars
  <2> QED BY <1>1, <1>2, <1>4, <2>1, <2>2 DEF FailingInv, Objects
<1> QED BY <1>1, <1>3, <1>5, <1>6 DEF BInv, BuildingInv, BuiltInv

\* The destructor of the encoder tells its thread to end.
LEMMA UnwindEncoderSignalKeeps ==
  ASSUME BInv, UnwindEncoderSignal
  PROVE  BInv'
<1>1. PP!IInv'
  BY SignalKeeps DEF BInv
<1>2. UNCHANGED <<phase, step, has, lost, started, file, thread, closing, lent>>
  BY DEF UnwindEncoderSignal, buildVars
<1> QED BY <1>1, <1>2 DEF BInv, BaseInv, BuildingInv, FailingInv, BuiltInv

\* It frees what the encoder has after the thread has ended.
LEMMA UnwindEncoderKeeps ==
  ASSUME BInv, UnwindEncoder
  PROVE  BInv'
<1>1. /\ phase = "unwinding" /\ thread["encoder"] = "ended"
      /\ has' = [has EXCEPT !["encoder"] = @ \ Frees["encoder"]]
      /\ UNCHANGED <<pipelineVars, phase, step, lost, started, file>>
  BY DEF UnwindEncoder, EncoderJoined
<1>2. BaseInv /\ FailingInv /\ "encoder" \in Objects
  BY DEF BInv, Objects
<1>3. PP!IInv'
  BY <1>1, PipelineKept DEF BInv
<1>4. /\ has' \in [Objects -> SUBSET Things] /\ has'["encoder"] = {}
      /\ \A p \in Objects : p # "encoder" => has'[p] = has[p]
      /\ \A p \in Objects : has'[p] \subseteq Frees[p] /\ (has[p] = {} => has'[p] = {})
  BY <1>1, <1>2, GivesUp
<1>5. BaseInv'
  BY <1>1, <1>2, <1>4 DEF BaseInv
<1>6. FailingInv'
  <2>1. step \in 1 .. 15 /\ Steps[step'] = Steps[step] /\ Steps[step].of \in Objects
    BY <1>1, <1>2, StepsProperties DEF FailingInv, BaseInv, StepFits, Objects
  <2>2. thread' = thread /\ closing' = closing
    BY <1>1 DEF pipelineVars
  <2> QED BY <1>1, <1>2, <1>4, <2>1, <2>2 DEF FailingInv, Objects
<1> QED BY <1>1, <1>3, <1>5, <1>6 DEF BInv, BuildingInv, BuiltInv

\* build() rethrows when nothing is left.
LEMMA RethrowKeeps ==
  ASSUME BInv, Rethrow
  PROVE  BInv'
<1>1. /\ phase = "unwinding" /\ has["encoder"] = {} /\ has["muxer"] = {} /\ phase' = "failed"
      /\ has' = [has EXCEPT !["build"] = @ \ Frees["build"]]
      /\ UNCHANGED <<pipelineVars, step, lost, started, file>>
  BY DEF Rethrow
<1>2. BaseInv /\ FailingInv /\ "build" \in Objects
  BY DEF BInv, Objects
<1>3. PP!IInv'
  BY <1>1, PipelineKept DEF BInv
<1>4. /\ has' \in [Objects -> SUBSET Things] /\ has'["build"] = {}
      /\ \A p \in Objects : p # "build" => has'[p] = has[p]
      /\ \A p \in Objects : has'[p] \subseteq Frees[p] /\ (has[p] = {} => has'[p] = {})
  BY <1>1, <1>2, GivesUp
<1>5. BaseInv'
  BY <1>1, <1>2, <1>4 DEF BaseInv
<1>6. FailingInv'
  <2>1. step \in 1 .. 15 /\ Steps[step'] = Steps[step] /\ Steps[step].of \in Objects
    BY <1>1, <1>2, StepsProperties DEF FailingInv, BaseInv, StepFits, Objects
  <2>2. thread' = thread /\ closing' = closing
    BY <1>1 DEF pipelineVars
  <2>3. \A p \in Objects : has'[p] = {}
    BY <1>1, <1>2, <1>4 DEF FailingInv, Objects
  <2> QED BY <1>1, <1>2, <1>4, <2>1, <2>2, <2>3 DEF FailingInv, Objects
<1> QED BY <1>1, <1>3, <1>5, <1>6 DEF BInv, BuildingInv, BuiltInv

-----------------------------------------------------------------------------
(* The output in use, and its destructor.                                  *)

\* A thread that was joined, in the destructor or because build() failed, does
\* nothing any more.
LEMMA StageThreadKeeps ==
  ASSUME BInv, NEW s \in Stages, StageThread(s)
  PROVE  BInv'
<1>1. /\ Pipeline!StageThread(s)
      /\ UNCHANGED <<phase, step, has, lost, started, file>>
  BY DEF StageThread, buildVars
<1>2. /\ thread[s] # "ended" /\ closing' = closing /\ lent' \subseteq lent
      /\ \A t \in Stages : t # s => thread'[t] = thread[t]
      /\ PP!IInv'
  BY <1>1, ThreadFacts, PipelineKept DEF BInv
<1>3. BaseInv' /\ BuildingInv'
  BY <1>1, <1>2 DEF BInv, BaseInv, BuildingInv
<1>4. thread["scaler"] = "ended" => thread'["scaler"] = "ended"
  BY <1>2 DEF Stages
<1>5. thread["encoder"] = "ended" => thread'["encoder"] = "ended"
  BY <1>2 DEF Stages
<1>6. FailingInv'
  BY <1>1, <1>2, <1>5 DEF BInv, FailingInv
<1>7. BuiltInv'
  BY <1>1, <1>2, <1>4, <1>5 DEF BInv, BuiltInv
<1> QED BY <1>2, <1>3, <1>6, <1>7 DEF BInv

\* Frames are pushed, or the destructor begins.
LEMMA CallerKeeps ==
  ASSUME BInv, Caller \/ DestroyBegin
  PROVE  BInv'
<1>1. /\ phase = "built" /\ UNCHANGED <<phase, step, has, lost, started, file>>
      /\ Pipeline!Caller \/ Pipeline!DestroyBegin
  BY DEF Caller, DestroyBegin, buildVars
<1>2. PP!IInv'
  BY <1>1, PipelineKept DEF BInv
<1>3. thread' = thread /\ closing = 0 /\ closing' \in {0, 1}
  BY <1>1 DEF Pipeline!Caller, Pipeline!DestroyBegin, Pipeline!PushFrame,
     Pipeline!PushFrameThrows, Pipeline!stageVars
<1> QED BY <1>1, <1>2, <1>3 DEF BInv, BaseInv, BuildingInv, FailingInv, BuiltInv

\* A member is destroyed: it frees what it has, after its thread has ended.
LEMMA DestroyKeeps ==
  ASSUME BInv, Destroy
  PROVE  BInv'
<1>1. /\ phase = "built" /\ Pipeline!Destroy
      /\ UNCHANGED <<phase, step, lost, started>>
      /\ IF closing' = closing THEN UNCHANGED <<has, file>>
         ELSE /\ has' = [has EXCEPT ![PP!DestructionOrder[closing]]
                                       = @ \ Frees[PP!DestructionOrder[closing]]]
              /\ IF PP!DestructionOrder[closing] = "muxer" THEN file' = "complete"
                 ELSE file' = file
  BY SameCaller DEF Destroy, Completed
<1>2. PP!IInv'
  BY <1>1, PipelineKept DEF BInv
<1>3. /\ closing \in 0 .. 4
      /\ PP!Destroying("scaler") <=> closing = 1
      /\ PP!Destroying("encoder") <=> closing = 2
      /\ PP!Destroying("muxer") <=> closing = 3
  <2>1. closing \in 0 .. Len(PP!DestructionOrder) + 1
    BY DEF BInv, PP!IInv, PP!TypeOK
  <2> QED BY <2>1, PP!DestructionProperties, BuilderAssumption, SameCardinality DEF PP!Stages
<1>4. /\ PP!DestructionOrder[1] = "scaler" /\ PP!DestructionOrder[2] = "encoder"
      /\ PP!DestructionOrder[3] = "muxer"
  BY DEF PP!DestructionOrder
<1>5. /\ thread' = thread
      /\ \/ closing' = closing
         \/ closing = 1 /\ closing' = 2 /\ thread["scaler"] = "ended"
         \/ closing = 2 /\ closing' = 3 /\ thread["encoder"] = "ended"
         \/ closing = 3 /\ closing' = 4
  <2>1. PP!Destroy
    BY <1>1, SameCaller
  <2>2. CASE \E s \in Stages : PP!SignalEOF(s)
    BY <2>2 DEF PP!SignalEOF, PP!outputVars
  <2>3. CASE \E s \in Stages : PP!DestroyStage(s)
    BY <1>3, <2>3 DEF PP!DestroyStage, PP!Join, Stages
  <2>4. CASE PP!DestroyMuxer
    BY <1>3, <2>4 DEF PP!DestroyMuxer, PP!stageVars
  <2> QED BY <2>1, <2>2, <2>3, <2>4, SamePipeline DEF PP!Destroy
<1>6. BaseInv /\ BuiltInv /\ "scaler" \in Objects /\ "encoder" \in Objects /\ "muxer" \in Objects
  BY DEF BInv, Objects
<1>7. CASE closing' = closing
  BY <1>1, <1>2, <1>5, <1>6, <1>7 DEF BInv, BaseInv, BuildingInv, FailingInv, BuiltInv
<1>8. CASE closing = 1 /\ closing' = 2 /\ thread["scaler"] = "ended"
  <2>1. has' = [has EXCEPT !["scaler"] = @ \ Frees["scaler"]] /\ file' = file
    BY <1>1, <1>4, <1>8
  <2>2. /\ has' \in [Objects -> SUBSET Things] /\ has'["scaler"] = {}
        /\ \A p \in Objects : has'[p] \subseteq Frees[p] /\ (has[p] = {} => has'[p] = {})
    BY <1>6, <2>1, GivesUp
  <2>3. BaseInv'
    BY <1>1, <1>6, <2>1, <2>2 DEF BaseInv
  <2>4. BuiltInv'
    BY <1>1, <1>5, <1>6, <1>8, <2>2 DEF BuiltInv, Objects
  <2> QED BY <1>1, <1>2, <2>3, <2>4 DEF BInv, BuildingInv, FailingInv
<1>9. CASE closing = 2 /\ closing' = 3 /\ thread["encoder"] = "ended"
  <2>1. has' = [has EXCEPT !["encoder"] = @ \ Frees["encoder"]] /\ file' = file
    BY <1>1, <1>4, <1>9
  <2>2. /\ has' \in [Objects -> SUBSET Things] /\ has'["encoder"] = {}
        /\ \A p \in Objects : has'[p] \subseteq Frees[p] /\ (has[p] = {} => has'[p] = {})
    BY <1>6, <2>1, GivesUp
  <2>3. BaseInv'
    BY <1>1, <1>6, <2>1, <2>2 DEF BaseInv
  <2>4. BuiltInv'
    BY <1>1, <1>5, <1>6, <1>9, <2>2 DEF BuiltInv, Objects
  <2> QED BY <1>1, <1>2, <2>3, <2>4 DEF BInv, BuildingInv, FailingInv
<1>10. CASE closing = 3 /\ closing' = 4
  <2>1. has' = [has EXCEPT !["muxer"] = @ \ Frees["muxer"]] /\ file' = "complete"
    BY <1>1, <1>4, <1>10
  <2>2. /\ has' \in [Objects -> SUBSET Things] /\ has'["muxer"] = {}
        /\ \A p \in Objects : has'[p] \subseteq Frees[p] /\ (has[p] = {} => has'[p] = {})
    BY <1>6, <2>1, GivesUp
  <2>3. BaseInv'
    BY <1>1, <1>6, <2>1, <2>2 DEF BaseInv
  <2>4. BuiltInv'
    BY <1>1, <1>5, <1>6, <1>10, <2>1, <2>2 DEF BuiltInv, Objects
  <2> QED BY <1>1, <1>2, <2>3, <2>4 DEF BInv, BuildingInv, FailingInv
<1> QED BY <1>5, <1>7, <1>8, <1>9, <1>10

-----------------------------------------------------------------------------
(* The results.                                                            *)

\* Every step preserves the invariant.
LEMMA InvNext == BInv /\ [Next]_vars => BInv'
<1> SUFFICES ASSUME BInv, [Next]_vars PROVE BInv'
  OBVIOUS
<1>1. CASE BuildStep \/ Built \/ BuildStepFails
  BY <1>1, BuildStepKeeps, BuiltKeeps, BuildStepFailsKeeps
<1>2. CASE UnwindMuxer \/ UnwindEncoderSignal \/ UnwindEncoder \/ Rethrow
  BY <1>2, UnwindMuxerKeeps, UnwindEncoderSignalKeeps, UnwindEncoderKeeps, RethrowKeeps
<1>3. ASSUME NEW s \in Stages, StageThread(s) PROVE BInv'
  BY <1>3, StageThreadKeeps
<1>4. CASE Caller \/ DestroyBegin
  BY <1>4, CallerKeeps
<1>5. CASE Destroy
  BY <1>5, DestroyKeeps
<1>6. CASE UNCHANGED vars
  <2>1. UNCHANGED pipelineVars /\ UNCHANGED <<phase, step, has, lost, started, file>>
    BY <1>6 DEF vars, buildVars
  <2>2. PP!IInv'
    BY <2>1, PipelineKept DEF BInv
  <2>3. thread' = thread /\ closing' = closing /\ lent' = lent
    BY <2>1 DEF pipelineVars
  <2> QED BY <2>1, <2>2, <2>3 DEF BInv, BaseInv, BuildingInv, FailingInv, BuiltInv
<1> QED BY <1>1, <1>2, <1>3, <1>4, <1>5, <1>6, SamePipeline DEF Next, Build, Finished

\* The invariant is one of the specification.
THEOREM InvariantHolds == Spec => []BInv
BY InvInit, InvNext, PTL DEF Spec

\* What the invariant says of the end of an output, in whichever way it came.
LEMMA EndFacts ==
  ASSUME BInv, Ended
  PROVE  /\ \A o \in Objects : has[o] = {}
         /\ phase = "failed" \/ (phase = "built" /\ closing = 4)
<1>1. CASE phase = "failed"
  BY <1>1 DEF BInv, FailingInv
<1>2. CASE phase = "built" /\ Pipeline!Destroyed
  <2>1. closing = 4
    <3>1. PP!Destroyed /\ closing \in 0 .. 4
      BY <1>2, SameCaller, PipelineTypes DEF BInv
    <3> QED BY <3>1 DEF PP!Destroyed, PP!DestructionOrder
  <2> QED BY <1>2, <2>1 DEF BInv, BuiltInv, Objects
<1> QED BY <1>1, <1>2 DEF Ended

\* Wherever build() fails, and whatever the threads do in an output that was built,
\* no thread is left in the end, and nothing that a complete object had; only the
\* constructor that threw loses what it stored in its own members.
THEOREM NothingIsLeft == Spec => []ObjectsInv
<1>1. BInv => TypeOK
  <2> SUFFICES ASSUME BInv PROVE TypeOK
    OBVIOUS
  <2>1. /\ phase \in {"building", "unwinding", "failed", "built"}
        /\ step \in 1 .. Len(Steps) + 1
        /\ has \in [Objects -> SUBSET Things] /\ DOMAIN has = Objects
        /\ started \subseteq Pipeline!Stages
        /\ file \in {"none", "opened", "header", "complete"}
    BY StepsProperties, SamePipeline DEF BInv, BaseInv
  <2>2. \A o, p \in Objects : o # p => Frees[o] \cap Frees[p] = {}
    BY DEF Frees, Objects
  <2>3. \A o, p \in Objects : o # p => has[o] \cap has[p] = {}
    BY <2>2 DEF BInv, BaseInv
  <2>4. lost \subseteq Things \ UNION {has[o] : o \in Objects}
    <3>1. CASE phase \in {"building", "built"}
      BY <3>1 DEF BInv, BuildingInv, BuiltInv
    <3>2. CASE phase \in {"unwinding", "failed"}
      <4> DEFINE f == Steps[step].of
      <4>1. step \in 1 .. 15
        BY <3>2 DEF BInv, BaseInv, FailingInv
      <4>2. f \in Objects
        BY <4>1, StepsProperties DEF StepFits, Objects
      <4>3. /\ lost \subseteq Frees[f]
            /\ IF f = "build" THEN lost = {} ELSE has[f] = {}
        BY <3>2 DEF BInv, FailingInv
      <4> HIDE DEF f
      <4>4. \A o \in Objects : lost \cap has[o] = {}
        BY <2>2, <4>2, <4>3 DEF BInv, BaseInv
      <4>5. Frees[f] \subseteq Things
        BY <4>2 DEF Frees, Things, Objects
      <4> QED BY <4>3, <4>4, <4>5
    <3> QED BY <2>1, <3>1, <3>2
  <2> QED BY <2>1, <2>3, <2>4 DEF TypeOK, Objects
<1>2. BInv => OnlyThrowerLoses
  <2> SUFFICES ASSUME BInv, Ended PROVE OnlyThrowerLoses
    BY DEF OnlyThrowerLoses
  <2>1. DOMAIN has = Objects /\ \A o \in Objects : has[o] = {}
    BY EndFacts DEF BInv, BaseInv
  <2>2. lost # {} => step \in DOMAIN Steps /\ lost \subseteq Frees[Steps[step].of]
    <3>1. CASE phase = "failed"
      BY <3>1, StepsProperties DEF BInv, BaseInv, FailingInv
    <3>2. CASE phase = "built"
      BY <3>2 DEF BInv, BuiltInv
    <3> QED BY <3>1, <3>2, EndFacts
  <2> QED BY <2>1, <2>2 DEF OnlyThrowerLoses
<1>3. BInv => NoThreadLeft
  <2> SUFFICES ASSUME BInv, Ended, NEW s \in started PROVE thread[s] = "ended"
    BY DEF NoThreadLeft
  <2>1. s \in Stages
    BY DEF BInv, BaseInv
  <2>2. CASE phase = "failed"
    <3>1. s = "encoder" /\ step >= 8
      BY <2>1, <2>2 DEF BInv, BaseInv, FailingInv, Stages
    <3> QED BY <2>2, <3>1, EndFacts DEF BInv, FailingInv, Objects
  <2>3. CASE phase = "built" /\ closing = 4
    BY <2>1, <2>3 DEF BInv, BuiltInv, Stages
  <2> QED BY <2>2, <2>3, EndFacts
<1> QED BY <1>1, <1>2, <1>3, InvariantHolds, PTL DEF ObjectsInv

\* A file that has a header gets its trailer, also when build() fails later.
THEOREM FileHasTrailer == Spec => []FileIsCompleted
<1>1. BInv => FileIsCompleted
  <2> SUFFICES ASSUME BInv, Ended PROVE FileIsCompleted
    BY DEF FileIsCompleted
  <2>1. CASE phase = "failed"
    <3>1. step \in 1 .. 15 /\ has["muxer"] = {}
      BY <2>1, EndFacts DEF BInv, BaseInv, FailingInv, Objects
    <3>2. CASE step <= 7
      BY <2>1, <3>2 DEF BInv, FailingInv, FileIsCompleted
    <3>3. CASE step >= 11
      BY <2>1, <3>1, <3>3 DEF BInv, FailingInv, FileIsCompleted
    <3>4. CASE step >= 8 /\ step <= 10
      <4>1. Steps[step].of = "muxer" /\ step \in DOMAIN Steps
        BY <3>1, <3>4, StepsProperties DEF StepFits
      <4> QED BY <4>1 DEF FileIsCompleted
    <3> QED BY <3>1, <3>2, <3>3, <3>4
  <2>2. CASE phase = "built" /\ closing = 4
    BY <2>2 DEF BInv, BuiltInv, FileIsCompleted
  <2> QED BY <2>1, <2>2, EndFacts
<1> QED BY <1>1, InvariantHolds, PTL

\* What is proved of the states of the pipeline in FFmpegOutputProofs.
PipelineWorks ==
  /\ Pipeline!TypeOK
  /\ Pipeline!CalleesExist
  /\ Pipeline!LentAreHeld
  /\ Pipeline!StreamNotStarved
  /\ Pipeline!PipelineOrdered

\* An output that build() returned is the pipeline that FFmpegOutput describes,
\* although the encoder's thread has been running since before the muxer was made:
\* what is proved of that pipeline holds of it.
THEOREM BuiltOutputWorks == Spec => [](phase = "built" => PipelineWorks)
<1>1. BInv => PP!TypeOK /\ PP!CalleesExist /\ PP!LentAreHeld /\ PP!StreamNotStarved /\ PP!PipelineOrdered
  BY PP!CalleesFollow, PP!LentFollows, PP!RoomFollows, PP!OrderFollows, BuilderAssumption,
     SameCardinality DEF BInv, PP!IInv, PP!Stages
<1>2. PP!CalleesExist <=> Pipeline!CalleesExist
  BY SameCaller DEF PP!CalleesExist, Pipeline!CalleesExist, PP!Exists, Pipeline!Exists
<1>3. \A s : PP!Held(s) = Pipeline!Held(s)
  BY DEF PP!Held, Pipeline!Held
<1>4. PP!LentAreHeld <=> Pipeline!LentAreHeld
  BY <1>3 DEF PP!LentAreHeld, Pipeline!LentAreHeld, PP!BuffersOf, Pipeline!BuffersOf
<1>5. PP!PipelineOrdered <=> Pipeline!PipelineOrdered
  BY <1>3 DEF PP!PipelineOrdered, Pipeline!PipelineOrdered, PP!Pipeline, Pipeline!Pipeline
<1>6. PP!Frames = Pipeline!Frames /\ PP!GpuFrames = Pipeline!GpuFrames
  BY DEF PP!Frames, Pipeline!Frames, PP!GpuFrames, Pipeline!GpuFrames, PP!Wrapped,
     Pipeline!Wrapped
<1>7. PP!TypeOK <=> Pipeline!TypeOK
  BY <1>6, SameCaller, SamePipeline DEF PP!TypeOK, Pipeline!TypeOK
<1>8. PP!StreamNotStarved <=> Pipeline!StreamNotStarved
  BY DEF PP!StreamNotStarved, Pipeline!StreamNotStarved, PP!Cardinality, Pipeline!Cardinality
<1> QED BY <1>1, <1>2, <1>4, <1>5, <1>7, <1>8, InvariantHolds, PTL DEF PipelineWorks

\* The output as a FrameSink.
Status == IF closing = 0 THEN "open" ELSE IF Pipeline!Destroyed THEN "closed" ELSE "closing"
Output == INSTANCE FrameSink WITH status <- Status

\* An output is born a FrameSink, with no frames.
BornAsSink == phase # "built" /\ phase' = "built" => Output!Init'

\* It takes and gives back frames as a FrameSink does.
StaysSink == phase = "built" => [Output!Next]_<<lent, Status>>

\* What build() returns is the FrameSink that main() makes of it, and remains one
\* until it is destroyed.
THEOREM BuiltOutputIsSink == Spec => [][BornAsSink /\ StaysSink]_vars
<1>1. BInv /\ Next => BornAsSink
  <2> SUFFICES ASSUME BInv, Next, phase # "built", phase' = "built" PROVE Output!Init'
    BY DEF BornAsSink
  <2>1. CASE Built
    <3>1. closing' = 0 /\ lent' = {}
      BY <2>1 DEF Built, BInv, BuildingInv, pipelineVars
    <3> QED BY <3>1 DEF Output!Init, Status
  <2>2. ~Built => phase' = phase \/ phase' # "built"
    BY DEF Next, Build, BuildStep, BuildStepFails, UnwindMuxer, UnwindEncoderSignal,
       UnwindEncoder, Rethrow, StageThread, Caller, DestroyBegin, Destroy, Finished, buildVars, vars
  <2> QED BY <2>1, <2>2
<1>2. BInv /\ Next => StaysSink
  <2> SUFFICES ASSUME BInv, Next, phase = "built" PROVE [Output!Next]_<<lent, Status>>
    BY DEF StaysSink
  <2>1. PP!Status = Status
    BY SameCaller DEF PP!Status, Status
  <2>2. PP!Status' = Status'
    BY SameCaller DEF PP!Status, Status, PP!Destroyed, Pipeline!Destroyed, PP!DestructionOrder,
       Pipeline!DestructionOrder
  <2>3. PP!Next => [PP!Sink!Next]_<<lent, PP!Status>>
    BY PP!StepImplements, BuilderAssumption, SameCardinality DEF BInv, PP!Stages
  <2>4. [PP!Sink!Next]_<<lent, PP!Status>> => [Output!Next]_<<lent, Status>>
    BY <2>1, <2>2 DEF PP!Sink!Next, PP!Sink!Push, PP!Sink!Release, PP!Sink!BeginClose,
       PP!Sink!Close, Output!Next, Output!Push, Output!Release, Output!BeginClose, Output!Close,
       PP!Status, Status
  <2>5. PP!Next \/ UNCHANGED <<lent, closing>>
    <3>1. ~Build
      BY DEF Build, BuildStep, Built, BuildStepFails, UnwindMuxer, UnwindEncoderSignal,
         UnwindEncoder, Rethrow
    <3>2. CASE \E s \in Stages : StageThread(s)
      BY <3>2, SameThread, SamePipeline DEF StageThread, PP!Next
    <3>3. CASE Caller \/ DestroyBegin \/ Destroy
      BY <3>3, SameCaller DEF Caller, DestroyBegin, Destroy, PP!Next
    <3>4. CASE Finished
      BY <3>4 DEF Finished, vars, pipelineVars
    <3> QED BY <3>1, <3>2, <3>3, <3>4, SamePipeline DEF Next
  <2>6. UNCHANGED <<lent, closing>> => UNCHANGED <<lent, Status>>
    BY DEF Status, Pipeline!Destroyed, Pipeline!DestructionOrder
  <2> QED BY <2>3, <2>4, <2>5, <2>6
<1> QED BY <1>1, <1>2, InvariantHolds, PTL DEF Spec
=============================================================================
