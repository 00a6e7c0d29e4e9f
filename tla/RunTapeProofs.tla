--------------------------- MODULE RunTapeProofs ---------------------------
(***************************************************************************)
(* Proofs about RunTape for any number of runs and writers and tapes of    *)
(* any length.                                                             *)
(***************************************************************************)
EXTENDS RunTape, SequenceTheorems, TLAPS

\* The kind of a cell determines a state of the grammar.
LEMMA StateAfterForCellType == \A kind \in Kinds : StateAfterForCell(kind) \in States
  BY DEF Kinds, States, StateAfterForCell

\* The state of a tape is a state of the grammar.
LEMMA TapeStateType == ASSUME NEW tape \in Seq(Cell) PROVE TapeState(tape) \in States
  <1>1. CASE Len(tape) = 0
    BY <1>1 DEF TapeState, StateAfter, States
  <1>2. CASE Len(tape) # 0
    <2>1. tape[Len(tape)] \in Cell
      BY <1>2, ElementOfSeq, LenProperties
    <2> QED  BY <2>1, <1>2 DEF TapeState, StateAfter, Cell
  <1> QED  BY <1>1, <1>2

\* What recordRunTapeCell would insert is a cell.
LEMMA CellAfterType ==
  ASSUME NEW state \in States, NEW kind \in Kinds, NEW passed \in Verdicts
  PROVE  CellAfter(state, kind, passed) \in Cell
  BY StateAfterForCellType DEF CellAfter, Cell

\* A row inserted at the index after the last extends the tape by that row.
LEMMA InsertAtEnd ==
  ASSUME NEW rows \in Seq(Cell), NEW cell \in Cell
  PROVE  InsertRow(rows, Len(rows) + 1, cell) = Append(rows, cell)
  <1> DEFINE new == InsertRow(rows, Len(rows) + 1, cell)
  <1>1. Len(rows) \in Nat /\ DOMAIN rows = 1..Len(rows)
    BY LenProperties
  <1>2. new \in [1..(Len(rows) + 1) -> Cell]
    <2>1. DOMAIN rows \cup {Len(rows) + 1} = 1..(Len(rows) + 1)
      BY <1>1
    <2>2. \A i \in DOMAIN rows : rows[i] \in Cell
      BY <1>1, ElementOfSeq
    <2> QED  BY <2>1, <2>2 DEF InsertRow
  <1>3. new \in Seq(Cell) /\ Len(new) = Len(rows) + 1
    <2>1. Len(rows) + 1 \in Nat
      BY <1>1
    <2>2. new \in Seq(Cell)
      BY <1>2, <2>1, SeqDef
    <2> QED  BY <1>2, <2>1, <2>2, LenProperties
  <1>4. \A i \in 1..Len(new) : new[i] = Append(rows, cell)[i]
    <2> SUFFICES ASSUME NEW i \in 1..Len(new) PROVE new[i] = Append(rows, cell)[i]
      OBVIOUS
    <2>1. i \in DOMAIN rows \cup {Len(rows) + 1}
      BY <1>1, <1>3
    <2>2. new[i] = IF i = Len(rows) + 1 THEN cell ELSE rows[i]
      BY <2>1 DEF InsertRow
    <2> QED  BY <1>1, <1>3, <2>1, <2>2, AppendProperties
  <1> HIDE DEF new
  <1>5. Append(rows, cell) \in Seq(Cell) /\ Len(Append(rows, cell)) = Len(rows) + 1
    BY AppendProperties
  <1>6. new = Append(rows, cell)
    BY <1>3, <1>4, <1>5, SeqEqual
  <1> QED  BY <1>6 DEF new

\* A legal tape extended by a legal cell is a legal tape.
LEMMA LegalAppend ==
  ASSUME NEW tape \in Seq(Cell), LegalTape(tape),
         NEW kind \in Kinds, NEW passed \in Verdicts,
         ValidPayload(kind, passed), kind \in LegalNextKinds(tape)
  PROVE  LegalTape(Append(tape, CellAfter(TapeState(tape), kind, passed)))
  <1> DEFINE cell == CellAfter(TapeState(tape), kind, passed)
             new  == Append(tape, cell)
             n    == Len(tape)
  <1>1. cell \in Cell
    BY TapeStateType, CellAfterType
  <1>2. cell.kind = kind /\ cell.passed = passed
    BY DEF CellAfter
  <1>3. /\ new \in Seq(Cell) /\ Len(new) = n + 1 /\ n \in Nat
        /\ DOMAIN tape = 1..n /\ DOMAIN new = 1..(n + 1)
        /\ \A i \in 1..n : new[i] = tape[i]
        /\ new[n + 1] = cell
    BY <1>1, AppendProperties, LenProperties
  <1>4. \A i \in 0..n : StateAfter(new, i) = StateAfter(tape, i)
                     /\ VerdictAt(new, i) = VerdictAt(tape, i)
    BY <1>3 DEF StateAfter, VerdictAt
  <1> HIDE DEF new
  <1> SUFFICES ASSUME NEW i \in DOMAIN new
               PROVE  /\ new[i].kind \in LegalNextKindsFor(StateAfter(new, i - 1),
                                                           VerdictAt(new, i - 1))
                      /\ ValidPayload(new[i].kind, new[i].passed)
                      /\ new[i] = CellAfter(StateAfter(new, i - 1), new[i].kind, new[i].passed)
    BY DEF LegalTape, new
  <1>5. i - 1 \in 0..n
    BY <1>3
  <1>6. CASE i \in 1..n
    BY <1>3, <1>4, <1>5, <1>6 DEF LegalTape
  <1>7. CASE i = n + 1
    <2>1. i - 1 = n
      BY <1>3, <1>7
    <2>2. StateAfter(new, i - 1) = TapeState(tape) /\ VerdictAt(new, i - 1) = VerdictAt(tape, n)
      BY <1>4, <1>5, <2>1 DEF TapeState
    <2>3. new[i] = cell
      BY <1>3, <1>7
    <2> HIDE DEF cell
    <2> QED  BY <1>2, <2>2, <2>3 DEF LegalNextKinds, cell
  <1> QED  BY <1>3, <1>6, <1>7

-----------------------------------------------------------------------------
\* What an insert does: the row its caller computed is the next one, and the
\* tape grows by it.  The caller's index is at most one past the end, and an
\* index already used is refused.
LEMMA InsertAppends ==
  ASSUME TypeOK, NEW w \in Writers, Insert(w)
  PROVE  /\ call[w] \in Request
         /\ call[w].index = Len(tapes[call[w].run]) + 1
         /\ tapes' = [tapes EXCEPT ![call[w].run] = Append(@, call[w].cell)]
         /\ call' = [call EXCEPT ![w] = None]
  <1> DEFINE req == call[w]
  <1>1. req \in Request
    BY DEF TypeOK, Insert
  <1>2. req.run \in Runs /\ req.index \in Nat \ {0} /\ req.cell \in Cell
    BY <1>1 DEF Request
  <1>3. tapes[req.run] \in Seq(Cell)
    BY <1>2 DEF TypeOK
  <1>4. DOMAIN tapes[req.run] = 1..Len(tapes[req.run]) /\ Len(tapes[req.run]) \in Nat
    BY <1>3, LenProperties
  <1>5. req.index <= Len(tapes[req.run]) + 1 /\ req.index \notin DOMAIN tapes[req.run]
    BY DEF TypeOK, Insert, CanInsert
  <1>6. req.index = Len(tapes[req.run]) + 1
    BY <1>2, <1>4, <1>5
  <1>7. InsertRow(tapes[req.run], req.index, req.cell) = Append(tapes[req.run], req.cell)
    BY <1>2, <1>3, <1>6, InsertAtEnd
  <1> QED  BY <1>1, <1>6, <1>7 DEF Insert

\* What a successful read of the view does: the caller holds the row after the last.
LEMMA ReadViewRequests ==
  ASSUME TypeOK, NEW w \in Writers, NEW r \in Runs, NEW kind \in Kinds, NEW passed \in Verdicts,
         ReadView(w, r, kind, passed)
  PROVE  /\ RequestFrom(r, tapes[r], kind, passed) \in Request
         /\ call' = [call EXCEPT ![w] = RequestFrom(r, tapes[r], kind, passed)]
         /\ tapes' = tapes
  <1>1. tapes[r] \in Seq(Cell)
    BY DEF TypeOK
  <1>2. Len(tapes[r]) + 1 \in Nat \ {0}
    BY <1>1, LenProperties
  <1>3. CellAfter(TapeState(tapes[r]), kind, passed) \in Cell
    BY <1>1, TapeStateType, CellAfterType
  <1> QED  BY <1>2, <1>3 DEF ReadView, RequestFrom, Request

\* Type correctness is preserved by every step.
LEMMA TypeOKStep == TypeOK /\ [Next]_vars => TypeOK'
  <1> SUFFICES ASSUME TypeOK, [Next]_vars PROVE TypeOK'
    OBVIOUS
  <1>1. ASSUME NEW w \in Writers, NEW r \in Runs, NEW kind \in Kinds, NEW passed \in Verdicts,
               ReadView(w, r, kind, passed)
        PROVE  TypeOK'
    <2> DEFINE req == RequestFrom(r, tapes[r], kind, passed)
    <2>1. req \in Request /\ call' = [call EXCEPT ![w] = req] /\ tapes' = tapes
      BY <1>1, ReadViewRequests
    <2>2. req.run = r /\ req.index = Len(tapes[r]) + 1 /\ Len(tapes[r]) \in Nat
      BY LenProperties DEF RequestFrom, TypeOK
    <2> HIDE DEF req
    <2>3. call' \in [Writers -> Request \cup {None}]
      BY <2>1 DEF TypeOK
    <2>4. \A v \in Writers : call'[v] # None => call'[v].index <= Len(tapes'[call'[v].run]) + 1
      BY <2>1, <2>2 DEF TypeOK
    <2> QED  BY <2>1, <2>3, <2>4 DEF TypeOK
  <1>2. ASSUME NEW w \in Writers, Insert(w) PROVE TypeOK'
    <2> DEFINE run == call[w].run
               cell == call[w].cell
    <2>1. /\ call[w] \in Request
          /\ tapes' = [tapes EXCEPT ![run] = Append(@, cell)]
          /\ call' = [call EXCEPT ![w] = None]
      BY <1>2, InsertAppends
    <2>2. run \in Runs /\ cell \in Cell
      BY <2>1 DEF Request
    <2> HIDE DEF run, cell
    <2>3. /\ Append(tapes[run], cell) \in Seq(Cell)
          /\ Len(Append(tapes[run], cell)) = Len(tapes[run]) + 1
      BY <2>2, AppendProperties DEF TypeOK
    <2>4. tapes' \in [Runs -> Seq(Cell)]
      BY <2>1, <2>2, <2>3 DEF TypeOK
    <2>5. call' \in [Writers -> Request \cup {None}]
      BY <2>1 DEF TypeOK
    <2>6. ASSUME NEW v \in Writers, call'[v] # None
          PROVE  call'[v].index <= Len(tapes'[call'[v].run]) + 1
      <3>1. call'[v] = call[v] /\ call[v] # None
        BY <2>1, <2>6 DEF TypeOK
      <3>2. call[v] \in Request /\ call[v].index <= Len(tapes[call[v].run]) + 1
        BY <3>1 DEF TypeOK
      <3>3. call[v].run \in Runs /\ call[v].index \in Nat
        BY <3>2 DEF Request
      <3>4. Len(tapes[call[v].run]) \in Nat
        BY <3>3, LenProperties DEF TypeOK
      <3>5. Len(tapes'[call[v].run]) >= Len(tapes[call[v].run])
        BY <2>1, <2>2, <2>3, <3>3, <3>4 DEF TypeOK
      <3>6. Len(tapes'[call[v].run]) \in Nat
        BY <2>4, <3>3, LenProperties
      <3> QED  BY <3>1, <3>2, <3>3, <3>4, <3>5, <3>6
    <2> QED  BY <2>4, <2>5, <2>6 DEF TypeOK
  <1>3. ASSUME NEW w \in Writers, Abandon(w) PROVE TypeOK'
    BY <1>3 DEF TypeOK, Abandon
  <1>4. CASE UNCHANGED vars
    BY <1>4 DEF TypeOK, vars
  <1> QED  BY <1>1, <1>2, <1>3, <1>4 DEF Next

\* Type correctness: tapes have no gaps and hold well-formed cells, and no
\* caller is ahead of its tape.
THEOREM TypeCorrect == Spec => []TypeOK
  <1>1. Init => TypeOK
    BY EmptySeq DEF Init, TypeOK
  <1> QED  BY <1>1, TypeOKStep, PTL DEF Spec

-----------------------------------------------------------------------------
\* The cell a current caller holds is the one the current tape calls for.
LEMMA RequestCurrent ==
  ASSUME RequestsCurrent, NEW w \in Writers, call[w] # None,
         call[w].index = Len(tapes[call[w].run]) + 1
  PROVE  LET tape == tapes[call[w].run]
             cell == call[w].cell
         IN  /\ ValidPayload(cell.kind, cell.passed)
             /\ cell.kind \in LegalNextKinds(tape)
             /\ cell = CellAfter(TapeState(tape), cell.kind, cell.passed)
  BY DEF RequestsCurrent

\* Every tape stays a sentence of the grammar.
LEMMA TapesLegalStep == IInv /\ [Next]_vars => TapesLegal'
  <1> SUFFICES ASSUME IInv, [Next]_vars PROVE TapesLegal'
    OBVIOUS
  <1> USE DEF IInv
  <1>1. ASSUME NEW w \in Writers, Insert(w) PROVE TapesLegal'
    <2> DEFINE run == call[w].run
               cell == call[w].cell
               tape == tapes[run]
    <2>1. /\ call[w] \in Request /\ call[w] # None
          /\ call[w].index = Len(tape) + 1
          /\ tapes' = [tapes EXCEPT ![run] = Append(@, cell)]
      BY <1>1, InsertAppends, RunTapeAssumption
    <2>2. run \in Runs /\ cell \in Cell
      BY <2>1 DEF Request
    <2>3. cell.kind \in Kinds /\ cell.passed \in Verdicts
      BY <2>2 DEF Cell
    <2>4. /\ ValidPayload(cell.kind, cell.passed)
          /\ cell.kind \in LegalNextKinds(tape)
          /\ cell = CellAfter(TapeState(tape), cell.kind, cell.passed)
      BY <2>1, RequestCurrent
    <2>5. tape \in Seq(Cell) /\ LegalTape(tape)
      BY <2>2 DEF TypeOK, TapesLegal
    <2> HIDE DEF run, cell
    <2>6. LegalTape(Append(tape, CellAfter(TapeState(tape), cell.kind, cell.passed)))
      BY <2>3, <2>4, <2>5, LegalAppend
    <2>7. LegalTape(Append(tapes[run], cell))
      BY <2>4, <2>6
    <2>8. \A r \in Runs : tapes'[r] = IF r = run THEN Append(tapes[run], cell) ELSE tapes[r]
      BY <2>1, <2>2 DEF TypeOK
    <2> QED  BY <2>7, <2>8 DEF TapesLegal
  <1>2. CASE UNCHANGED tapes
    BY <1>2 DEF TapesLegal
  <1> QED  BY <1>1, <1>2 DEF Next, ReadView, Abandon, vars

\* A caller that a writer overtook is no longer current; the others still are.
LEMMA RequestsCurrentStep == IInv /\ [Next]_vars => RequestsCurrent'
  <1> SUFFICES ASSUME IInv, [Next]_vars,
                      NEW v \in Writers, call'[v] # None,
                      call'[v].index = Len(tapes'[call'[v].run]) + 1
               PROVE  /\ ValidPayload(call'[v].cell.kind, call'[v].cell.passed)
                      /\ call'[v].cell.kind \in LegalNextKinds(tapes'[call'[v].run])
                      /\ call'[v].cell = CellAfter(TapeState(tapes'[call'[v].run]),
                                                   call'[v].cell.kind, call'[v].cell.passed)
    BY DEF RequestsCurrent
  <1> USE DEF IInv
  <1>1. ASSUME NEW w \in Writers, NEW r \in Runs, NEW kind \in Kinds, NEW passed \in Verdicts,
               ReadView(w, r, kind, passed), v = w
        PROVE  /\ ValidPayload(call'[v].cell.kind, call'[v].cell.passed)
               /\ call'[v].cell.kind \in LegalNextKinds(tapes'[call'[v].run])
               /\ call'[v].cell = CellAfter(TapeState(tapes'[call'[v].run]),
                                            call'[v].cell.kind, call'[v].cell.passed)
    <2>1. call'[v] = RequestFrom(r, tapes[r], kind, passed) /\ tapes' = tapes
      BY <1>1, ReadViewRequests DEF TypeOK
    <2>2. /\ call'[v].run = r
          /\ call'[v].cell = CellAfter(TapeState(tapes[r]), kind, passed)
      BY <2>1 DEF RequestFrom
    <2>3. call'[v].cell.kind = kind /\ call'[v].cell.passed = passed
      BY <2>2 DEF CellAfter
    <2>4. ValidPayload(kind, passed) /\ kind \in LegalNextKinds(tapes[r])
      BY <1>1 DEF ReadView
    <2> QED  BY <2>1, <2>2, <2>3, <2>4
  <1>2. CASE call'[v] = call[v] /\ tapes'[call[v].run] = tapes[call[v].run]
    <2>1. call[v] # None /\ call[v].index = Len(tapes[call[v].run]) + 1
      BY <1>2
    <2> QED  BY <1>2, <2>1, RequestCurrent
  <1>3. ASSUME NEW w \in Writers, Insert(w)
        PROVE  call'[v] = call[v] /\ tapes'[call[v].run] = tapes[call[v].run]
    <2> DEFINE run == call[w].run
               cell == call[w].cell
    <2>1. /\ call[w] \in Request
          /\ tapes' = [tapes EXCEPT ![run] = Append(@, cell)]
          /\ call' = [call EXCEPT ![w] = None]
      BY <1>3, InsertAppends
    <2>2. run \in Runs /\ cell \in Cell
      BY <2>1 DEF Request
    <2> HIDE DEF run, cell
    <2>3. call'[v] = call[v] /\ call[v] # None
      BY <2>1 DEF TypeOK
    <2>4. call[v] \in Request /\ call[v].index <= Len(tapes[call[v].run]) + 1
      BY <2>3 DEF TypeOK
    <2>5. call[v].run \in Runs /\ call[v].index \in Nat
      BY <2>4 DEF Request
    <2>6. CASE call[v].run = run
      <3>1. tapes'[run] = Append(tapes[run], cell)
        BY <2>1, <2>2 DEF TypeOK
      <3>2. Len(Append(tapes[run], cell)) = Len(tapes[run]) + 1 /\ Len(tapes[run]) \in Nat
        BY <2>2, AppendProperties, LenProperties DEF TypeOK
      <3>3. call[v].index = Len(tapes[run]) + 2
        BY <2>3, <2>6, <3>1, <3>2
      <3>4. FALSE
        BY <2>4, <2>5, <2>6, <3>2, <3>3
      <3> QED  BY <3>4
    <2>7. CASE call[v].run # run
      BY <2>1, <2>3, <2>5, <2>7 DEF TypeOK
    <2> QED  BY <2>6, <2>7
  <1>4. ASSUME NEW w \in Writers, NEW r \in Runs, NEW kind \in Kinds, NEW passed \in Verdicts,
               ReadView(w, r, kind, passed), v # w
        PROVE  call'[v] = call[v] /\ tapes'[call[v].run] = tapes[call[v].run]
    BY <1>4 DEF ReadView, TypeOK
  <1>5. ASSUME NEW w \in Writers, Abandon(w)
        PROVE  call'[v] = call[v] /\ tapes'[call[v].run] = tapes[call[v].run]
    BY <1>5 DEF Abandon, TypeOK
  <1>6. ASSUME UNCHANGED vars
        PROVE  call'[v] = call[v] /\ tapes'[call[v].run] = tapes[call[v].run]
    BY <1>6 DEF vars
  <1> QED  BY <1>1, <1>2, <1>3, <1>4, <1>5, <1>6 DEF Next

\* The inductive invariant holds of every behaviour.
THEOREM Invariance == Spec => []IInv
  <1>1. Init => IInv
    <2> SUFFICES ASSUME Init PROVE IInv
      OBVIOUS
    <2>1. TypeOK
      BY EmptySeq DEF Init, TypeOK
    <2>2. TapesLegal
      BY EmptySeq DEF Init, TapesLegal, LegalTape
    <2>3. RequestsCurrent
      BY DEF Init, RequestsCurrent
    <2> QED  BY <2>1, <2>2, <2>3 DEF IInv
  <1>2. IInv /\ [Next]_vars => IInv'
    BY TypeOKStep, TapesLegalStep, RequestsCurrentStep DEF IInv
  <1> QED  BY <1>1, <1>2, PTL DEF Spec

\* Every tape a reader sees is a sentence of the grammar.
THEOREM TapesStayLegal == Spec => []TapesLegal
  BY Invariance, PTL DEF IInv

-----------------------------------------------------------------------------
\* In a legal tape, what a cell says about the cell before it.
LEMMA CellsBefore ==
  ASSUME NEW tape \in Seq(Cell), LegalTape(tape), NEW i \in DOMAIN tape
  PROVE  /\ i \in Nat \ {0} /\ i - 1 \in Nat
         /\ tape[i].kind \in Kinds
         /\ tape[i].after = StateAfterForCell(tape[i].kind)
         /\ tape[i].kind \in LegalNextKindsFor(StateAfter(tape, i - 1), VerdictAt(tape, i - 1))
         /\ i # 1 => /\ i - 1 \in DOMAIN tape
                     /\ StateAfter(tape, i - 1) = tape[i - 1].after
                     /\ VerdictAt(tape, i - 1) = tape[i - 1].passed
         /\ i = 1 => StateAfter(tape, i - 1) = "empty"
  <1>1. DOMAIN tape = 1..Len(tape) /\ Len(tape) \in Nat
    BY LenProperties
  <1>2. tape[i] \in Cell
    BY <1>1, ElementOfSeq
  <1>3. tape[i] = CellAfter(StateAfter(tape, i - 1), tape[i].kind, tape[i].passed)
    BY DEF LegalTape
  <1>4. tape[i].after = StateAfterForCell(tape[i].kind)
    BY <1>3 DEF CellAfter
  <1> QED  BY <1>1, <1>2, <1>4 DEF LegalTape, Cell, StateAfter, VerdictAt

\* The verifier gate is a consequence of the grammar.
LEMMA GatedTape ==
  ASSUME NEW tape \in Seq(Cell), LegalTape(tape), NEW i \in DOMAIN tape,
         tape[i].kind = "outcome_completed"
  PROVE  i > 1 /\ tape[i - 1].kind = "verifier_result" /\ tape[i - 1].passed = "pass"
  <1>1. StateAfter(tape, i - 1) = "verifying" /\ VerdictAt(tape, i - 1) = "pass"
    BY CellsBefore DEF LegalNextKindsFor
  <1>2. i # 1
    BY <1>1, CellsBefore
  <1>3. /\ i \in Nat \ {0} /\ i - 1 \in DOMAIN tape
        /\ tape[i - 1].after = "verifying" /\ tape[i - 1].passed = "pass"
    BY <1>1, <1>2, CellsBefore
  <1>4. tape[i - 1].kind \in Kinds /\ tape[i - 1].after = StateAfterForCell(tape[i - 1].kind)
    BY <1>3, CellsBefore
  <1>5. tape[i - 1].kind = "verifier_result"
    BY <1>3, <1>4 DEF StateAfterForCell, Kinds
  <1> QED  BY <1>2, <1>3, <1>5

\* A run is recorded as completed only directly after a passed verifier result.
THEOREM CompletionIsGated == Spec => []VerifierGated
  <1>1. IInv => VerifierGated
    BY GatedTape DEF IInv, TypeOK, TapesLegal, VerifierGated
  <1> QED  BY <1>1, Invariance, PTL

\* A cell after which a verdict is legal is the worker's, or a claim made
\* directly after the worker's.
LEMMA WorkBeforeVerdict ==
  ASSUME NEW tape \in Seq(Cell), LegalTape(tape), NEW j \in DOMAIN tape,
         tape[j].kind = "verifier_result"
  PROVE  /\ j > 1
         /\ \/ tape[j - 1].kind = "worker_action"
            \/ j > 2 /\ tape[j - 1].kind = "assistant_claim" /\ tape[j - 2].kind = "worker_action"
  <1>1. StateAfter(tape, j - 1) \in {"working", "claimed_completion"}
    BY CellsBefore DEF LegalNextKindsFor
  <1>2. j # 1
    BY <1>1, CellsBefore
  <1>3. /\ j \in Nat \ {0} /\ j - 1 \in DOMAIN tape
        /\ tape[j - 1].after \in {"working", "claimed_completion"}
    BY <1>1, <1>2, CellsBefore
  <1>4. tape[j - 1].kind \in Kinds /\ tape[j - 1].after = StateAfterForCell(tape[j - 1].kind)
    BY <1>3, CellsBefore
  <1>5. tape[j - 1].kind \in {"worker_action", "assistant_claim"}
    BY <1>3, <1>4 DEF StateAfterForCell, Kinds
  <1>6. CASE tape[j - 1].kind = "assistant_claim"
    <2>1. StateAfter(tape, (j - 1) - 1) = "working"
      BY <1>3, <1>6, CellsBefore DEF LegalNextKindsFor
    <2>2. j - 1 # 1
      BY <1>3, <2>1, CellsBefore
    <2>3. (j - 1) - 1 \in DOMAIN tape /\ tape[(j - 1) - 1].after = "working"
      BY <1>3, <2>1, <2>2, CellsBefore
    <2>4. /\ tape[(j - 1) - 1].kind \in Kinds
          /\ tape[(j - 1) - 1].after = StateAfterForCell(tape[(j - 1) - 1].kind)
      BY <2>3, CellsBefore
    <2>5. tape[(j - 1) - 1].kind = "worker_action"
      BY <2>3, <2>4 DEF StateAfterForCell, Kinds
    <2>6. (j - 1) - 1 = j - 2
      BY <1>3
    <2>7. j > 2
      BY <1>2, <1>3, <2>2
    <2> QED  BY <1>6, <2>5, <2>6, <2>7
  <1> QED  BY <1>2, <1>3, <1>5, <1>6

\* Two verdicts of a run have a worker action between them.
THEOREM VerdictsNeedWork == Spec => []FreshWorkPerVerdict
  <1>1. ASSUME NEW tape \in Seq(Cell), LegalTape(tape), NEW i \in DOMAIN tape, NEW j \in DOMAIN tape,
               i < j, tape[i].kind = "verifier_result", tape[j].kind = "verifier_result"
        PROVE  \E k \in i..j : tape[k].kind = "worker_action"
    <2>1. i \in Nat /\ j \in Nat
      BY <1>1, CellsBefore
    <2>2. CASE tape[j - 1].kind = "worker_action"
      <3>1. j - 1 \in i..j
        BY <1>1, <2>1
      <3> QED  BY <2>2, <3>1
    <2>3. CASE tape[j - 1].kind = "assistant_claim" /\ tape[j - 2].kind = "worker_action"
      <3>1. i # j - 1
        BY <1>1, <2>3
      <3>2. j - 2 \in i..j
        BY <1>1, <2>1, <3>1
      <3> QED  BY <2>3, <3>2
    <2> QED  BY <1>1, <2>2, <2>3, WorkBeforeVerdict
  <1>2. IInv => FreshWorkPerVerdict
    BY <1>1 DEF IInv, TypeOK, TapesLegal, FreshWorkPerVerdict
  <1> QED  BY <1>2, Invariance, PTL

\* Whatever is completed was worked on and verified.
THEOREM EarnedVerdicts == Spec => []VerdictsAreEarned
  <1>1. VerifierGated /\ FreshWorkPerVerdict => VerdictsAreEarned
    BY DEF VerdictsAreEarned
  <1> QED  BY <1>1, CompletionIsGated, VerdictsNeedWork, PTL

-----------------------------------------------------------------------------
\* The grammar the abstract specification uses is the grammar of the detailed one.
LEMMA SameGrammar ==
  /\ Abstract!Kinds = Kinds
  /\ Abstract!Verdicts = Verdicts
  /\ \A kind, passed : Abstract!ValidPayload(kind, passed) = ValidPayload(kind, passed)
  /\ \A tape : Abstract!TapeState(tape) = TapeState(tape)
  /\ \A tape : Abstract!LegalNextKinds(tape) = LegalNextKinds(tape)
  /\ \A state, kind, passed :
        Abstract!CellAfter(state, kind, passed) = CellAfter(state, kind, passed)
  <1>1. Abstract!Kinds = Kinds /\ Abstract!Verdicts = Verdicts
    BY DEF Abstract!Kinds, Kinds, Abstract!Verdicts, Verdicts
  <1>2. \A kind, passed : Abstract!ValidPayload(kind, passed) = ValidPayload(kind, passed)
    BY Zenon DEF Abstract!ValidPayload, ValidPayload
  <1>3. \A tape : Abstract!TapeState(tape) = TapeState(tape)
    BY DEF Abstract!TapeState, TapeState, Abstract!StateAfter, StateAfter
  <1>4. \A tape : Abstract!LegalNextKinds(tape) = LegalNextKinds(tape)
    BY Zenon DEF Abstract!LegalNextKinds, LegalNextKinds,
                 Abstract!LegalNextKindsFor, LegalNextKindsFor,
                 Abstract!TapeState, TapeState, Abstract!StateAfter, StateAfter,
                 Abstract!VerdictAt, VerdictAt
  <1>5. \A state, kind, passed :
          Abstract!CellAfter(state, kind, passed) = CellAfter(state, kind, passed)
    BY Zenon DEF Abstract!CellAfter, CellAfter, Abstract!StateAfterForCell, StateAfterForCell
  <1> QED  BY <1>1, <1>2, <1>3, <1>4, <1>5

\* Every step of the concurrent callers is an atomic append or leaves the tapes alone.
LEMMA StepRefines == IInv /\ [Next]_vars => [Abstract!Next]_tapes
  <1> SUFFICES ASSUME IInv, [Next]_vars PROVE [Abstract!Next]_tapes
    OBVIOUS
  <1> USE DEF IInv
  <1>1. ASSUME NEW w \in Writers, Insert(w) PROVE Abstract!Next
    <2> DEFINE run  == call[w].run
               cell == call[w].cell
    <2>1. /\ call[w] \in Request /\ call[w] # None
          /\ call[w].index = Len(tapes[run]) + 1
          /\ tapes' = [tapes EXCEPT ![run] = Append(@, cell)]
      BY <1>1, InsertAppends, RunTapeAssumption
    <2>2. run \in Runs /\ cell \in Cell
      BY <2>1 DEF Request
    <2>3. cell.kind \in Kinds /\ cell.passed \in Verdicts
      BY <2>2 DEF Cell
    <2>4. /\ ValidPayload(cell.kind, cell.passed)
          /\ cell.kind \in LegalNextKinds(tapes[run])
          /\ cell = CellAfter(TapeState(tapes[run]), cell.kind, cell.passed)
      BY <2>1, RequestCurrent
    <2> HIDE DEF run, cell
    <2>5. tapes' = [tapes EXCEPT ![run] =
                      Append(@, CellAfter(TapeState(@), cell.kind, cell.passed))]
      BY <2>1, <2>4
    <2>6. Abstract!Append1(run, cell.kind, cell.passed)
      BY <2>4, <2>5, SameGrammar DEF Abstract!Append1
    <2> QED  BY <2>2, <2>3, <2>6, SameGrammar DEF Abstract!Next
  <1>2. CASE UNCHANGED tapes
    BY <1>2
  <1> QED  BY <1>1, <1>2 DEF Next, ReadView, Abandon, vars

\* The concurrent callers implement the tape that grows atomically.
THEOREM Refinement == Spec => ImplementsAtomicTape
  <1>1. Init => Abstract!Init
    BY DEF Init, Abstract!Init
  <1>2. Spec => Abstract!Spec
    BY <1>1, StepRefines, Invariance, PTL DEF Spec, Abstract!Spec
  <1> QED  BY <1>2 DEF ImplementsAtomicTape
=============================================================================
