------------------------------ MODULE ModelPicker ------------------------------
(***************************************************************************)
(* The modal in which a seat's model is chosen (model-picker.ts): four     *)
(* levels (seat, provider, model, confirm), one cursor for each, and a     *)
(* search over the model rows, which grow and shrink under the cursor.     *)
(* Layout and the scrolling window are left out; a draft of the query is a *)
(* sequence of letters, and a model matches when it contains the query.    *)
(***************************************************************************)
EXTENDS Integers, SequencesExt, Ordered

CONSTANTS
    SeatRows,      \* the catalogue's seats, in order
    Groups,        \* its providers, each a sequence of rows [model, level]
    Name,          \* the letters of a model's qualified id
    Letters,
    MaxQuery       \* bound: length of the query

VARIABLES
    opened,        \* the modal is shown
    level, seatIndex, providerIndex, modelIndex,
    picked,        \* the row taken to the confirm level, or NoPick
    searching, query, inputFocused

pickerVars == <<opened, level, seatIndex, providerIndex, modelIndex,
                picked, searching, query, inputFocused>>
cursorVars == <<opened, level, seatIndex, providerIndex, picked>>

NoPick == [model |-> "", level |-> ""]

PickerInit ==
    /\ opened = FALSE /\ level = 0
    /\ seatIndex = 1 /\ providerIndex = 1 /\ modelIndex = 1
    /\ picked = NoPick /\ searching = FALSE /\ query = <<>> /\ inputFocused = FALSE

-----------------------------------------------------------------------------
\* filterModelRows
Matches(row, q) ==
    \E i \in 0 .. Len(Name[row.model]) - Len(q) :
        SubSeq(Name[row.model], i + 1, i + Len(q)) = q

Filtered(rows, q) ==
    LET kept == Ascending({i \in DOMAIN rows : Matches(rows[i], q)})
    IN  [k \in DOMAIN kept |-> rows[kept[k]]]

\* currentRows at the model level, the one source of rows.
RowsFor(q) ==
    IF providerIndex \notin DOMAIN Groups THEN <<>>
    ELSE IF searching THEN Filtered(Groups[providerIndex], q)
    ELSE Groups[providerIndex]
ModelRows == RowsFor(query)
RowUnderCursor == IF modelIndex \in DOMAIN ModelRows THEN ModelRows[modelIndex] ELSE NoPick

RowCount == CASE level = 0 -> Len(SeatRows)
              [] level = 1 -> Len(Groups)
              [] OTHER -> Len(ModelRows)

Within(v, n) == IF v > n THEN (IF n = 0 THEN 1 ELSE n) ELSE IF v < 1 THEN 1 ELSE v

\* resolveSelection
Selection == [seat |-> SeatRows[seatIndex], model |-> picked.model, thinking |-> picked.level]

-----------------------------------------------------------------------------
Open ==
    /\ ~opened /\ opened' = TRUE /\ level' = 0
    /\ seatIndex' = 1 /\ providerIndex' = 1 /\ modelIndex' = 1
    /\ picked' = NoPick /\ searching' = FALSE /\ query' = <<>> /\ inputFocused' = FALSE

\* A fresh picker is built each time, so a closed one has no state.
Close ==
    /\ opened' = FALSE /\ level' = 0
    /\ seatIndex' = 1 /\ providerIndex' = 1 /\ modelIndex' = 1
    /\ picked' = NoPick /\ searching' = FALSE /\ query' = <<>> /\ inputFocused' = FALSE

Searching == level = 2 /\ searching

\* Up and Down.
Reclamped(q) == Within(modelIndex, Len(RowsFor(q)))

MoveCursor(dir) ==
    /\ opened /\ level < 3
    /\ seatIndex' = IF level = 0 THEN Within(seatIndex + dir, Len(SeatRows)) ELSE seatIndex
    /\ providerIndex' = IF level = 1 THEN Within(providerIndex + dir, Len(Groups)) ELSE providerIndex
    /\ modelIndex' = IF level = 2 THEN Within(modelIndex + dir, Len(ModelRows)) ELSE modelIndex
    /\ inputFocused' = (inputFocused /\ ~Searching)
    /\ UNCHANGED <<opened, level, picked, searching, query>>

\* Enter below the confirm level.
Descend ==
    /\ opened /\ level < 3 /\ RowCount > 0
    /\ level' = level + 1
    /\ providerIndex' = IF level = 0 THEN 1 ELSE providerIndex
    /\ modelIndex' = IF level = 1 THEN 1 ELSE modelIndex
    /\ picked' = IF level = 2 THEN RowUnderCursor ELSE picked
    /\ searching' = (searching /\ level # 1)
    /\ query' = IF level = 1 THEN <<>> ELSE query
    /\ inputFocused' = (inputFocused /\ level # 1)
    /\ UNCHANGED <<opened, seatIndex>>

\* Escape.  What a level leaves behind is reset on the way up here, in the
\* code on the way down: nothing reads it in between.
SetQuery(q, focus) ==
    /\ query' = q /\ inputFocused' = focus
    /\ modelIndex' = Reclamped(q)
    /\ UNCHANGED <<cursorVars, searching>>

Ascend ==
    /\ opened
    /\ IF Searching /\ inputFocused THEN SetQuery(<<>>, TRUE)
       ELSE IF level = 0 THEN Close
       ELSE /\ level' = level - 1
            /\ searching' = (searching /\ ~Searching)
            /\ query' = IF Searching THEN <<>> ELSE query
            /\ inputFocused' = (inputFocused /\ ~Searching)
            /\ providerIndex' = IF level = 1 THEN 1 ELSE providerIndex
            /\ modelIndex' = IF level = 2 THEN 1 ELSE modelIndex
            /\ picked' = NoPick
            /\ UNCHANGED <<opened, seatIndex>>

\* The slash that opens the search.
StartSearch ==
    /\ opened /\ level = 2 /\ ~searching /\ ModelRows # <<>>
    /\ searching' = TRUE /\ inputFocused' = TRUE
    /\ UNCHANGED <<cursorVars, modelIndex, query>>

Type(l) ==
    /\ opened /\ Searching /\ Len(query) < MaxQuery
    /\ SetQuery(Append(query, l), TRUE)

Backspace ==
    /\ opened /\ Searching /\ inputFocused /\ query # <<>>
    /\ SetQuery(Front(query), TRUE)

PickerKey ==
    \/ \E dir \in {-1, 1} : MoveCursor(dir)
    \/ Descend \/ Ascend \/ StartSearch \/ Backspace
    \/ \E l \in Letters : Type(l)
=============================================================================
