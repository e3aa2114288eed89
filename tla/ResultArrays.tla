---------------------------- MODULE ResultArrays ----------------------------
(***************************************************************************)
(* The result of a run on the wire and its large arrays                    *)
(* (src/engine/api/results.py, artifacts.py): each trade's row, and each   *)
(* array left out, put inline or split by whole rows into hashed chunks    *)
(* that are stored beside the result and read back by a client.  A cell of *)
(* an array is <<scenario, date, item>> and takes one byte; a hash is what *)
(* it is a hash of.  One thing may go wrong between the two.               *)
(***************************************************************************)
EXTENDS RunWire

CONSTANTS CHUNK_BYTES,   \* the largest chunk
          Sizes,         \* scenarios and dates a run may have: <<S, D>>
          Lost           \* a chunk that is not stored

VARIABLES document,   \* the result: its rows and its arrays, or Unsent
          stored_chunks,  \* array -> the chunks stored
          damaged,    \* whether something happened to them
          received    \* array -> what a client reads of it, or Lost if it is refused

resultVars == <<document, stored_chunks, damaged, received>>

---------------------------------------------------------------------------
(* One array as output asks for it. *)

items_record(ids) == [ids |-> ids, sha |-> ids]

ArrayRow(s, dates, ids) ==
  FlattenSeq([d \in 1..dates |-> [n \in DOMAIN ids |-> <<s, d, ids[n]>>]])
ArrayOf(paths, dates, ids) == [s \in 1..paths |-> ArrayRow(s, dates, ids)]

RowsPerChunk(values) == Max({1, CHUNK_BYTES \div Max({1, Len(values[1])})})

(* Whole rows to a chunk, as many as fit, the last one short. *)
Chunks(values) ==
  LET rows == RowsPerChunk(values)
  IN  [c \in 1..CeilDiv(Len(values), rows) |->
         FlattenSeq(SubSeq(values, (c - 1) * rows + 1, Min({c * rows, Len(values)})))]

array_artifact(values, ids) ==
  LET chunks == Chunks(values)
  IN  [form |-> "artifact", sha |-> FlattenSeq(chunks), items |-> items_record(ids), shape |-> Len(values),
       chunks |-> [c \in DOMAIN chunks |-> [url |-> c, bytes |-> Len(chunks[c]), sha |-> chunks[c]]]]

array_output(values, ids, output) ==
  CASE output = "none" -> Unsent
    [] output = "artifact" -> array_artifact(values, ids)
    [] output = "inline" -> [form |-> "inline", items |-> items_record(ids), values |-> FlattenSeq(values)]

(* Every chunk's bytes, then the whole array's, then the item order. *)
read_array(reference, chunks) ==
  LET fetched == [c \in DOMAIN reference.chunks |-> chunks[reference.chunks[c].url]]
  IN  IF \/ \E c \in DOMAIN fetched : fetched[c] = Lost
         \/ \E c \in DOMAIN fetched : Len(fetched[c]) # reference.chunks[c].bytes \/ fetched[c] # reference.chunks[c].sha
         \/ FlattenSeq(fetched) # reference.sha
         \/ items_record(reference.items.ids) # reference.items
      THEN Lost
      ELSE [cells |-> FlattenSeq(fetched), ids |-> reference.items.ids]

---------------------------------------------------------------------------
(* The document of a run: what the engine computed, under the ids of its request. *)

ResultIds == [n \in DOMAIN built_request.trades |-> built_request.trades[n].trade_id]
Exercisable == {"bermudan_swaption", "american_swaption"}
Wants(names) == Range(built_request.analytics) \cap names # {}

(* What was computed of each trade: by position, and the exercises by id. *)
Computed_today(n) == <<"npv", ResultIds[n]>>
Computed_profile(n) == IF Wants({"exposure"}) THEN <<"exposure", ResultIds[n]>> ELSE Unsent
Computed_greeks(n) == IF Wants({"sensitivities"}) THEN <<"greeks", ResultIds[n]>> ELSE Unsent

OptionIds ==
  SelectSeq(ResultIds, LAMBDA id : \E n \in DOMAIN ResultIds :
              ResultIds[n] = id /\ built_request.trades[n].trade_type \in Exercisable)

ResultRows ==
  [n \in DOMAIN ResultIds |->
     [trade_id |-> ResultIds[n], product |-> built_request.trades[n].trade_type,
      npv |-> IF Wants({"npv", "exposure", "sensitivities"}) THEN Computed_today(n) ELSE Unsent,
      exposure |-> Computed_profile(n), greeks |-> Computed_greeks(n)]]

(* The arrays of the exposure and the market-risk sections. *)
ArrayItems == [npv_cube |-> ResultIds, exercised |-> OptionIds, pnl |-> ResultIds]

Produced(name) ==
  Wants({PRODUCED_BY[name]}) /\ (name = "npv_cube" => built_request.include_npv_cube)

ResultArray(name, size) ==
  ArrayOf(size[1], IF name = "pnl" THEN 1 ELSE size[2], ArrayItems[name])

ArraySection(name, size) ==
  IF Produced(name) THEN array_output(ResultArray(name, size), ArrayItems[name], built_request.outputs[name]) ELSE Unsent

ResultInit == document = Unsent /\ stored_chunks = <<>> /\ damaged = FALSE /\ received = Unsent

(* The document, and the chunks of every array sent by reference. *)
WriteResult(size) ==
  /\ submission # Unsent /\ built_request.ok /\ document = Unsent
  /\ document' = [rows |-> ResultRows, size |-> size, arrays |-> [name \in DOMAIN PRODUCED_BY |-> ArraySection(name, size)]]
  /\ stored_chunks' = [name \in {name \in DOMAIN PRODUCED_BY : document'.arrays[name] # Unsent
                                    /\ document'.arrays[name].form = "artifact"} |-> Chunks(ResultArray(name, size))]
  /\ UNCHANGED <<damaged, received>>

(* A chunk is lost, cut or taken for another; or the reference's entries are out of order, one is
   missing, or two ids have changed places. *)
Swapped(sequence, i, j) == [sequence EXCEPT ![i] = sequence[j], ![j] = sequence[i]]

DamageChunk ==
  \E name \in DOMAIN stored_chunks : \E c, other \in DOMAIN stored_chunks[name] :
    /\ \E changed \in {[stored_chunks[name] EXCEPT ![c] = Lost],
                       [stored_chunks[name] EXCEPT ![c] = SubSeq(@, 1, Len(@) - 1)],
                       Swapped(stored_chunks[name], c, other)} :
         stored_chunks' = [stored_chunks EXCEPT ![name] = changed]
    /\ UNCHANGED document

DamageReference ==
  \E name \in DOMAIN stored_chunks :
    LET reference == document.arrays[name]
        entries == reference.chunks
        ids == reference.items.ids
    IN  /\ \E changed \in {[reference EXCEPT !.chunks = Swapped(entries, i, j)] : i, j \in DOMAIN entries}
                     \cup {[reference EXCEPT !.chunks = SubSeq(entries, 1, Len(entries) - 1)]}
                     \cup {[reference EXCEPT !.items.ids = Swapped(ids, i, j)] : i, j \in DOMAIN ids} :
             document' = [document EXCEPT !.arrays[name] = changed]
        /\ UNCHANGED stored_chunks

Damage ==
  /\ document # Unsent /\ received = Unsent /\ ~damaged
  /\ DamageChunk \/ DamageReference
  /\ damaged' = TRUE
  /\ UNCHANGED received

ReadResult ==
  /\ document # Unsent /\ received = Unsent
  /\ received' = [name \in DOMAIN stored_chunks |-> read_array(document.arrays[name], stored_chunks[name])]
  /\ UNCHANGED <<document, stored_chunks, damaged>>

ResultNext == (\E size \in Sizes : WriteResult(size)) \/ Damage \/ ReadResult

---------------------------------------------------------------------------
(* Properties. *)

(* What a client reads is the run's array, each column under its trade's id, or it is refused; and
   nothing that was not damaged is refused. *)
ReadsBackItself ==
  received # Unsent => \A name \in DOMAIN received :
    IF received[name] = Lost THEN damaged
    ELSE /\ received[name].ids = ArrayItems[name]
         /\ received[name].cells = FlattenSeq(ResultArray(name, document.size))

(* Every chunk is of whole rows and within the limit, unless one row alone is over it. *)
ChunksAreWholeRows ==
  (document # Unsent /\ ~damaged) => \A name \in DOMAIN stored_chunks :
    LET row == Len(ResultArray(name, document.size)[1])
    IN  \A c \in DOMAIN stored_chunks[name] :
          /\ Len(stored_chunks[name][c]) <= CHUNK_BYTES \/ Len(stored_chunks[name][c]) = row
          /\ row > 0 => Len(stored_chunks[name][c]) % row = 0 /\ stored_chunks[name][c] # <<>>

(* The rows are the trades sent, in their order and under their ids; an array asked for is in the
   result, one set to "none" or of an analytic not requested is not. *)
RowsAreTheirTrades ==
  document # Unsent =>
    /\ Len(document.rows) = Len(submission.portfolio)
    /\ \A n \in DOMAIN document.rows :
         LET sent == submission.portfolio[n]
         IN  /\ document.rows[n].product = sent.trade_type
             /\ Sends(sent, "trade_id") => document.rows[n].trade_id = sent.trade_id
    /\ \A name \in DOMAIN PRODUCED_BY :
         (document.arrays[name] = Unsent) =
           (PRODUCED_BY[name] \notin Range(submission.analytics) \/ built_request.outputs[name] = "none")

ResultReadsBack == ReadsBackItself /\ ChunksAreWholeRows /\ RowsAreTheirTrades

(* The wire is faithful both ways. *)
WireKeepsBoth == WireIsFaithful /\ ResultReadsBack
=============================================================================
