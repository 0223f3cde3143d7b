----------------------------- MODULE MCSources ------------------------------
(***************************************************************************)
(* The sources, each on a small instance: a behaviour is one of them,      *)
(* chosen in its first state, with every configuration tried; the          *)
(* RestFanout this module extends has three parents, two at a time.        *)
(***************************************************************************)
EXTENDS RestFanout

VARIABLE which \* the instance that runs

-----------------------------------------------------------------------------
(* Postgres, by cursor: two rows, every boundary and NULL policy, and stamps that come twice. *)
CursorConfigs ==
  {c \in [coarse : BOOLEAN, inclusive : BOOLEAN, lag : {0, 1},
          nulls : {"exclude", "include", "error"}, initial : {Null, 2}, end : {Null, 2}] :
     /\ c.coarse => c.inclusive /\ c.lag = 0 /\ c.nulls = "exclude" /\ c.initial = Null /\ c.end = Null
     /\ c.nulls # "exclude" => c.inclusive /\ c.lag = 0 /\ c.end = Null
     /\ c.initial # Null => c.end = Null /\ c.lag = 0 /\ c.nulls = "exclude"}

VARIABLES pg_config, pg_table, pg_newest, pg_phase, pg_rest, pg_tracker,
          pg_pushed, pg_checkpoint, pg_committed, pg_got, pg_twice

pgVars == <<pg_config, pg_table, pg_newest, pg_phase, pg_rest, pg_tracker,
            pg_pushed, pg_checkpoint, pg_committed, pg_got, pg_twice>>
Pg == INSTANCE PgCursor WITH
  Keys <- {1, 2}, MaxValue <- 3, MaxBatch <- 2, Null <- Null, Configs <-
  CursorConfigs,
  config <- pg_config, table <- pg_table, newest <- pg_newest, phase <-
  pg_phase, rest <- pg_rest, tracker <- pg_tracker, pushed <- pg_pushed,
  checkpoint <- pg_checkpoint, committed <- pg_committed, got <- pg_got, twice
  <- pg_twice

-----------------------------------------------------------------------------
(* Oracle, by cursor: values of either sign, with and without a fraction, and two in a unit. *)
Hundredths == {-150, -145, 995, 998, 1000}

VARIABLES ora_cursored, ora_finer, ora_table, ora_phase, ora_position,
          ora_cursor, ora_pushed, ora_ended, ora_committed, ora_got, ora_twice

oraVars == <<ora_cursored, ora_finer, ora_table, ora_phase, ora_position,
             ora_cursor, ora_pushed, ora_ended, ora_committed, ora_got,
             ora_twice>>
Ora == INSTANCE OraCursor WITH
  Cents <- Hundredths, MaxRow <- 2, BatchRows <- 1, Null <- Null,
  cursored <- ora_cursored, finer <- ora_finer, table <- ora_table, phase <-
  ora_phase, position <- ora_position, cursor <- ora_cursor, pushed <-
  ora_pushed, ended <- ora_ended, committed <- ora_committed, got <- ora_got,
  twice <- ora_twice

-----------------------------------------------------------------------------
(* One file of the file source, edited twice. *)
VARIABLES file_config, file_content, file_stamp, file_versions, file_swapped,
          file_phase, file_listing, file_copy, file_at, file_held, file_tail,
          file_checkpoint, file_pushed, file_committed, file_rows, file_torn

fileVars == <<file_config, file_content, file_stamp, file_versions,
              file_swapped, file_phase, file_listing, file_copy, file_at,
              file_held, file_tail, file_checkpoint, file_pushed,
              file_committed, file_rows, file_torn>>
File == INSTANCE FileRead WITH
  Units <- {"u", "newline"}, NL <- "newline", MaxSize <- 3, MaxStamp <- 2,
  MaxRows <- 3, SlabUnits <- 2, TailWindow <- 2, Null <- Null,
  config <- file_config, content <- file_content, stamp <- file_stamp,
  versions <- file_versions, swapped <- file_swapped, phase <- file_phase,
  listing <- file_listing, copy <- file_copy, at <- file_at, held <-
  file_held, tail <- file_tail, checkpoint <- file_checkpoint, pushed <-
  file_pushed, committed <- file_committed, rows <- file_rows, torn <-
  file_torn

-----------------------------------------------------------------------------
(* A REST stream, with every paginator, over two full pages. *)
\* Every family with every stop; the request bodies and the wildcard path with
\* the plain incremental stream only.
StreamConfigs ==
  {c \in [family : {"none", "page", "offset", "token"}, stop : {"none", "pages", "count"},
          post : {"get", "bare", "object", "list"}, wildcard : BOOLEAN,
          incremental : BOOLEAN, stuck : BOOLEAN] :
     c.post # "get" \/ c.wildcard => c.stop = "none" /\ c.incremental}

VARIABLES rest_config, rest_items, rest_phase, rest_since, rest_ask,
          rest_asked, rest_pages, rest_total, rest_send, rest_page, rest_max,
          rest_pushed, rest_checkpoint, rest_committed, rest_got, rest_sent,
          rest_clean, rest_trouble, rest_ignored

restVars == <<rest_config, rest_items, rest_phase, rest_since, rest_ask,
              rest_asked, rest_pages, rest_total, rest_send, rest_page,
              rest_max, rest_pushed, rest_checkpoint, rest_committed,
              rest_got, rest_sent, rest_clean, rest_trouble, rest_ignored>>
Rest == INSTANCE RestRead WITH
  MaxItems <- 4, MaxValue <- 3, PageSize <- 2, MaxPages <- 4, MaxTrouble <- 2,
  Configs <- StreamConfigs, Null <- Null,
  config <- rest_config, items <- rest_items, phase <- rest_phase, since <-
  rest_since, ask <- rest_ask, asked <- rest_asked, pages <- rest_pages, total
  <- rest_total, send <- rest_send, page <- rest_page, max <- rest_max, pushed
  <- rest_pushed, checkpoint <- rest_checkpoint, committed <- rest_committed,
  got <- rest_got, sent <- rest_sent, clean <- rest_clean, trouble <-
  rest_trouble, ignored <- rest_ignored

-----------------------------------------------------------------------------
(* A fan-out whose pages outnumber the channel. *)
\* The parents of the fan-out this module extends, and of this one.
ThreeParents == <<<<1, 3>>, <<>>, <<2>>>>
ManyPages == <<<<1, 3, 3, 4>>, <<2>>>>

VARIABLES full_child, full_chan, full_fwd, full_driven, full_cached,
          full_expired, full_generation, full_lock, full_valid, full_issued,
          full_revoked, full_expirations, full_failed, full_closed, full_out,
          full_checkpoint, full_joined

fullVars == <<full_child, full_chan, full_fwd, full_driven, full_cached,
              full_expired, full_generation, full_lock, full_valid,
              full_issued, full_revoked, full_expirations, full_failed,
              full_closed, full_out, full_checkpoint, full_joined>>
Full == INSTANCE RestFanout WITH
  Lists <- ManyPages, Limit <- 1, MaxRevoked <- 1, MaxExpired <- 1, MaxFailed
  <- 1, CanClose <- FALSE, Null <- Null,
  child <- full_child, chan <- full_chan, fwd <- full_fwd, driven <-
  full_driven, cached <- full_cached, expired <- full_expired, generation <-
  full_generation, lock <- full_lock, valid <- full_valid, issued <-
  full_issued, revoked <- full_revoked, expirations <- full_expirations,
  failed <- full_failed, closed <- full_closed, out <- full_out, checkpoint <-
  full_checkpoint, joined <- full_joined

-----------------------------------------------------------------------------
(* A binary COPY of up to three rows, of which some do not fit. *)
CopiedRows == {<<0, -1>>, <<1, 2>>, <<-1, 1>>, <<1>>}
CopiedTables == UNION {[1..n -> CopiedRows] : n \in 0..3}

VARIABLES copy_table, copy_sent, copy_carry, copy_state, copy_builder,
          copy_delivered, copy_status

copyVars == <<copy_table, copy_sent, copy_carry, copy_state, copy_builder,
              copy_delivered, copy_status>>
Copy == INSTANCE PgCopy WITH
  Tables <- CopiedTables, Width <- 2, NotNull <- {1}, BatchBytes <- 7,
  BatchRows <- 2,
  table <- copy_table, sent <- copy_sent, carry <- copy_carry, state <-
  copy_state, builder <- copy_builder, delivered <- copy_delivered, status <-
  copy_status

-----------------------------------------------------------------------------
(* The assumptions of the modules hold of these instances. *)
ASSUME InstancesSane ==
  /\ Full!FanoutAssumption /\ Pg!CursorAssumption
  /\ Rest!RestAssumption /\ Ora!OraAssumption

allVars == <<which, pgVars, oraVars, fileVars, restVars, vars, fullVars,
             copyVars>>

(* What an instance that does not run would have chosen. *)
MCInit ==
  /\ which \in {"pg", "ora", "file", "rest", "fan", "full", "copy"}
  /\ Pg!Init
  /\ which # "pg" => pg_config = CHOOSE c \in CursorConfigs : Pg!Resolves(c)
  /\ Ora!Init
  /\ which # "ora" => ora_cursored /\ ~ora_finer
  /\ File!Init
  /\ which # "file" => file_config = [format |-> "jsonl", remote |-> FALSE] /\ file_content = <<>>
  /\ Rest!Init
  /\ which # "rest" => rest_config = (CHOOSE c \in StreamConfigs : Rest!Valid(c)) /\ rest_items = <<>>
  /\ Init
  /\ Full!Init
  /\ Copy!Init
  /\ which # "copy" => copy_table = <<>>

MCNext ==
  \/ which = "pg" /\ Pg!Next
       /\ UNCHANGED <<which, oraVars, fileVars, restVars, vars, fullVars,
                             copyVars>>
  \/ which = "ora" /\ Ora!Next
       /\ UNCHANGED <<which, pgVars, fileVars, restVars, vars, fullVars,
                             copyVars>>
  \/ which = "file" /\ File!Next
       /\ UNCHANGED <<which, pgVars, oraVars, restVars, vars, fullVars,
                             copyVars>>
  \/ which = "rest" /\ Rest!Next
       /\ UNCHANGED <<which, pgVars, oraVars, fileVars, vars, fullVars,
                             copyVars>>
  \/ which = "fan" /\ Next
       /\ UNCHANGED <<which, pgVars, oraVars, fileVars, restVars, fullVars,
                             copyVars>>
  \/ which = "full" /\ Full!Next
       /\ UNCHANGED <<which, pgVars, oraVars, fileVars, restVars, vars,
                             copyVars>>
  \/ which = "copy" /\ Copy!Next
       /\ UNCHANGED <<which, pgVars, oraVars, fileVars, restVars, vars,
                             fullVars>>

MCSpec == MCInit /\ [][MCNext]_allVars

-----------------------------------------------------------------------------
(* What is checked: the properties of the modules, under names of their own. *)

\* Nothing is skipped: what a committed cursor stands for has arrived
\* (PgCursor!NothingSkipped, FileRead!VouchedIsDelivered, RestRead!CursorCovers,
\* RestFanout!CheckpointCoversChildren), the cursor keeps up with the read
\* (OraCursor!CheckpointFollowsRead), and a read that ends well has decoded
\* the whole of its stream (PgCopy!DecodesWhole).  RestFanout!FeedInv is why the
\* fan-out's checkpoint covers its children.
NothingSkipped ==
  /\ which = "pg" => Pg!NothingSkipped
  /\ which = "file" => File!VouchedIsDelivered
  /\ which = "rest" => Rest!CursorCovers
  /\ which = "fan" => FeedInv /\ CheckpointCoversChildren
  /\ which = "full" => Full!FeedInv /\ Full!CheckpointCoversChildren
  /\ which = "ora" => Ora!CheckpointFollowsRead
  /\ which = "copy" => Copy!DecodesWhole

\* Nothing is repeated by a source that says so, nor mixed (PgCursor!DeliveredOnce,
\* OraCursor!SkipsNoneRepeatsFiner, FileRead!OneVersion, RestRead!WholeStreamOnce).
NothingRepeated ==
  /\ which = "pg" => Pg!TypeOK /\ Pg!DeliveredOnce
  /\ which = "ora" => Ora!SkipsNoneRepeatsFiner
  /\ which = "file" => File!OneVersion
  /\ which = "rest" => Rest!WholeStreamOnce

\* A committed cursor never goes back (PgCursor!StateAdvances).
StateAdvances == Pg!StateAdvances

\* Concurrent children share one fetch of a token, and one revocation fails
\* nobody (RestFanout!OneFetchPerToken, OneRevocationForgiven), for the reason
\* RestFanout!TokenInv gives.
TokenShared ==
  /\ which = "fan" => /\ TypeOK /\ TokenInv
                      /\ OneFetchPerToken /\ OneRevocationForgiven
  /\ which = "full" => /\ Full!TypeOK /\ Full!TokenInv
                       /\ Full!OneFetchPerToken /\ Full!OneRevocationForgiven

\* A read neither asks for ever nor waits on itself (RestRead!BoundedRequests,
\* RestFanout!GoesOn).
ReadGoesOn ==
  /\ which = "rest" => Rest!BoundedRequests
  /\ which = "fan" => GoesOn
  /\ which = "full" => Full!GoesOn
=============================================================================
