---------------------------- MODULE DurableMedia ----------------------------
(***************************************************************************)
(* The durable store and its card: the region in RAM that holds the blobs  *)
(* (durable), the two slots on the SD card that hold its last flush        *)
(* (durable_media, drivers::sdhci), the boot witness that loads, counts    *)
(* and flushes once per boot (bootstrap::witness), and the services that   *)
(* put and get while the machine runs (blob_server, calibration).          *)
(*                                                                         *)
(* The machine may be reset or lose power between any two steps, and any   *)
(* command to the card may be refused or go unanswered.  A sector that was *)
(* being written when that happened holds the old bytes, the new ones or   *)
(* neither.  The card's bytes are kept apart by what the checksum tells    *)
(* apart: two payloads have the same CRC only when they are the same.      *)
(***************************************************************************)
EXTENDS Integers, Sequences, FiniteSets

CONSTANTS PAYLOAD_SECTORS,  \* sectors a flushed region takes
          OP_COND_ATTEMPTS, \* how often ACMD41 is asked before giving up
          MAX_BLOBS,        \* blobs the region holds
          SectorOf,         \* which payload sector a key's record falls in
          BlobKeys,         \* the keys agents use: `boot' is reserved, by convention
          WireValues,       \* the contents a blob request may carry
          Records,          \* the calibrations a user may confirm
          MAX_BOOTS         \* bound: boots explored

VARIABLES slot,     \* the card's two slots: header and payload sectors
          region,   \* the region in RAM: its blobs by key, or Undecodable
          pc,       \* where the boot stands
          walk,     \* the SD init walk: host, state, attempt
          winner,   \* what media_load returned: slot and sequence number
          witness,  \* whether open returned one, for commit to flush
          image,    \* "product" commits at once, "oracle" after its demos
          writing,  \* the flush in progress: slot, sequence, payload, sector
          active,   \* the touch calibration the panel driver uses
          acked,    \* ledger: puts answered with success since the reset
          confirmed, \* ledger: the last calibration confirmed to the user
          boots     \* bound: boots so far

storeVars == <<slot, region, pc, walk, winner, witness, image, writing, active, acked,
               confirmed, boots>>

BOOT == 1
CFG == 2
TOUCH_CAL == 3
Slots == {"A", "B"}
Hosts == <<"emmc2", "arasan">>

\* A stored value is its length and its content.  The wire carries up to seven
\* bytes; a calibration record is longer than that.
COUNTER_LEN == 4
MAX_WIRE_BYTES == 7
CALIBRATION_RECORD_LEN == 28
Nothing == [k \in {} |-> <<0, 0>>]
Undecodable == [k \in {0} |-> <<0, 0>>]
Torn == Undecodable
DEFAULT == <<0, 0>>

\* The keys in use.  Clients of the blob server leave the counter's key alone,
\* a request carries at most the bytes of its message, and a confirmed
\* calibration is one whole record.
Keys == {BOOT, CFG, TOUCH_CAL} \cup BlobKeys

ASSUME StoreAssumption ==
  /\ PAYLOAD_SECTORS \in Nat \ {0}
  /\ BlobKeys \subseteq Nat \ {0, BOOT}
  /\ SectorOf \in [Keys -> 1..PAYLOAD_SECTORS]
  /\ WireValues \subseteq (0..MAX_WIRE_BYTES) \X Nat
  /\ Records \subseteq {CALIBRATION_RECORD_LEN} \X Nat

-----------------------------------------------------------------------------
(* The region: durable::put and durable::get, each under the region's lock *)

Blobs(r) == IF r = Undecodable THEN Nothing ELSE r

\* Mutant: a full region gives up a blob for the new one.
PutEvicts(r, k, v) ==
  [ok |-> TRUE,
   region |-> IF k \in DOMAIN Blobs(r) \/ Cardinality(DOMAIN Blobs(r)) < MAX_BLOBS
                THEN [x \in DOMAIN Blobs(r) \cup {k} |->
                        IF x = k THEN v ELSE Blobs(r)[x]]
                ELSE [x \in {k} |-> v]]

\* put re-encodes the whole region: an undecodable one starts empty, a key it
\* holds is replaced, a new one is appended while there is room.
Put(r, k, v) ==
  LET b == Blobs(r)
  IN  IF k \in DOMAIN b \/ Cardinality(DOMAIN b) < MAX_BLOBS
        THEN [ok |-> TRUE,
              region |-> [x \in DOMAIN b \cup {k} |-> IF x = k THEN v ELSE b[x]]]
        ELSE [ok |-> FALSE, region |-> r]

\* A put and its answer, entered in the ledger when it is a success.
AckedPut(k, v) ==
  LET put == Put(region, k, v)
  IN  /\ region' = put.region
      /\ acked' = IF put.ok THEN [x \in DOMAIN acked \cup {k} |-> IF x = k THEN v ELSE acked[x]]
                  ELSE acked

\* get with a buffer of n bytes: the value, when it is there and fits.
Get(r, k, n) == IF /\ r # Undecodable
                   /\ k \in DOMAIN r
                   /\ r[k][1] <= n
                  THEN r[k] ELSE DEFAULT

-----------------------------------------------------------------------------
(* The card *)

NoHeader == [seq |-> 0, crc |-> <<>>]

\* The region's bytes cut into sectors, and put together again.
Sectors(r) == [i \in 1..PAYLOAD_SECTORS |->
                 [k \in {x \in DOMAIN r : SectorOf[x] = i} |-> r[k]]]
Whole(p) == [k \in UNION {DOMAIN p[i] : i \in DOMAIN p} |-> p[SectorOf[k]][k]]

EncodeHeader(seq, payload) == [seq |-> seq, crc |-> payload]

Valid(s) == s.header # NoHeader /\ s.header.crc = s.payload

PickLatest(a, b) == IF a.header.seq >= b.header.seq THEN "A" ELSE "B"

PickWinner(s) ==
  CASE ~Valid(s["A"]) /\ ~Valid(s["B"]) -> "none"
    [] Valid(s["A"]) /\ ~Valid(s["B"]) -> "A"
    [] ~Valid(s["A"]) /\ Valid(s["B"]) -> "B"
    [] OTHER -> PickLatest(s["A"], s["B"])

\* Mutant: the flush goes to the slot that holds the good state.
NextSlotSame(w) == IF w = "none" THEN "A" ELSE w

NextSlot(w) == IF w = "A" THEN "B" ELSE "A"

\* What a sector may hold when its write was cut short or refused.
AfterWrite(old, new) == {old, new, Torn}

-----------------------------------------------------------------------------
(* The boot *)

NoWrite == [slot |-> "A", seq |-> 0, payload |-> <<>>, next |-> 0]
NoWinner == [slot |-> "none", seq |-> 0]

StoreInit ==
  /\ slot = [s \in Slots |-> [header |-> NoHeader,
                              payload |-> [i \in 1..PAYLOAD_SECTORS |-> Torn]]]
  /\ region = Undecodable
  /\ pc = "off"
  /\ walk = [host |-> 1, state |-> "GoIdle", attempt |-> 0]
  /\ winner = NoWinner
  /\ witness = FALSE
  /\ image \in {"product", "oracle"}
  /\ writing = NoWrite
  /\ active = DEFAULT
  /\ acked = Nothing
  /\ confirmed = DEFAULT
  /\ boots = 0

\* The machine starts: the first host's init walk.
PowerOn ==
  /\ pc = "off"
  /\ boots < MAX_BOOTS
  /\ boots' = boots + 1
  /\ pc' = "init"
  /\ walk' = [host |-> 1, state |-> "GoIdle", attempt |-> 0]
  /\ UNCHANGED <<slot, region, winner, witness, image, writing, active, acked, confirmed>>

\* The reply the card gives in a state, and the state it leads to: advance.
\* "refused" ends the walk.
Replies == {"echo", "mismatch", "busy", "ready", "sdsc"}

Advance(w, reply) ==
  CASE w.state = "GoIdle" -> [w EXCEPT !.state = "IfCond"]
    [] w.state = "IfCond" /\ reply = "echo" ->
         [w EXCEPT !.state = "OpCondPrefix", !.attempt = 0]
    [] w.state = "OpCondPrefix" -> [w EXCEPT !.state = "OpCond"]
    [] w.state = "OpCond" /\ reply = "busy" /\ w.attempt + 1 < OP_COND_ATTEMPTS ->
         [w EXCEPT !.state = "OpCondPrefix", !.attempt = @ + 1]
    [] w.state = "OpCond" /\ reply = "ready" -> [w EXCEPT !.state = "Cid"]
    [] w.state = "Cid" -> [w EXCEPT !.state = "Rca"]
    [] w.state = "Rca" -> [w EXCEPT !.state = "Select"]
    [] w.state = "Select" -> [w EXCEPT !.state = "Done"]
    [] OTHER -> [w EXCEPT !.state = "refused"]

\* init_card's loop: one command, answered, unanswered or refused by the host.
\* When the EMMC2 host gives up the walk starts again on the Arasan host; when
\* both did, the boot goes on with the region alone.
InitCard ==
  /\ pc = "init"
  /\ \E w \in {Advance(walk, r) : r \in Replies} \cup {[walk EXCEPT !.state = "refused"]} :
       IF w.state # "refused"
         THEN walk' = w /\ pc' = IF w.state = "Done" THEN "load" ELSE "init"
         ELSE IF walk.host < Len(Hosts)
                THEN /\ walk' = [host |-> walk.host + 1, state |-> "GoIdle", attempt |-> 0]
                     /\ pc' = "init"
                ELSE walk' = w /\ pc' = "display"
  /\ UNCHANGED <<slot, region, winner, witness, image, writing, active, acked, confirmed, boots>>

\* witness::open once the card answers: the partition table and both slots are
\* read, the winner replaces the region, and only then the counter is read,
\* advanced and put back.  Any failed read leaves the region as it was.
OpenRegion(w) ==
  LET r == IF w = "none" THEN region ELSE Whole(slot[w].payload)
      prev == Get(r, BOOT, COUNTER_LEN)
      n == IF prev[1] = COUNTER_LEN THEN prev[2] ELSE 0
      put == Put(r, BOOT, <<COUNTER_LEN, n + 1>>)
  IN  [ok |-> put.ok, region |-> put.region]

Open ==
  /\ pc = "load"
  /\ \/ pc' = "display" /\ UNCHANGED <<region, winner, witness>>
     \/ LET w == PickWinner(slot)
            o == OpenRegion(w)
        IN  /\ region' = o.region
            /\ winner' = IF w = "none" THEN NoWinner
                         ELSE [slot |-> w, seq |-> slot[w].header.seq]
            /\ witness' = o.ok
            /\ pc' = IF o.ok /\ image = "product" THEN "commit" ELSE "display"
  /\ UNCHANGED <<slot, walk, image, writing, active, acked, confirmed, boots>>

\* The oracle's demos put their key before the flush that carries it.
Demos ==
  /\ pc = "demos"
  /\ AckedPut(CFG, <<MAX_WIRE_BYTES, 0>>)
  /\ pc' = IF witness THEN "commit" ELSE "running"
  /\ UNCHANGED <<slot, walk, winner, witness, image, writing, active, confirmed, boots>>

\* commit: the region is copied once, then the other slot's payload sectors are
\* written in order and its header last.
Commit ==
  /\ pc = "commit"
  /\ writing' = [slot |-> NextSlot(winner.slot), seq |-> winner.seq + 1,
                 payload |-> Sectors(region), next |-> 1]
  /\ pc' = "flush"
  /\ UNCHANGED <<slot, region, walk, winner, witness, image, active, acked, confirmed, boots>>

\* Writing sector i of a slot: the header after the payload.
IsHeader(i) == i = PAYLOAD_SECTORS + 1

Written(sl, w, torn) ==
  LET i == w.next
  IN  IF IsHeader(i)
        THEN {[sl EXCEPT ![w.slot].header = h] :
                h \in IF torn THEN {sl[w.slot].header, NoHeader, EncodeHeader(w.seq, w.payload)}
                      ELSE {EncodeHeader(w.seq, w.payload)}}
        ELSE {[sl EXCEPT ![w.slot].payload[i] = c] :
                c \in IF torn THEN AfterWrite(sl[w.slot].payload[i], w.payload[i])
                      ELSE {w.payload[i]}}

\* The product flushes before it brings up the panel, the oracle after its demos.
AfterCommit == IF image = "product" THEN "display" ELSE "running"

\* One write_block of the flush: done, or refused with the sector in doubt, in
\* which case the flush gives up and the boot goes on.
Flush ==
  /\ pc = "flush"
  /\ \/ /\ slot' \in Written(slot, writing, FALSE)
        /\ IF writing.next = PAYLOAD_SECTORS + 1
             THEN pc' = AfterCommit /\ writing' = NoWrite
             ELSE pc' = pc /\ writing' = [writing EXCEPT !.next = @ + 1]
     \/ /\ slot' \in Written(slot, writing, TRUE)
        /\ pc' = AfterCommit
        /\ writing' = NoWrite
  /\ UNCHANGED <<region, walk, winner, witness, image, active, acked, confirmed, boots>>

\* The panel comes up with the stored calibration, or with the default one.
LoadTouchCalibration ==
  /\ pc = "display"
  /\ LET c == Get(region, TOUCH_CAL, CALIBRATION_RECORD_LEN)
     IN  active' = IF c[1] = CALIBRATION_RECORD_LEN THEN c ELSE DEFAULT
  /\ pc' = IF image = "product" THEN "running" ELSE "demos"
  /\ UNCHANGED <<slot, region, walk, winner, witness, image, writing, acked, confirmed, boots>>

-----------------------------------------------------------------------------
(* The services of a running machine *)

\* Tasks run once the kernel is up; the oracle's demos run beside them.
TasksRun == pc = "running" \/ (image = "oracle" /\ pc \in {"demos", "commit", "flush"})

\* blob_server::handle for a PUT: the reply says whether the store took it.
BlobPut(k, v) ==
  /\ TasksRun
  /\ AckedPut(k, v)
  /\ UNCHANGED <<slot, pc, walk, winner, witness, image, writing, active, confirmed, boots>>

\* The reply blob_server::handle gives to a GET.
BlobReply(r, k) ==
  CASE r = Undecodable -> "store_error"
    [] r # Undecodable /\ k \notin DOMAIN r -> "missing"
    [] r # Undecodable /\ k \in DOMAIN r /\ r[k][1] > MAX_WIRE_BYTES -> "store_error"
    [] OTHER -> "ok"

\* calibration::commit: the record is put, then the panel driver takes it; the
\* driver refuses when no panel came up.
Calibrate(c) ==
  /\ TasksRun
  /\ AckedPut(TOUCH_CAL, c)
  /\ \E panel \in BOOLEAN :
       LET done == panel /\ Put(region, TOUCH_CAL, c).ok
       IN  /\ active' = IF done THEN c ELSE active
           /\ confirmed' = IF done THEN c ELSE confirmed
  /\ UNCHANGED <<slot, pc, walk, winner, witness, image, writing, boots>>

\* A reset or a power cut: the region survives the one and may not survive the
\* other, and a sector being written is in doubt.
Reset ==
  /\ pc # "off"
  /\ slot' \in IF pc = "flush" THEN Written(slot, writing, TRUE) ELSE {slot}
  /\ region' \in {region, Undecodable}
  /\ pc' = "off"
  /\ walk' = [host |-> 1, state |-> "GoIdle", attempt |-> 0]
  /\ winner' = NoWinner
  /\ witness' = FALSE
  /\ writing' = NoWrite
  /\ active' = DEFAULT
  /\ acked' = Nothing
  /\ UNCHANGED <<image, confirmed, boots>>

BootStoreStep == InitCard \/ Open \/ Demos \/ Commit \/ Flush \/ LoadTouchCalibration

StoreNext ==
  \/ PowerOn
  \/ BootStoreStep
  \/ \E k \in BlobKeys, v \in WireValues : BlobPut(k, v)
  \/ \E c \in Records : Calibrate(c)
  \/ Reset

StoreSpec == StoreInit /\ [][StoreNext]_storeVars /\ WF_storeVars(BootStoreStep)

-----------------------------------------------------------------------------
(* Properties *)

\* The region the card holds: what the next boot's load would restore.
OnCard == LET w == PickWinner(slot)
          IN  IF w = "none" THEN [seq |-> 0, region |-> Nothing]
              ELSE [seq |-> slot[w].header.seq, region |-> Whole(slot[w].payload)]

\* What the card holds only ever moves forward, and only as a whole: a step
\* leaves the state the next load would restore as it is, or replaces it by the
\* region of the flush in progress under the next sequence number.  A cut in
\* the middle of a flush loses at most that flush (durable_media, ADR-0066).
LastGoodSurvives ==
  [][OnCard' = OnCard \/ OnCard' = [seq |-> OnCard.seq + 1,
                                    region |-> Whole(writing.payload)]]_storeVars

\* The boot counter on the card counts boots: a flush that reaches the card
\* carries exactly one more than the flush before it, whatever failed between
\* the two (witness::open reads the counter after the restore, before any put).
CounterSteps ==
  [][OnCard'.seq # OnCard.seq /\ OnCard.seq # 0
       => OnCard'.region[BOOT][2] = OnCard.region[BOOT][2] + 1]_storeVars

\* At every moment, a sector half written included, the region a reset would
\* find on the card is the last complete one or the one that just became
\* complete, and a completed flush moves the boot counter by exactly one
\* (media_load, flush_witness).
CardSteps == LastGoodSurvives /\ CounterSteps

\* A put the store has acknowledged stays readable, with that value, until the
\* machine is reset: no later put displaces it, refused ones included, and a
\* blob GET returns it whenever it fits a reply.
AckedKept ==
  TasksRun =>
    \A k \in DOMAIN acked :
      /\ Get(region, k, CALIBRATION_RECORD_LEN) = acked[k]
      /\ (BlobReply(region, k) = "ok") = (acked[k][1] <= MAX_WIRE_BYTES)

=============================================================================
