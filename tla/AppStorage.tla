----------------------------- MODULE AppStorage -----------------------------
(* The application storage of lib_standard_app/app_storage.c in non-volatile memory: a
   CRC, a header and the data.  A call is a list of nvm_write calls, one step each; power
   may be lost before, between and in the middle of them, where every cell is old, new or
   neither.  The CRC is the list of what it covers: no two contents share one.  The
   application reads and writes between calls, and starts again with app_storage_init. *)
EXTENDS Integers, Sequences, FiniteSets

CONSTANTS APP_STORAGE_SIZE, APP_STORAGE_ERASE_BLOCK_SIZE,   \* in cells
          StorageBytes, \* what an application writes
          MaxVersion,   \* the data version after which the counter wraps
          MaxCuts       \* power losses

ASSUME StorageAssumption ==
    /\ {APP_STORAGE_SIZE, APP_STORAGE_ERASE_BLOCK_SIZE, MaxVersion} \subseteq Nat \ {0}
    /\ StorageBytes \subseteq Nat

VARIABLES nvm,          \* [crc, tag, size, version, data]
          todo,         \* the writes of the call in progress
          running,      \* the application runs (after app_storage_init was called)
          initStatus,   \* what the last app_storage_init returned
          allowed,      \* the contents that may be found when no call is in progress
          cuts          \* power losses so far

storageVars == <<nvm, todo, running, initStatus, allowed, cuts>>

APP_STORAGE_INITIAL_APP_DATA_VERSION == 1
Cells == 0..(APP_STORAGE_SIZE - 1)
Garbage == -1           \* a cell whose write was cut

(* What cx_crc32 is computed over: the header and `size` bytes of data. *)
Covered(m) == [tag |-> m.tag, size |-> m.size, version |-> m.version,
               data |-> [i \in {c \in Cells : c < m.size} |-> m.data[i]]]

app_storage_is_initalized(m) ==
    CASE m.tag # "NVRA" -> "INVALID_HEADER"
      [] m.tag = "NVRA" /\ m.crc # Covered(m) -> "CORRUPTED"
      [] OTHER -> "SUCCESS"

(* An nvm_write: the fields of the header, or cells of the data.  update_crc reads the
   memory as it is when its turn comes. *)
HeaderWrite(fields) == [kind |-> "header", fields |-> fields]
DataWrite(off, bytes) == [kind |-> "data", off |-> off, bytes |-> bytes]
update_crc == [kind |-> "crc"]

system_header_reset ==
    <<HeaderWrite([tag |-> "NVRA", size |-> 0,
                   version |-> APP_STORAGE_INITIAL_APP_DATA_VERSION]), update_crc>>

(* Whole blocks while more than one is left, then the rest. *)
EraseBlocks ==
    LET blocks == (APP_STORAGE_SIZE - 1) \div APP_STORAGE_ERASE_BLOCK_SIZE
        Zeroes(n) == [i \in 1..n |-> 0]
        rest == APP_STORAGE_SIZE - blocks * APP_STORAGE_ERASE_BLOCK_SIZE
    IN  [k \in 1..blocks |-> DataWrite((k - 1) * APP_STORAGE_ERASE_BLOCK_SIZE,
                                       Zeroes(APP_STORAGE_ERASE_BLOCK_SIZE))]
          \o <<DataWrite(blocks * APP_STORAGE_ERASE_BLOCK_SIZE, Zeroes(rest))>>

(* A write applied: `cell` says what becomes of a field, new or, when it is cut, old or
   garbage; data is written in order, its first n bytes and what `cell` says of the next. *)
Applied(m, w, cell, n) ==
    LET Of(old, new, name) == CASE cell[name] = "new" -> new
                                [] cell[name] = "old" -> old
                                [] OTHER -> Garbage
    IN  CASE w.kind = "crc" ->
               [m EXCEPT !.crc = IF cell["crc"] = "garbage" THEN [Covered(m) EXCEPT !.tag = "torn"]
                                 ELSE IF cell["crc"] = "old" THEN @ ELSE Covered(m)]
          [] w.kind = "header" ->
               [m EXCEPT !.tag = IF "tag" \in DOMAIN w.fields /\ cell["tag"] = "new"
                                 THEN w.fields.tag ELSE @,
                         !.size = IF "size" \in DOMAIN w.fields
                                  THEN Of(@, w.fields.size, "size") ELSE @,
                         !.version = IF "version" \in DOMAIN w.fields
                                     THEN Of(@, w.fields.version, "version") ELSE @]
          [] w.kind = "data" ->
               [m EXCEPT !.data = [i \in Cells |->
                    CASE i \in w.off..(w.off + n - 1) -> w.bytes[i - w.off + 1]
                      [] i = w.off + n /\ n < Len(w.bytes) -> Of(@[i], w.bytes[n + 1], "data")
                      [] OTHER -> @[i]]]

FieldsOf(w) == IF w.kind = "header" THEN DOMAIN w.fields ELSE {w.kind}
LengthOf(w) == IF w.kind = "data" THEN Len(w.bytes) ELSE 1

nvm_write(m, w) == Applied(m, w, [f \in FieldsOf(w) |-> "new"], LengthOf(w))

app_storage_read(m, nbyte, offset) ==
    IF nbyte = 0 \/ offset + nbyte > m.size THEN <<>>
    ELSE [i \in offset..(offset + nbyte - 1) |-> m.data[i]]

(* What the application can see: app_storage_get_size, app_storage_get_data_version and
   all that it may read. *)
Content(m) == [size |-> m.size, version |-> m.version, data |-> app_storage_read(m, m.size, 0)]

(***************************************************************************)
(* Calls of the application                                                *)
(***************************************************************************)
Settled == running /\ todo = <<>>

(* The memory when all writes of a call are done. *)
After(m, writes) ==
    LET done[k \in 0..Len(writes)] == IF k = 0 THEN m ELSE nvm_write(done[k - 1], writes[k])
    IN  done[Len(writes)]

Start(writes) ==
    /\ Settled
    /\ todo' = writes
    /\ allowed' = allowed \cup {Content(After(nvm, writes))}
    /\ UNCHANGED <<nvm, running, initStatus, cuts>>

(* The write as it would be with the CRC computed before the new size is there. *)
app_storage_write_Slip(bytes, offset) ==
    LET max_offset == offset + Len(bytes)
    IN  /\ Len(bytes) > 0 /\ max_offset <= APP_STORAGE_SIZE
        /\ Start(<<DataWrite(offset, bytes), update_crc>>
                 \o (IF nvm.size < max_offset THEN <<HeaderWrite([size |-> max_offset])>> ELSE <<>>))

app_storage_write(bytes, offset) ==
    LET max_offset == offset + Len(bytes)
    IN  /\ Len(bytes) > 0 /\ max_offset <= APP_STORAGE_SIZE
        /\ Start(<<DataWrite(offset, bytes)>>
                 \o (IF nvm.size < max_offset THEN <<HeaderWrite([size |-> max_offset])>> ELSE <<>>)
                 \o <<update_crc>>)

app_storage_set_data_version(v) == Start(<<HeaderWrite([version |-> v]), update_crc>>)

app_storage_increment_data_version ==
    app_storage_set_data_version(IF nvm.version = MaxVersion
                                 THEN APP_STORAGE_INITIAL_APP_DATA_VERSION ELSE nvm.version + 1)

app_storage_reset == Start(system_header_reset \o EraseBlocks \o <<update_crc>>)

(* The next nvm_write of the call; the last one ends it. *)
Write ==
    /\ todo # <<>>
    /\ nvm' = nvm_write(nvm, Head(todo))
    /\ todo' = Tail(todo)
    /\ allowed' = IF Tail(todo) = <<>> THEN {Content(nvm')} \cap allowed ELSE allowed
    /\ UNCHANGED <<running, initStatus, cuts>>

(* Before the next write, or in the middle of it. *)
PowerLoss ==
    /\ running /\ cuts < MaxCuts
    /\ \/ nvm' = nvm
       \/ /\ todo # <<>>
          /\ \E cell \in [FieldsOf(Head(todo)) -> {"old", "new", "garbage"}],
                n \in 0..(LengthOf(Head(todo)) - 1) :
               nvm' = Applied(nvm, Head(todo), cell, n)
    /\ running' = FALSE
    /\ todo' = <<>>
    /\ cuts' = cuts + 1
    /\ UNCHANGED <<initStatus, allowed>>

Empty == [size |-> 0, version |-> APP_STORAGE_INITIAL_APP_DATA_VERSION, data |-> <<>>]

(* A memory without a valid header is set up, a corrupted one is emptied.  *)
app_storage_init ==
    LET found == app_storage_is_initalized(nvm)
    IN  /\ ~running
        /\ running' = TRUE
        /\ todo' = IF found = "SUCCESS" THEN <<>> ELSE system_header_reset
        /\ initStatus' = IF found = "CORRUPTED" THEN found ELSE "SUCCESS"
        /\ allowed' = IF found = "SUCCESS" THEN allowed \cap {Content(nvm)} ELSE allowed \cup {Empty}
        /\ UNCHANGED <<nvm, cuts>>

Never == [tag |-> "never", size |-> 0, version |-> 0, data |-> <<>>]

StorageInit ==
    /\ nvm = [crc |-> Never, tag |-> "blank", size |-> 0, version |-> 0, data |-> [i \in Cells |-> 0]]
    /\ todo = <<>>
    /\ running = FALSE
    /\ initStatus = "SUCCESS"
    /\ allowed = {}
    /\ cuts = 0

StorageNext ==
    \/ app_storage_init
    \/ \E b \in StorageBytes, n \in 1..APP_STORAGE_SIZE, offset \in Cells :
         app_storage_write([i \in 1..n |-> b], offset)
    \/ app_storage_increment_data_version
    \/ \E v \in 0..MaxVersion : app_storage_set_data_version(v)
    \/ app_storage_reset
    \/ Write
    \/ PowerLoss

StorageSpec == StorageInit /\ [][StorageNext]_storageVars

(***************************************************************************)
(* Properties                                                              *)
(***************************************************************************)
(* Between two calls the storage is valid, so that power lost there costs nothing, and it
   holds what the calls wrote: after a power loss in the middle of a call, the content
   before it or after it, or nothing at all when app_storage_init found it corrupted, and
   never a mixture (the order data, size, CRC in app_storage_write; update_crc at the end
   of every call that changes what the CRC covers). *)
StorageIntact ==
    Settled => Content(nvm) \in allowed /\ app_storage_is_initalized(nvm) = "SUCCESS"
=============================================================================
