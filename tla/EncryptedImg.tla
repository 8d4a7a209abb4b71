---------------------------- MODULE EncryptedImg ----------------------------
(***************************************************************************)
(* esp_encrypted_img: decrypts a pre-encrypted image that the application  *)
(* hands over in pieces of any length.  One handle walks the header (magic,*)
(* key, IV, size of the binary, authentication tag, reserved bytes) and    *)
(* then decrypts the binary in whole blocks, keeping what is left of a     *)
(* block for the next piece.  A byte is represented by its place in the    *)
(* image.  Cipher and key exchange are external: they refuse an image that *)
(* is not genuine at its magic, its key or its IV, or at the end by its    *)
(* tag; they may also fail by themselves, and memory may run out.  An      *)
(* application stops when a call has failed.                               *)
(***************************************************************************)
EXTENDS Integers, Sequences

CONSTANTS
  MagicSize, KeySize, IvSize, BinSizeData, AuthSize, Reserved,
  Block,       \* CACHE_BUF_SIZE
  Lengths,     \* lengths of the binary
  Trailing,    \* numbers of bytes behind the binary
  Pieces       \* lengths of a piece

ConstantsOK ==
  /\ {MagicSize, KeySize, IvSize, BinSizeData, AuthSize, Reserved, Block} \subseteq Nat \ {0}
  /\ BinSizeData <= Block /\ Block <= KeySize /\ MagicSize <= KeySize
  /\ Lengths \subseteq Nat /\ Trailing \subseteq Nat /\ Pieces \subseteq Nat

VARIABLES
  image,      \* length of the binary, bytes behind it, and whether it is genuine
  supplied,   \* bytes handed over so far
  at,         \* the running call has used the bytes up to here (curr_index)
  state,      \* handle->state, "none" once the handle is freed
  read,       \* binary_file_read
  length,     \* binary_file_len
  key, iv, auth,    \* the bytes used as key, IV and tag
  cache,      \* the first cache_buf_len bytes of cache_buf
  capacity,   \* its allocated size
  out,        \* the bytes decrypted
  phase       \* "idle", "running", "failed", "ok": between or in calls, the end

fields == <<key, iv, auth, length>>
vars == <<image, supplied, at, state, read, fields, cache, capacity, out, phase>>

Smaller(a, b) == IF a < b THEN a ELSE b

Size == [magic |-> MagicSize, key |-> KeySize, iv |-> IvSize,
         binsize |-> BinSizeData, auth |-> AuthSize, extra |-> Reserved]
\* The fields follow one another, and then the binary.
NextState == [magic |-> "key", key |-> "iv", iv |-> "binsize",
              binsize |-> "auth", auth |-> "extra", extra |-> "decode"]

\* Where a field starts in a well-formed image, and where the binary does.
Start == LET ivAt == MagicSize + KeySize
             sizeAt == ivAt + IvSize
             authAt == sizeAt + BinSizeData
             extraAt == authAt + AuthSize
         IN [magic |-> 0, key |-> MagicSize, iv |-> ivAt, binsize |-> sizeAt,
             auth |-> authAt, extra |-> extraAt, decode |-> extraAt + Reserved]
Header == Start.decode
Total == Header + image.binary + image.trailing

Bytes(from, n) == [i \in 1..n |-> from + i]

Init ==
  /\ image \in [binary : Lengths, trailing : Trailing, genuine : BOOLEAN]
  /\ supplied = 0 /\ at = 0
  /\ state = "magic" /\ read = 0 /\ length = 0
  /\ key = <<>> /\ iv = <<>> /\ auth = <<>>
  /\ cache = <<>> /\ capacity = KeySize
  /\ out = <<>> /\ phase = "idle"

-----------------------------------------------------------------------------
(* esp_encrypted_img_decrypt_data().                                       *)

DecryptData(n) ==
  /\ phase = "idle" /\ supplied + n <= Total
  /\ supplied' = supplied + n /\ phase' = "running"
  /\ UNCHANGED <<image, at, state, read, fields, cache, capacity, out>>

Left == supplied - at
Taken == Smaller(Left, Size[state] - read)
InHeader == phase = "running" /\ state \in DOMAIN Size
Whole == read + Taken = Size[state]

\* The field is not complete: what there is is kept, and the call returns.
ReadPart ==
  /\ InHeader /\ ~Whole
  /\ at' = supplied /\ read' = read + Taken /\ phase' = "idle"
  /\ cache' = IF state \in {"magic", "key", "binsize"}
                THEN cache \o Bytes(at, Taken) ELSE cache
  /\ iv' = IF state = "iv" THEN iv \o Bytes(at, Taken) ELSE iv
  /\ auth' = IF state = "auth" THEN auth \o Bytes(at, Taken) ELSE auth
  /\ UNCHANGED <<image, supplied, state, key, length, capacity, out>>

\* The field is complete, and the same call goes on with the next.  With the
\* key the cache shrinks to a block.
ReadField ==
  /\ InHeader /\ Whole
  /\ at' = at + Taken /\ state' = NextState[state]
  /\ read' = 0 /\ cache' = <<>>
  /\ key' = IF state = "key" THEN cache \o Bytes(at, Taken) ELSE key
  /\ capacity' = IF state = "key" THEN Block ELSE capacity
  /\ iv' = IF state = "iv" THEN iv \o Bytes(at, Taken) ELSE iv
  /\ length' = IF state = "binsize" THEN image.binary ELSE length
  /\ auth' = IF state = "auth" THEN auth \o Bytes(at, Taken) ELSE auth
  /\ UNCHANGED <<image, supplied, out, phase>>

\* A wrong magic, or a key or a cipher that cannot be set up, which may happen
\* to a genuine image too.
FieldFails ==
  /\ InHeader /\ Whole /\ state \in {"magic", "key", "iv"}
  /\ state = "magic" => ~image.genuine
  /\ phase' = "failed"
  /\ UNCHANGED <<image, supplied, at, state, read, fields, cache, capacity, out>>

-----------------------------------------------------------------------------
(* process_bin().                                                          *)

Decoding == phase = "running" /\ state = "decode"

\* Not the end of the binary: whole blocks are decrypted, first the one begun
\* in the cache, and what is left goes to the cache.
ProcessBin ==
  /\ Decoding /\ read + Left # length
  /\ read' = read + Left /\ at' = supplied
  /\ LET fill == IF cache = <<>> THEN 0 ELSE Smaller(Block - Len(cache), Left)
         first == cache \o Bytes(at, fill)
         rest == (Left - fill) % Block IN
     /\ IF cache # <<>> /\ Len(first) # Block
          THEN cache' = first /\ UNCHANGED out
          ELSE /\ out' = out \o first \o Bytes(at + fill, Left - fill - rest)
               /\ cache' = Bytes(supplied - rest, rest)
  /\ phase' = "idle"
  /\ UNCHANGED <<image, supplied, state, fields, capacity>>

\* The bug: the cache that ends the binary is not emptied.
ProcessBinEndKeepsCache ==
  /\ Decoding /\ read + Left = length
  /\ read' = length /\ at' = supplied
  /\ out' = out \o cache \o Bytes(at, Left)
  /\ cache' = cache \o Bytes(at, Smaller(Block - Len(cache), Left))
  /\ phase' = "idle"
  /\ UNCHANGED <<image, supplied, state, fields, capacity>>

\* The end of the binary: the cache and all that is left are decrypted.
ProcessBinEnd ==
  /\ Decoding /\ read + Left = length
  /\ read' = length /\ at' = supplied
  /\ out' = out \o cache \o Bytes(at, Left)
  /\ cache' = <<>>
  /\ phase' = "idle"
  /\ UNCHANGED <<image, supplied, state, fields, capacity>>

\* process_bin() fails: there is no memory for what it is to decrypt, before
\* the cache is touched; or the cipher fails, for the block in the cache or for
\* the blocks of the piece.  The bytes are counted as read and are not decrypted.
ProcessBinFails ==
  /\ Decoding
  /\ read' = read + Left /\ at' = supplied
  /\ LET fill == Smaller(Block - Len(cache), Left)
         behind == IF cache = <<>> THEN Left ELSE Left - fill
         ends == read + Left = length IN
     /\ IF ends THEN Len(cache) + Left > 0 ELSE Len(cache) + Left >= Block
     /\ \/ UNCHANGED cache
        \/ (ends \/ cache # <<>>) /\ cache' = cache \o Bytes(at, fill)
        \/ ~ends /\ behind >= Block
           /\ cache' = Bytes(supplied - (behind % Block), behind % Block)
  /\ phase' = "failed"
  /\ UNCHANGED <<image, supplied, state, fields, capacity, out>>

-----------------------------------------------------------------------------
(* esp_encrypted_img_decrypt_end(), esp_encrypted_img_decrypt_abort().     *)

\* gcm_finish_and_verify(): the tag is that of a genuine image, which the cipher
\* was given whole.  A call that failed has kept some of it back.
Verifies == image.genuine /\ phase # "failed"

Free == state' = "none" /\ cache' = <<>> /\ capacity' = 0

\* The bug: the end looks at the bytes seen and not at the state.
DecryptEndByCount ==
  /\ phase \in {"idle", "failed"} /\ state # "none"
  /\ phase' = IF cache = <<>> /\ read = length /\ Verifies THEN "ok" ELSE "failed"
  /\ Free
  /\ UNCHANGED <<image, supplied, at, read, fields, out>>

DecryptEnd ==
  /\ phase \in {"idle", "failed"} /\ state # "none"
  /\ phase' = IF state = "decode" /\ cache = <<>> /\ read = length /\ Verifies
                THEN "ok" ELSE "failed"
  /\ Free
  /\ UNCHANGED <<image, supplied, at, read, fields, out>>

DecryptAbort ==
  /\ phase \in {"idle", "failed"} /\ state # "none"
  /\ phase' = "failed" /\ Free
  /\ UNCHANGED <<image, supplied, at, read, fields, out>>

Next ==
  \/ \E n \in Pieces : DecryptData(n)
  \/ ReadPart \/ ReadField \/ FieldFails
  \/ ProcessBin \/ ProcessBinEnd \/ ProcessBinFails
  \/ DecryptEnd \/ DecryptAbort

Spec == Init /\ [][Next]_vars

-----------------------------------------------------------------------------
(* Properties.                                                             *)

TypeOK ==
  /\ state \in DOMAIN Size \cup {"decode", "none"}
  /\ phase \in {"idle", "running", "failed", "ok"}
  /\ at <= supplied /\ supplied <= Total
  /\ Len(cache) <= capacity       \* cache_buf never overflows
  /\ Len(iv) <= IvSize /\ Len(auth) <= AuthSize

\* However the image is cut, the fields of the header are the right bytes by the
\* time the binary is decrypted, and what is decrypted is the binary from its
\* first byte on, in order; between calls nothing is missing but what the cache
\* holds, which is less than a block.
InOrder ==
  /\ out = Bytes(Header, Len(out))
  /\ state = "decode" =>
       /\ key = Bytes(Start.key, KeySize) /\ iv = Bytes(Start.iv, IvSize)
       /\ auth = Bytes(Start.auth, AuthSize) /\ length = image.binary
  /\ state = "decode" /\ phase = "idle" =>
       /\ Len(out) + Len(cache) = read /\ read = supplied - Header
       /\ Len(cache) < Block

\* The end reports success only for a genuine image that was decrypted whole.
OkIsWhole ==
  phase = "ok" => image.genuine /\ Len(out) = image.binary /\ at = Header + image.binary

=============================================================================
