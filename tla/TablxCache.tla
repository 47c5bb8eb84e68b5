----------------------------- MODULE TablxCache -----------------------------
(***************************************************************************)
(* The offsets of a table's rows and the cache of the process in which     *)
(* parsers find those that another one has parsed: a map from the identity *)
(* of a file to its offsets, beside a list of the keys, and a count of     *)
(* bytes. Every operation holds the cache's lock from end to end.          *)
(***************************************************************************)
EXTENDS Integers, Sequences

CONSTANTS
    BytesOf(_),      \* offsets.size() * sizeof(uint64_t)
    MaxEntries,      \* kMaxEntries
    MaxBytes         \* kMaxBytes

ASSUME CacheAssumption == MaxEntries \in Nat \ {0} /\ MaxBytes \in Nat

VARIABLES
    cache,           \* key -> offsets
    lru_list,        \* the keys, the one used last in front
    cached_bytes

cacheVars == <<cache, lru_list, cached_bytes>>

----------------------------------------------------------------------------
(* One offset. bytes[1] is the lowest byte; a uint32_t keeps 32 bits.      *)

Uint32(n) == n % (65536 * 65536)
Low32(b1, b2, b3, b4) == b1 + 256 * b2 + 65536 * b3 + 16777216 * b4

read_offset(bytes) ==
    CASE Len(bytes) = 4 -> Low32(bytes[1], bytes[2], bytes[3], bytes[4])
      [] Len(bytes) = 5 ->
            bytes[1] + 256 * Low32(bytes[2], bytes[3], bytes[4], bytes[5])
      [] Len(bytes) = 6 ->
            bytes[1] + Uint32(256 * Low32(bytes[2], bytes[3], bytes[4], bytes[5]))
                     + 1048576 * 1048576 * bytes[6]
      [] OTHER -> 0

\* The offsets of a file: data is what follows the header, bitmap_words and
\* bits are the first two numbers behind the offsets. The number of blocks is
\* read in version 3 only.
parse(file) ==
    LET n_blocks == IF file.version = 3 THEN file.n_blocks ELSE 0
        n_entries == 1024 * n_blocks
        size == file.entry_size
        left == Len(file.data) - n_entries * size
        Trailer == IF file.version = 3
                   THEN /\ left >= 16
                        /\ file.bitmap_words # 0 => left - 16 >= (file.bits + 7) \div 8
                   ELSE left >= 12
    IN  IF file.version \in {3, 4} /\ size \in 4 .. 6 /\ n_blocks <= 4194303
           /\ left >= 0 /\ Trailer
        THEN [ok |-> TRUE,
              offsets |-> [i \in 1 .. n_entries |->
                  read_offset(SubSeq(file.data, (i - 1) * size + 1, i * size))]]
        ELSE [ok |-> FALSE, offsets |-> <<>>]

----------------------------------------------------------------------------
CacheInit == cache = << >> /\ lru_list = <<>> /\ cached_bytes = 0

\* std::list::splice: the key at position i goes to the front.
ToFront(i) ==
    [j \in DOMAIN lru_list |->
        CASE j = 1 -> lru_list[i]
          [] 1 < j /\ j <= i -> lru_list[j - 1]
          [] OTHER -> lru_list[j]]

get(key) ==
    /\ key \in DOMAIN cache
    /\ \E i \in DOMAIN lru_list : lru_list[i] = key /\ lru_list' = ToFront(i)
    /\ UNCHANGED <<cache, cached_bytes>>

\* Fault: the bytes of the value that is replaced stay counted.
update_counts_both(key, offsets) ==
    /\ key \in DOMAIN cache /\ BytesOf(offsets) <= MaxBytes
    /\ cache' = [cache EXCEPT ![key] = offsets]
    /\ cached_bytes' = cached_bytes + BytesOf(offsets)
    /\ \E i \in DOMAIN lru_list : lru_list[i] = key /\ lru_list' = ToFront(i)

\* A key that is there gets the new value, and nothing is evicted for it.
update(key, offsets) ==
    /\ key \in DOMAIN cache /\ BytesOf(offsets) <= MaxBytes
    /\ cache' = [cache EXCEPT ![key] = offsets]
    /\ cached_bytes' = cached_bytes - BytesOf(cache[key]) + BytesOf(offsets)
    /\ \E i \in DOMAIN lru_list : lru_list[i] = key /\ lru_list' = ToFront(i)

Held(key) == IF key \in DOMAIN cache THEN BytesOf(cache[key]) ELSE 0

\* What evicting all keys but the first n frees.
Freed[n \in 0 .. Len(lru_list)] ==
    IF n = Len(lru_list) THEN 0 ELSE Freed[n + 1] + Held(lru_list[n + 1])

\* Keys are evicted from the back while there are too many of them or of
\* their bytes.
Fits(n, bytes) == n < MaxEntries /\ cached_bytes - Freed[n] <= MaxBytes - bytes

insert(key, offsets) ==
    /\ key \notin DOMAIN cache /\ BytesOf(offsets) <= MaxBytes
    /\ \E n \in 0 .. Len(lru_list) :
        /\ n = 0 \/ Fits(n, BytesOf(offsets))
        /\ \A m \in n + 1 .. Len(lru_list) : ~Fits(m, BytesOf(offsets))
        /\ lru_list' = [j \in 1 .. n + 1 |-> IF j = 1 THEN key ELSE lru_list[j - 1]]
        /\ LET evicted == {lru_list[j] : j \in n + 1 .. Len(lru_list)}
           IN  cache' = [k \in (DOMAIN cache \ evicted) \union {key} |->
                            IF k = key THEN offsets ELSE cache[k]]
        /\ cached_bytes' = cached_bytes - Freed[n] + BytesOf(offsets)

\* Offsets that take more than the whole cache may are not kept.
too_large(key, offsets) == BytesOf(offsets) > MaxBytes /\ UNCHANGED cacheVars

put(key, offsets) ==
    update(key, offsets) \/ insert(key, offsets) \/ too_large(key, offsets)

\* The cache by itself, under any calls.
CacheNext == \E key, offsets : get(key) \/ put(key, offsets)
CacheSpec == CacheInit /\ [][CacheNext]_cacheVars

----------------------------------------------------------------------------
(* Properties.                                                             *)

\* The list and the map of the cache hold the same keys, each once, and no
\* more of them than allowed: a key the list lost would never be evicted, one
\* the map lost would take a place for ever.
CacheKeysAgree ==
    /\ {lru_list[i] : i \in DOMAIN lru_list} = DOMAIN cache
    /\ \A i, j \in DOMAIN lru_list : lru_list[i] = lru_list[j] => i = j
    /\ Len(lru_list) <= MaxEntries

\* The count of bytes is that of the offsets in the cache: if it drifted up
\* the cache would end by holding one entry at a time, and if it drifted down
\* it would grow past its limit.
CacheIsAccounted == CacheKeysAgree /\ cached_bytes = Freed[0]
=============================================================================
