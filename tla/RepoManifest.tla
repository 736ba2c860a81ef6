----------------------------- MODULE RepoManifest -----------------------------
(***************************************************************************)
(* The canonical model-repository manifest (repo_manifest.rs): a file is   *)
(* an ordered list of independently addressed chunks with an address for   *)
(* the whole.  A kappa is an injective label of the bytes it was computed  *)
(* from; paths, media types and digests are well formed or not.            *)
(***************************************************************************)
EXTENDS Naturals, Sequences, SequencesExt, FiniteSets

CONSTANTS
    MaxChunkBytes    \* MAX_CHUNK_BYTES

ASSUME ChunkAssumption == MaxChunkBytes \in Nat \ {0}

KappaOf(bytes) == [kappa |-> bytes]

(* describe_file: fixed-size chunks, the last one shorter when the input    *)
(* does not fill it; an empty input has none.                               *)
ValidChunkBytes(n) == n > 0 /\ n <= MaxChunkBytes

ChunkCount(bytes, n) == (Len(bytes) + n - 1) \div n

ChunkAt(bytes, n, i) ==
    LET piece == SubSeq(bytes, (i - 1) * n + 1, IF i * n < Len(bytes) THEN i * n ELSE Len(bytes))
    IN  [kappa |-> KappaOf(piece), offset |-> (i - 1) * n, size |-> Len(piece)]

DescribeFile(bytes, n) ==
    [formed |-> TRUE, size |-> Len(bytes), blake3 |-> KappaOf(bytes), sha256 |-> <<bytes>>,
     chunks |-> [i \in 1 .. ChunkCount(bytes, n) |-> ChunkAt(bytes, n, i)]]

(* validate_file: chunks of a legal size, each where the one before it      *)
(* ended, that together cover the declared size.                            *)
EndOf(file, i) == IF i = 0 THEN 0 ELSE file.chunks[i].offset + file.chunks[i].size

ValidFile(file) ==
    /\ file.formed
    /\ \A i \in DOMAIN file.chunks :
          /\ ValidChunkBytes(file.chunks[i].size)
          /\ file.chunks[i].offset = EndOf(file, i - 1)
    /\ EndOf(file, Len(file.chunks)) = file.size

(* RepoManifest::validate, and the encoding whose kappa is the revision:    *)
(* files sorted by path, no path twice.                                     *)
ValidRepo(repo) ==
    /\ repo.formed
    /\ \A i \in DOMAIN repo.files : ValidFile(repo.files[i])
    /\ \A i, j \in DOMAIN repo.files : i # j => repo.files[i].path # repo.files[j].path

Canonical(repo) ==
    [repo EXCEPT !.files = SortSeq(@, LAMBDA left, right : left.path < right.path)]

(* decode refuses what is not already the canonical encoding. *)
Decodes(repo) == ValidRepo(repo) /\ Canonical(repo) = repo

(* What one chunk must be before its bytes are written to the sink. *)
ChunkVerifies(chunk, bytes) == Len(bytes) = chunk.size /\ KappaOf(bytes) = chunk.kappa

(* The whole-file check at the end of reassemble_file_to. *)
WholeVerifies(file, sink) ==
    /\ KappaOf(sink) = file.blake3
    /\ file.sha256 \in {<<>>, <<sink>>}

================================================================================
