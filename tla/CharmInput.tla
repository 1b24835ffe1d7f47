----------------------------- MODULE CharmInput -----------------------------
(* How the Charm++ benchmark gets its particles: PE 0 scans the file, every PE *)
(* reads its share of it, and the first decomposition begins                  *)
(* (src/charm/Main.cpp, DataManager.cpp and InputFormat.h).                   *)
(*                                                                            *)
(* A CSV file cannot be sought by record: each PE counts the records that     *)
(* begin in an equal range of bytes, the counts of all are summed up, and by  *)
(* the same prefix sums each PE reads an even slice, in whoever's range that  *)
(* begins.  A file is a sequence of lines, of which the length in bytes,      *)
(* terminator included, and the kind are kept; records are numbered from 0.   *)
(* Later steps begin with the particles anywhere (CharmDecomposition's Init). *)
EXTENDS CharmDecomposition, Sequences

CONSTANTS
    Files,        \* the files that may be given
    FirstKeys,    \* the keys its particles may come to
    TreePieces,   \* the -p option
    peOf,         \* the PEs by their number, from 0
    RecordBytes,  \* SIZE_PER_PARTICLE
    Preamble,     \* PREAMBLE_SIZE
    IntMax        \* the largest int, 2^31 - 1

ASSUME InputAssumption ==
    /\ peOf \in [0 .. Cardinality(PE) - 1 -> PE] /\ peOf[0] = Root
    /\ FirstKeys \subseteq [Particle -> Key]
    /\ \A i, j \in DOMAIN peOf : peOf[i] = peOf[j] => i = j
    /\ RecordBytes \in Nat \ {0} /\ Preamble \in Nat /\ IntMax \in Nat

\* Main::setParameters: no more TreePieces than bodies, no fewer than PEs.
NumTreePieces == Max({Cardinality(PE), Min({TreePieces, NumParticles})})
ASSUME BudgetAssumption == Budget = NumTreePieces

VARIABLES
    file,      \* what -in names
    loading,   \* how far Main is: scan, load, run, or aborted
    counts,    \* per PE that has counted: the records that begin in its range
    slice      \* per PE that has read: the records it has, by the id it gave

loader == <<file, loading, counts, slice>>
allVars == <<vars, loader>>

numPes == Cardinality(PE)
Empty == [pe \in {} |-> 0]
NoFile == [format |-> "none"]

\* What the PEs have, f, with what pe comes to.
With(f, pe, value) == [q \in DOMAIN f \cup {pe} |-> IF q = pe THEN value ELSE f[q]]

----------------------------------------------------------------------------
(* Lines of a CSV file f, from its dataOffset on. *)

LineStart(f, i) ==
    f.dataOffset + SumFunctionOnSet([j \in DOMAIN f.lines |-> f.lines[j].bytes], 1 .. i - 1)
FileSize(f) == LineStart(f, Len(f.lines) + 1)

\* isBlankCsvLine.
Record(f) == {i \in DOMAIN f.lines : f.lines[i].kind # "blank"}

\* parseRow, by the columns the header names.
Parses(f, n) == f.lines[n].kind # "malformed"

\* looksLikeHeader and parseHeader: there may be none, but one that is there has
\* to name every column.
UsableHeader(f) == f.header # "missing a column"

\* Where the byte range of the PE with number i begins.
RangeStart(f, i) == f.dataOffset + ((FileSize(f) - f.dataOffset) * i) \div numPes

\* Mutant of SeekToRecordStart: the byte before is not looked at, and a record
\* that begins where the range does is taken for the rest of another.
SeekPastRecordStart(f, start) ==
    IF start <= f.dataOffset THEN 1
    ELSE 1 + Cardinality({i \in DOMAIN f.lines : LineStart(f, i) <= start})

\* seekToRecordStart: the first line at or after the byte; past the last one
\* at the end.
SeekToRecordStart(f, start) ==
    IF start <= f.dataOffset THEN 1
    ELSE 1 + Cardinality({i \in DOMAIN f.lines : LineStart(f, i) < start})

\* scanCsvInput and scanBinaryInput: the number of particles.
Scanned(f) == IF f.format = "csv" THEN Cardinality(Record(f)) ELSE f.declared

\* A line has at least its terminator or one character.
CsvLine == [kind : {"record", "blank", "malformed"}, bytes : Nat \ {0}]

ASSUME FilesAssumption ==
    \A f \in Files :
       /\ Scanned(f) = NumParticles
       /\ \/ f.format = "csv" /\ f.dataOffset \in Nat /\ f.lines \in Seq(CsvLine)
          \/ f.format = "binary" /\ f.records \in Nat

----------------------------------------------------------------------------

\* A run begins with its file; a later step anywhere.
LoadInit ==
    /\ Init
    /\ keyOf = [p \in Particle |-> 0] /\ owner = [p \in Particle |-> Root]
    /\ file \in Files
    /\ loading = "scan"
    /\ counts = Empty /\ slice = Empty

LaterInit ==
    /\ Init
    /\ file = NoFile
    /\ loading = "run"
    /\ counts = Empty /\ slice = Empty

InputInit == LoadInit \/ LaterInit

\* CkAbort.
Abort == loading' = "aborted" /\ UNCHANGED <<vars, file, counts, slice>>

\* getNumParticles: a binary file has to have the size it declares.
Scan ==
    /\ loading = "scan"
    /\ IF IF file.format = "binary" THEN file.records # file.declared
                                    ELSE ~UsableHeader(file)
       THEN Abort
       ELSE /\ loading' = "load"
            /\ UNCHANGED <<vars, file, counts, slice>>

\* loadParticlesCsv: the records whose first byte is in the PE's range.
LoadParticlesCsv(i) ==
    /\ loading = "load" /\ file.format = "csv"
    /\ peOf[i] \notin DOMAIN counts
    /\ counts' = With(counts, peOf[i],
                      Cardinality({n \in Record(file) :
                         /\ n >= SeekToRecordStart(file, RangeStart(file, i))
                         /\ LineStart(file, n) < RangeStart(file, i + 1)}))
    /\ UNCHANGED <<vars, file, loading, slice>>

\* prefix: the records before the range of the PE with number i.
Prefix(i) == SumFunctionOnSet([j \in DOMAIN peOf |-> counts[peOf[j]]], 0 .. i - 1)

\* The byte range that holds a record.
RangeOf(first) == Max({0} \cup {i \in 1 .. numPes - 1 : Prefix(i) <= first})

\* The records after the first skip ones from a line on.
RecordsFrom(line, skip) ==
    {n \in Record(file) :
        /\ n >= line
        /\ Cardinality({m \in Record(file) : line <= m /\ m < n}) >= skip}

\* The number of the record on a line.
Number(n) == Cardinality({m \in Record(file) : m < n})

\* receiveCsvCounts: the counts have to come to what PE 0 has scanned, and the
\* file to hold as many records as this PE is owed.
ReceiveCsvCounts(i) ==
    LET total == Prefix(numPes)
        first == (total * i) \div numPes
        owed == (total * (i + 1)) \div numPes - first
        range == RangeOf(first)
        ahead == RecordsFrom(SeekToRecordStart(file, RangeStart(file, range)),
                             first - Prefix(range))
        mine == {n \in ahead : Cardinality({m \in ahead : m < n}) < owed}
    IN  /\ loading = "load" /\ file.format = "csv"
        /\ DOMAIN counts = PE /\ peOf[i] \notin DOMAIN slice
        /\ IF \/ total # NumParticles
              \/ Cardinality(mine) < owed
              \/ \E n \in mine : ~Parses(file, n)
           THEN Abort
           ELSE /\ slice' = With(slice, peOf[i],
                             {[id |-> first + Cardinality({m \in mine : m < n}),
                               record |-> Number(n)] : n \in mine})
                /\ UNCHANGED <<vars, file, loading, counts>>

\* What an int holds.
AsInt(x) ==
    LET low == x % (2 * (IntMax + 1))
    IN  IF low > IntMax THEN low - 2 * (IntMax + 1) ELSE low

\* loadParticlesBinary: the slice by arithmetic, what is left over going to the
\* first PEs; the offset in bytes is an int.
LoadParticlesBinary(i) ==
    LET average == NumParticles \div numPes
        rem == NumParticles % numPes
        first == IF i < rem THEN i * (average + 1) ELSE i * average + rem
        number == IF i < rem THEN average + 1 ELSE average
        offset == AsInt(AsInt(first * RecordBytes) + Preamble)
    IN  /\ loading = "load" /\ file.format = "binary"
        /\ peOf[i] \notin DOMAIN slice
        /\ IF offset < 0 THEN Abort
           ELSE /\ slice' = With(slice, peOf[i],
                             {[id |-> first + n,
                               record |-> (offset - Preamble) \div RecordBytes + n] :
                                n \in 0 .. number - 1})
                /\ UNCHANGED <<vars, file, loading, counts>>

\* commence, when every PE has contributed its box: the first decomposition,
\* with keys from where the particles are.
Commence ==
    /\ loading = "load" /\ DOMAIN slice = PE
    /\ loading' = "run"
    /\ owner' = [p \in Particle |-> CHOOSE pe \in PE : \E r \in slice[pe] : r.record = p - 1]
    /\ keyOf' \in FirstKeys
    /\ file' = NoFile /\ counts' = Empty /\ slice' = Empty
    /\ UNCHANGED <<cost, stage, frontier, contribution, splitters, numTreePieces,
                   rangeMsgs, outcome, sentTo>>

Rounds == loading = "run" /\ Next /\ UNCHANGED loader

InputNext ==
    \/ Scan
    \/ \E i \in DOMAIN peOf : \/ LoadParticlesCsv(i)
                              \/ ReceiveCsvCounts(i)
                              \/ LoadParticlesBinary(i)
    \/ Commence
    \/ Rounds

InputSpec == InputInit /\ [][InputNext]_allVars

\* Charm++ delivers every message and runs every entry method it delivers:
\* there is no end to the run while one is left.
InputFairSpec == InputSpec /\ WF_allVars(InputNext)

----------------------------------------------------------------------------
(* Properties. *)

InputTypeOK ==
    /\ loading \in {"scan", "load", "run", "aborted"}
    /\ DOMAIN counts \subseteq PE
    /\ DOMAIN slice \subseteq PE

\* However lines and byte ranges fall, a file that is what it says is loaded:
\* no PE aborts, every record is read by one PE, under the id of its place in
\* the file, and no PE has two records more than another (loadParticlesCsv,
\* receiveCsvCounts, loadParticlesBinary; the ranges are equal in bytes, not in
\* records).  A file that is not is not run on.
LoadedExactly ==
    loading # "run" =>
    LET good == \/ /\ file.format = "csv"
                   /\ UsableHeader(file)
                   /\ \A n \in Record(file) : Parses(file, n)
                \/ file.format = "binary" /\ file.records = file.declared
    IN  /\ loading = "aborted" => ~good
        /\ (loading = "load" /\ DOMAIN slice = PE) =>
              /\ good
              /\ UNION {slice[pe] : pe \in PE} = {[id |-> p - 1, record |-> p - 1] : p \in Particle}
              /\ \A pe, q \in PE : /\ Cardinality(slice[pe]) <= Cardinality(slice[q]) + 1
                                   /\ pe # q => slice[pe] \cap slice[q] = {}

\* The rounds end, from any file and from anywhere: the decomposition settles,
\* or the run aborts over the file or because all bodies share one position.
LoadedOrSettled == <>(\/ loading = "aborted"
                     \/ \A pe \in PE : stage[pe] \in {"flushed", "aborted"})
============================================================================
