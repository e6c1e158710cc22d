--------------------------- MODULE MCArchiveReader ---------------------------
(* Constants of ArchiveReader for TLC.                                     *)
EXTENDS ArchiveReader, TLC

CONSTANTS i1, i2

\* An archive with one member; contents are numbers.
Row(m, p, d) == [r \in Regions |-> IF r = Manifest THEN m ELSE IF r = Directory THEN d ELSE p]

\* One archive of each version.  The first V2 archive and its successor have
\* the same member; the V3 archive has a directory whose CRC32 the V1 archive
\* shares.
MCArchives == {Row(1, 1, 1), Row(2, 2, 2), Row(3, 2, 3), Row(4, 3, 1)}

\* An archive and its successor of the same version.
TwoArchives == {Row(2, 2, 2), Row(3, 2, 3)}

Interchangeable == Permutations(Inodes)

MCVersion == [b \in Bytes |-> CASE b = 1 -> 1 [] b = 4 -> 3 [] OTHER -> 2]
=============================================================================
