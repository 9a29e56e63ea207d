----------------------------- MODULE XfsLibrary ------------------------------
(***************************************************************************)
(* The parts of the bundled XFS library side by side: the bitmap reader    *)
(* with the device table, the buffer cache, the tree of allocation groups  *)
(* and the geometry of a mount.  They share no state but the mount that    *)
(* each of them describes, so that a behaviour of one is looked at while   *)
(* the others stand still.                                                 *)
(***************************************************************************)
EXTENDS XfsReader, XfsCache, XfsPerag, XfsGeometry

VARIABLE part  \* the part that moves

Parts == {"reader", "cache", "perag", "geometry"}

libraryVars == <<readerVars, cacheVars, peragVars, geometryVars, part>>

LibraryInit == ReaderInit /\ CacheInit /\ PeragInit /\ GeometryInit /\ part \in Parts

LibraryNext ==
    /\ UNCHANGED part
    /\ \/ part = "reader" /\ ReaderNext /\ UNCHANGED <<cacheVars, peragVars, geometryVars>>
       \/ part = "cache" /\ CacheNext /\ UNCHANGED <<readerVars, peragVars, geometryVars>>
       \/ part = "perag" /\ PeragNext /\ UNCHANGED <<readerVars, cacheVars, geometryVars>>
       \/ part = "geometry" /\ GeometryNext /\ UNCHANGED <<readerVars, cacheVars, peragVars>>

LibrarySpec == LibraryInit /\ [][LibraryNext]_libraryVars /\ WF_libraryVars(part = "cache" /\ Lookup /\ UNCHANGED <<readerVars, peragVars, geometryVars, part>>)
=============================================================================
