---------------------------- MODULE MCBootLoader ----------------------------
(***************************************************************************)
(* BootLoader with the package of the control board: one disk, an image    *)
(* and the files of one drive.                                             *)
(***************************************************************************)
EXTENDS BootLoader

CONSTANTS ini, bin   \* two files

ImageAndFiles ==
  <<"device", "unformatted", "rawdata", "partition", "directory", ini, bin, "end">>

AllBuilds == [deletes : BOOLEAN, partitioning : Partitioning]
=============================================================================
