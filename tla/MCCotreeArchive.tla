--------------------------- MODULE MCCotreeArchive ---------------------------
EXTENDS CotreeArchive
=============================================================================
