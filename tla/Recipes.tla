------------------------------ MODULE Recipes -------------------------------
(***************************************************************************)
(* The packages the bootstrap scripts build, by their newest recipes: for  *)
(* each the binary packages, sources and dependencies its control file     *)
(* names, as control.c reads it.                                           *)
(***************************************************************************)
EXTENDS Sequences, SequencesExt

Control(bins, sources, unpack, build, run) ==
    [bins |-> bins, sources |-> sources, unpack |-> ToSet(unpack),
     build |-> ToSet(build), run |-> ToSet(run)]

binutils == Control(
    <<"binutils", "binutils-dev", "binutils-doc">>, <<"binutils-2.29.tar.gz">>,
    <<"mksh", "tar", "gzip">>,
    <<"sbase", "mksh", "awk", "grep", "sed", "make", "gcc", "musl">>, <<>>)

gcc == Control(
    <<"gcc", "gcc-doc">>, <<"gcc-7.2.0.tar.gz">>,
    <<"mksh", "tar", "gzip">>,
    <<"sbase", "mksh", "make", "awk", "sed", "grep", "tar", "gcc",
      "musl", "gmp", "mpfr", "mpc">>, <<"binutils">>)

musl == Control(
    <<"musl">>, <<"musl-1.1.18.tar.gz">>,
    <<"mksh", "tar", "gzip">>,
    <<"sbase", "mksh", "gcc", "sed", "make">>, <<>>)

sbase == Control(
    <<"sbase", "sbase-doc", "sbase-strings", "sbase-grep", "sbase-sed",
      "sbase-tar">>, <<"sbase-0.0.20170323.tar.gz">>,
    <<"mksh", "tar", "gzip">>,
    <<"mksh", "sbase", "grep", "sed", "awk", "musl", "gcc", "make">>, <<>>)

mksh == Control(
    <<"mksh", "mksh-doc">>, <<"mksh-R54.tgz">>,
    <<"mksh", "tar", "gzip">>,
    <<"mksh", "sbase", "grep", "sed", "awk", "musl", "gcc", "binutils",
      "make">>, <<>>)

make == Control(
    <<"make", "make-doc">>, <<"make-4.2.1.tar.gz">>,
    <<"mksh", "tar", "gzip">>,
    <<"mksh", "sbase", "grep", "sed", "awk", "musl", "gcc", "binutils",
      "make">>, <<>>)

sed == Control(
    <<"sed", "sed-doc">>, <<"sed-4.4.tar.xz">>,
    <<"mksh", "tar", "xz">>,
    <<"mksh", "sbase", "grep", "sed", "awk", "musl", "gcc", "binutils",
      "make">>, <<>>)

grep == Control(
    <<"grep", "grep-doc">>, <<"grep-3.0.tar.xz">>,
    <<"mksh", "tar", "xz">>,
    <<"mksh", "sbase", "grep", "sed", "awk", "musl", "gcc", "binutils",
      "make">>, <<>>)

awk == Control(
    <<"awk", "awk-doc">>, <<"gawk-4.1.4.tar.gz">>,
    <<"mksh", "tar", "gzip">>,
    <<"mksh", "sbase", "grep", "sed", "awk", "musl", "gcc", "binutils",
      "make">>, <<>>)

tar == Control(
    <<"tar", "tar-doc">>, <<"tar-1.29.tar.gz">>,
    <<"mksh", "tar", "gzip">>,
    <<"mksh", "sbase", "awk", "sed", "grep", "musl", "gcc", "make">>, <<>>)

gzip == Control(
    <<"gzip", "gzip-doc">>, <<"gzip-1.8.tar.gz">>,
    <<"mksh", "tar", "gzip">>,
    <<"mksh", "sbase", "sed", "grep", "awk", "musl", "gcc", "make">>, <<>>)

bzip2 == Control(
    <<"bzip2", "bzip2-dev", "bzip2-doc">>, <<"bzip2-1.0.6.tar.gz">>,
    <<"mksh", "tar", "gzip", "patch">>,
    <<"mksh", "sbase", "musl", "gcc", "make">>, <<>>)

lzip == Control(
    <<"lzip", "lzip-doc">>, <<"lzip-1.18.tar.gz">>,
    <<"mksh", "tar", "gzip">>,
    <<"mksh", "sbase", "sed", "musl", "gcc", "make">>, <<>>)

xz == Control(
    <<"xz", "xz-dev">>, <<"xz-5.2.2.tar.gz">>,
    <<"mksh", "tar", "gzip">>,
    <<"mksh", "sbase", "sed", "grep", "awk", "musl", "gcc", "make">>, <<>>)

musl_dynamic == Control(
    <<"musl-dynamic">>, <<"musl-1.1.14.tar.gz">>,
    <<"mksh", "tar", "gzip">>,
    <<"sbase", "mksh", "gcc", "sed", "make">>, <<>>)

m4 == Control(
    <<"m4", "m4-doc">>, <<"m4-1.4.17.tar.gz">>,
    <<"mksh", "tar", "gzip">>,
    <<"mksh", "sbase", "grep", "sed", "awk", "musl", "gcc", "binutils",
      "make">>, <<>>)

gmp == Control(
    <<"gmp", "gmp-doc">>, <<"gmp-6.1.2.tar.lz">>,
    <<"mksh", "tar", "lzip">>,
    <<"mksh", "sbase", "grep", "sed", "awk", "musl", "gcc", "binutils",
      "make", "m4">>, <<>>)

mpfr == Control(
    <<"mpfr", "mpfr-doc">>, <<"mpfr-3.1.5.tar.gz">>,
    <<"mksh", "tar", "gzip">>,
    <<"mksh", "sbase", "grep", "sed", "awk", "musl", "gcc", "make", "gmp">>, <<>>)

mpc == Control(
    <<"mpc", "mpc-doc">>, <<"mpc-1.0.3.tar.gz">>,
    <<"mksh", "tar", "gzip">>,
    <<"mksh", "sbase", "grep", "sed", "awk", "musl", "gcc", "make",
      "gmp", "mpfr">>, <<>>)

perl == Control(
    <<"perl">>, <<"perl-5.24.1.tar.gz">>,
    <<"mksh", "tar", "gzip">>,
    <<"mksh", "sbase", "grep", "sed", "awk", "musl", "gcc", "make">>, <<>>)

texinfo == Control(
    <<"texinfo", "texinfo-doc">>, <<"texinfo-6.1.tar.gz">>,
    <<"mksh", "tar", "gzip">>,
    <<"sbase", "mksh", "musl", "sed", "grep", "awk", "make", "gcc", "perl">>, <<"perl">>)

bison == Control(
    <<"bison", "bison-dev", "bison-doc">>, <<"bison-3.0.4.tar.gz">>,
    <<"mksh", "tar", "gzip">>,
    <<"sbase", "mksh", "awk", "grep", "sed", "make", "gcc", "musl", "m4",
      "perl">>, <<"m4">>)

flex == Control(
    <<"flex", "flex-dev", "flex-doc">>, <<"flex-2.6.1.tar.gz">>,
    <<"mksh", "tar", "gzip">>,
    <<"sbase", "mksh", "awk", "grep", "sed", "make", "gcc", "musl", "m4",
      "bison", "bison-dev">>, <<>>)

patch == Control(
    <<"patch", "patch-doc">>, <<"patch-2.7.5.tar.gz">>,
    <<"mksh", "tar", "gzip">>,
    <<"mksh", "sbase", "sed", "grep", "awk", "musl", "gcc", "binutils",
      "make">>, <<>>)

staticdistro_tools == Control(
    <<"staticdistro-tools">>, <<>>,
    <<"mksh">>,
    <<"sbase", "mksh", "gcc", "musl", "make">>, <<>>)

AllRecipes ==
    "binutils" :> binutils @@ "gcc" :> gcc @@ "musl" :> musl @@
    "sbase" :> sbase @@ "mksh" :> mksh @@ "make" :> make @@
    "sed" :> sed @@ "grep" :> grep @@ "awk" :> awk @@
    "tar" :> tar @@ "gzip" :> gzip @@ "bzip2" :> bzip2 @@
    "lzip" :> lzip @@ "xz" :> xz @@ "musl-dynamic" :> musl_dynamic @@
    "m4" :> m4 @@ "gmp" :> gmp @@ "mpfr" :> mpfr @@
    "mpc" :> mpc @@ "perl" :> perl @@ "texinfo" :> texinfo @@
    "bison" :> bison @@ "flex" :> flex @@ "patch" :> patch @@
    "staticdistro-tools" :> staticdistro_tools

-----------------------------------------------------------------------------
\* The calls of build_s0_pkg, with their passes.
stage0_calls ==
    <<<<"binutils", "stage0">>, <<"gcc", "stage0.1">>, <<"musl", "stage0">>,
      <<"gcc", "stage0.2">>, <<"gmp", "stage0">>, <<"mpfr", "stage0">>,
      <<"mpc", "stage0">>>>

stage1_packages ==
    <<"binutils", "gcc", "musl", "sbase", "mksh", "make", "sed", "grep", "awk">>

stage2_packages == <<"tar", "gzip", "bzip2", "lzip", "xz">>

\* Fault (against ContainersResolve): gmp comes before m4, which it is built with.
stage3_packagesUnordered ==
    <<"musl", "musl-dynamic", "binutils", "gmp", "m4", "mpfr", "mpc", "perl",
      "texinfo", "bison", "flex", "patch", "gcc">>

stage3_packages ==
    <<"musl", "musl-dynamic", "binutils", "m4", "gmp", "mpfr", "mpc", "perl",
      "texinfo", "bison", "flex", "patch", "gcc">>

\* What fetch.sh fetches for all stages together (of what the lists above need).
fetched ==
    {"tar-1.29.tar.gz", "gzip-1.8.tar.gz", "bzip2-1.0.6.tar.gz", "lzip-1.18.tar.gz",
     "xz-5.2.2.tar.gz", "binutils-2.29.tar.gz", "gcc-7.2.0.tar.gz", "musl-1.1.18.tar.gz",
     "gmp-6.1.2.tar.lz", "mpfr-3.1.5.tar.gz", "mpc-1.0.3.tar.gz", "m4-1.4.17.tar.gz",
     "perl-5.24.1.tar.gz", "texinfo-6.1.tar.gz", "bison-3.0.4.tar.gz",
     "flex-2.6.1.tar.gz", "patch-2.7.5.tar.gz", "sbase-0.0.20170323.tar.gz",
     "mksh-R54.tgz", "make-4.2.1.tar.gz", "sed-4.4.tar.xz", "grep-3.0.tar.xz",
     "gawk-4.1.4.tar.gz"}

=============================================================================
