------------------------------ MODULE LinkTree ------------------------------
(***************************************************************************)
(* tools/withenv.c:361-591: link_packages merges the bin, lib and include  *)
(* directories of several packages into /bin, /lib and /include, which     *)
(* then hold real directories and a symbolic link for each file.           *)
(*                                                                         *)
(* link_tree is recursive.  Its activations are the sequence frames, and   *)
(* they share the buffer src_path; one step is one entry of readdir, in    *)
(* whatever order that returns them, or one return.  What is in a package  *)
(* is a graph of directories and not a tree: fstatat follows links, so     *)
(* that a link to a directory is a directory.  What a link leads to is     *)
(* taken to be in the packages: one into /bin, /lib or /include would be   *)
(* dangling or not by the order of the linking (the packages' own links,   *)
(* of mksh, musl-dynamic and binutils, lead into the package they are in). *)
(***************************************************************************)
EXTENDS Integers, Sequences, SequencesExt

CONSTANTS
    Hidden,     \* entry names that start with '.'
    PathMax     \* PATH_MAX, counted in path components instead of characters

\* The path to a directory of a package fits.
ASSUME PathMaxAssumption == PathMax \in Nat /\ PathMax >= 2

VARIABLES
    roots,      \* roots[p][tree]: what p has for bin, lib or include, if anything
    entries,    \* entries[d][name]: "file", "broken", or a directory
    todo,       \* pairs <<package, tree>> that link_packages has still to link
    frames,     \* activations of link_tree, the innermost last
    src_path,   \* the components in the path buffer after /packages
    merged,     \* the nodes in /bin, /lib, /include: path |-> Directory or a link's target
    state       \* "idle", "linking", "linked" or "failed"

contents == <<roots, entries>>
linkVars == <<roots, entries, todo, frames, src_path, merged, state>>

Trees == <<"bin", "lib", "include">>

\* What merged has for a directory, where a link has the path it leads to.
Directory == <<>>

IsDir(kind) == kind \in DOMAIN entries

\* Packages are made of directories, files and links that lead nowhere.
IsContents(rs, es) ==
    /\ {"file", "broken", "none"} \cap DOMAIN es = {}
    /\ \A p \in DOMAIN rs : \A tree \in DOMAIN rs[p] : rs[p][tree] \in {"file"} \cup DOMAIN es
    /\ \A d \in DOMAIN es : \A name \in DOMAIN es[d] :
        es[d][name] \in {"file", "broken"} \cup DOMAIN es

LinkInit ==
    /\ todo = <<>>
    /\ frames = <<>>
    /\ src_path = <<>>
    /\ merged = [path \in {} |-> Directory]
    /\ state = "idle"

-----------------------------------------------------------------------------
\* An activation of link_tree, which has read nothing of its directory yet.
Activation(d, len, dst) == [src |-> d, len |-> len, dst |-> dst, unread |-> DOMAIN entries[d]]

\* link_packages: /bin, /lib and /include are made, then each package is linked.
link_packages(packages) ==
    /\ state = "idle"
    /\ merged' = [path \in {<<t>> : t \in ToSet(Trees)} |-> Directory]
    /\ todo' = FlattenSeq([n \in DOMAIN packages |->
                    [t \in DOMAIN Trees |-> <<packages[n], Trees[t]>>]])
    /\ state' = "linking"
    /\ UNCHANGED <<contents, frames, src_path>>

\* Every activation returns -1 and cuts the path back to its own length.
LinkFails ==
    /\ state' = "failed"
    /\ frames' = <<>>
    /\ src_path' = SubSeq(src_path, 1, 2)
    /\ UNCHANGED <<contents, todo, merged>>

\* Fault (against ContainerEnds): a package without the directory is not passed.
link_package_tree_again ==
    LET p == Head(todo)[1]
        tree == Head(todo)[2]
    IN
    /\ state = "linking"
    /\ frames = <<>>
    /\ todo # <<>>
    /\ tree \in DOMAIN roots[p]
    /\ \/ /\ IsDir(roots[p][tree])
          /\ src_path' = <<p, tree>>
          /\ frames' = <<Activation(roots[p][tree], 2, <<tree>>)>>
          /\ todo' = Tail(todo)
          /\ UNCHANGED <<contents, merged, state>>
       \/ ~IsDir(roots[p][tree]) /\ LinkFails

\* link_package_tree: a package need not have the directory.
link_package_tree ==
    LET p == Head(todo)[1]
        tree == Head(todo)[2]
    IN
    /\ state = "linking"
    /\ frames = <<>>
    /\ todo # <<>>
    /\ \/ /\ tree \in DOMAIN roots[p]
          /\ IsDir(roots[p][tree])
          /\ src_path' = <<p, tree>>
          /\ frames' = <<Activation(roots[p][tree], 2, <<tree>>)>>
          /\ todo' = Tail(todo)
          /\ UNCHANGED <<contents, merged, state>>
       \/ /\ tree \notin DOMAIN roots[p]
          /\ todo' = Tail(todo)
          /\ UNCHANGED <<contents, frames, src_path, merged, state>>
       \/ /\ tree \in DOMAIN roots[p]
          /\ ~IsDir(roots[p][tree])
          /\ LinkFails

PackagesLinked ==
    /\ state = "linking"
    /\ frames = <<>>
    /\ todo = <<>>
    /\ state' = "linked"
    /\ UNCHANGED <<contents, todo, frames, src_path, merged>>

-----------------------------------------------------------------------------
\* The running activation, and what it has read an entry as.
Running == Last(frames)

Kind(name) == entries[Running.src][name]

Target(name) == Append(Running.dst, name)

\* Fault (against CommandSeesUnion): the path is not cut back before a name is added.
ExtendedUncut(name) == Append(src_path, name)

\* src_path after '/' and the name have been put behind its first len components.
Extended(name) == Append(SubSeq(src_path, 1, Running.len), name)

Reads(name) ==
    /\ state = "linking"
    /\ frames # <<>>
    /\ name \in Running.unread

\* The frames once the running activation has dealt with name.
Past(name) ==
    [frames EXCEPT ![Len(frames)] =
        [src |-> Running.src, len |-> Running.len, dst |-> Running.dst,
         unread |-> Running.unread \ {name}]]

SkipHidden(name) ==
    /\ Reads(name)
    /\ name \in Hidden
    /\ frames' = Past(name)
    /\ UNCHANGED <<contents, todo, src_path, merged, state>>

TooLong == Running.len + 1 > PathMax

\* A dangling link, or a path that does not fit, before anything is created.
EntryUnusable(name) ==
    /\ Reads(name)
    /\ name \notin Hidden
    /\ Kind(name) = "broken" \/ TooLong
    /\ LinkFails

Usable(name) ==
    /\ Reads(name)
    /\ name \notin Hidden
    /\ Kind(name) # "broken"
    /\ ~TooLong

\* A directory: it is made unless it is there, and link_tree is called for it.
Descend(name) ==
    /\ Usable(name)
    /\ IsDir(Kind(name))
    /\ Target(name) \in DOMAIN merged => merged[Target(name)] = Directory
    /\ merged' = [path \in DOMAIN merged \cup {Target(name)} |->
                    IF path = Target(name) THEN Directory ELSE merged[path]]
    /\ src_path' = Extended(name)
    /\ frames' = Append(Past(name), Activation(Kind(name), Running.len + 1, Target(name)))
    /\ UNCHANGED <<contents, todo, state>>

\* Fault (against EnvFailsForCause): a directory that is there already is an error.
DescendFailsIfThere(name) ==
    /\ Usable(name)
    /\ IsDir(Kind(name))
    /\ Target(name) \in DOMAIN merged
    /\ LinkFails

\* What is there in place of the directory is not a directory.
DescendFails(name) ==
    /\ Usable(name)
    /\ IsDir(Kind(name))
    /\ Target(name) \in DOMAIN merged
    /\ merged[Target(name)] # Directory
    /\ LinkFails

\* The target of a symbolic link needs room for its NUL within PATH_MAX.
NoRoomForLink == Running.len + 1 >= PathMax

LinkEntry(name) ==
    /\ Usable(name)
    /\ ~IsDir(Kind(name))
    /\ Target(name) \notin DOMAIN merged
    /\ ~NoRoomForLink
    /\ merged' = [path \in DOMAIN merged \cup {Target(name)} |->
                    IF path = Target(name) THEN Extended(name) ELSE merged[path]]
    /\ src_path' = Extended(name)
    /\ frames' = Past(name)
    /\ UNCHANGED <<contents, todo, state>>

\* symlinkat: EEXIST, or ENAMETOOLONG.
LinkEntryFails(name) ==
    /\ Usable(name)
    /\ ~IsDir(Kind(name))
    /\ Target(name) \in DOMAIN merged \/ NoRoomForLink
    /\ LinkFails

\* The directory is read: the activation cuts the path back and returns 0.
Return ==
    /\ state = "linking"
    /\ frames # <<>>
    /\ Running.unread = {}
    /\ frames' = Front(frames)
    /\ src_path' = SubSeq(src_path, 1, Running.len)
    /\ UNCHANGED <<contents, todo, merged, state>>

ReadEntry(name) ==
    \/ SkipHidden(name)
    \/ EntryUnusable(name)
    \/ Descend(name)
    \/ DescendFails(name)
    \/ LinkEntry(name)
    \/ LinkEntryFails(name)

\* The steps of link_packages after its start.
LinkStep ==
    \/ link_package_tree
    \/ frames # <<>> /\ \E name \in Running.unread : ReadEntry(name)
    \/ Return
    \/ PackagesLinked

-----------------------------------------------------------------------------
(***************************************************************************)
(* What a package has at a path such as <<"bin", "x">>, said without       *)
(* link_tree: follow the names from the root, "none" when they lead        *)
(* nowhere one can see.                                                    *)
(***************************************************************************)
RootKind(p, tree) == IF tree \in DOMAIN roots[p] THEN roots[p][tree] ELSE "none"

EntryKind(kind, name) ==
    IF IsDir(kind) /\ name \notin Hidden /\ name \in DOMAIN entries[kind]
    THEN entries[kind][name] ELSE "none"

KindsAlong(p, path) ==
    LET kind[n \in 1..Len(path)] ==
            IF n = 1 THEN RootKind(p, path[1]) ELSE EntryKind(kind[n - 1], path[n])
    IN  kind

KindAt(p, path) == KindsAlong(p, path)[Len(path)]

EntryNames == UNION {DOMAIN entries[d] : d \in DOMAIN entries}

\* Every path of up to one component more than fits behind a package.
Paths ==
    LET below == UNION {[1..n -> EntryNames] : n \in 0..(PathMax - 1)}
    IN  UNION {{<<t>> \o names : names \in below} : t \in ToSet(Trees)}

TooLongPath(path) == Len(path) + 1 > PathMax

\* A path that a directory may have, but not a file, to which a link is to lead.
TooLongLink(path) == Len(path) + 1 >= PathMax

(***************************************************************************)
(* The merged directories are the union of the packages' trees: a          *)
(* directory wherever some package has one, a link wherever a package has  *)
(* a file, leading to that very file of that package, and nothing else.    *)
(***************************************************************************)
IsMergeOf(packages) ==
    /\ DOMAIN merged \subseteq Paths
    /\ \A path \in Paths :
        LET dirs == {p \in ToSet(packages) : IsDir(KindAt(p, path))}
            files == {p \in ToSet(packages) : KindAt(p, path) = "file"}
        IN
        /\ path \in DOMAIN merged <=> dirs \cup files # {} \/ Len(path) = 1
        /\ dirs # {} => merged[path] = Directory
        /\ \A p \in files : merged[path] = <<p>> \o path

(***************************************************************************)
(* What alone may make linking fail: a visible dangling link, a path too   *)
(* long, or two packages that have the same path, unless as a directory.   *)
(***************************************************************************)
CannotMerge(packages) ==
    \E path \in Paths :
        \/ \E p \in ToSet(packages) :
            \/ KindAt(p, path) = "broken"
            \/ Len(path) = 1 /\ KindAt(p, path) = "file"
            \/ KindAt(p, path) # "none" /\ TooLongPath(path)
            \/ KindAt(p, path) = "file" /\ TooLongLink(path)
        \/ \E n, m \in DOMAIN packages :
            /\ n # m
            /\ KindAt(packages[n], path) = "file"
            /\ \/ KindAt(packages[m], path) = "file"
               \/ IsDir(KindAt(packages[m], path))

=============================================================================
