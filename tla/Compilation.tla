---------------------------- MODULE Compilation ----------------------------
(***************************************************************************)
(* Project::compile and what is read from a compilation: diagnostics,      *)
(* definitions and the modules that completions offer.  The compilation is *)
(* cached; only find_diagnostics makes a new one while there is one.       *)
(*                                                                         *)
(* The compiler (slang) is external.  Of a compilation the model keeps the *)
(* text of every file it read and the macros it was given.                 *)
(***************************************************************************)
EXTENDS Project

CONSTANTS
  Faults,          \* triples <<t, d, m>>: text t raises d unless macro m is defined
  MissingInclude,  \* the compiler's diagnostic for an include it cannot resolve
  Declares,        \* pairs <<t, m>>: text t declares module m
  Instantiates     \* triples <<t, i, m>>: line i of text t instantiates module m

VARIABLE
  compilation      \* cached_compilation of the current project

ASSUME CompilationAssumption ==
  /\ Faults \subseteq Texts \X STRING \X STRING
  /\ MissingInclude \in STRING
  /\ Declares \subseteq Texts \X STRING
  /\ Instantiates \subseteq Texts \X (Nat \ {0}) \X STRING

NoCompilation == [texts |-> [f \in Files |-> NoText], macros |-> {}]

-----------------------------------------------------------------------------
(* Compiling *)

\* Mutant of CompiledText: the buffers are not handed over.
CompiledTextOnDisk(f) == disk[f]

\* The text the compiler gets for a file: a buffer goes before the disk.  Two
\* folders that do not overlap never have a buffer of the same file.
CompiledText(f) ==
  LET buffered == {units[dir].buffers[f] : dir \in DOMAIN units} \ {NoText} IN
  IF buffered = {} THEN disk[f] ELSE CHOOSE text \in buffered : TRUE

\* The sources passed to the compiler.
Targets == UNION {units[dir].nonInlined : dir \in DOMAIN units}

\* compile() fails without a target, or when one of them cannot be read.
Compiles == Targets # {} /\ \A f \in Targets : CompiledText(f) # NoText

\* add_include_dirs: the parent and the grandparent of every cached header.
IncludeDirs ==
  UNION {{ParentPath(h), ParentPath(ParentPath(h))} :
           h \in UNION {units[dir].headers : dir \in DOMAIN units}}

\* The files an include of `name' in `f' may resolve to: beside the including
\* file, or in a directory of headers.
Resolved(f, name) ==
  {g \in Files : /\ CompiledText(g) # NoText
                 /\ \E dir \in {ParentPath(f)} \union IncludeDirs : g = dir \o name}

Included(f) ==
  LET text == CompiledText(f) IN
  UNION {Resolved(f, text[i]) : i \in {j \in DOMAIN text : text[j] # NoInclude}}

\* The files the compiler reads: the least set that holds the targets and
\* what its members include.
Read ==
  LET targets == Targets
      next == [f \in Files |-> IF CompiledText(f) = NoText THEN {} ELSE Included(f)]
      included == UNION {next[f] : f \in Files} \ targets
      closed == {S \in SUBSET included :
                   UNION {next[f] : f \in S \union targets} \subseteq S \union targets}
  IN  targets \union {f \in included : \A S \in closed : f \in S}

FaultsIn(text, macros) ==
  {x[2] : x \in {y \in Faults : y[1] = text /\ \A m \in macros : m[1] # y[3]}}

Unresolved(f) ==
  LET text == CompiledText(f) IN
  IF \E i \in DOMAIN text : text[i] # NoInclude /\ Resolved(f, text[i]) = {}
    THEN {MissingInclude}
    ELSE {}

\* find_diagnostics drops what lies in an excluded path or in an imported
\* folder, and what the project suppresses by name.
Reports(f) ==
  /\ ~IsPathExcluded(f, excludedPaths)
  /\ HasUnit(f) => UnitVia(f) = Root

\* What compile makes when nothing is cached; a failure leaves nothing.
FreshCompilation ==
  IF Compiles
    THEN LET read == Read IN
         [texts  |-> [f \in Files |-> IF f \in read THEN CompiledText(f) ELSE NoText],
          macros |-> defines]
    ELSE NoCompilation

\* Mutant of UseCompilation: every use compiles.
UseCompilationAnew == compilation' = FreshCompilation

\* compile, called for a definition or for completions: the cached compilation
\* is used, however old it is.
UseCompilation ==
  compilation' = IF compilation = NoCompilation THEN FreshCompilation ELSE compilation

\* Mutant of Recompiled: the compilation of before is used.
RecompiledOnce ==
  compilation' = IF compilation = NoCompilation THEN FreshCompilation' ELSE compilation

\* find_diagnostics clears the cached compilation and compiles.
Recompiled == compilation' = FreshCompilation'

\* The diagnostics of the compilation, by file.
Diagnostics ==
  [f \in Files |->
     IF compilation.texts[f] # NoText /\ Reports(f)
       THEN (FaultsIn(compilation.texts[f], compilation.macros) \union Unresolved(f))
              \ suppressed
       ELSE {}]
-----------------------------------------------------------------------------
(* Definitions and completions, from the texts of a compilation *)

Lines(text) == IF text = NoText THEN {} ELSE DOMAIN text

\* LookupCacheVisitor: the modules instantiated at a line, and the files that
\* declare a module.
Instantiated(texts, f, row) == {i[3] : i \in {j \in Instantiates : j[1] = texts[f] /\ j[2] = row}}

Declaring(texts, module) == {f \in Files : <<texts[f], module>> \in Declares}

\* Project::lookup at a line of a file: where the modules instantiated there
\* are declared, or else what the index of the folders has under the name that
\* is included there.
Definitions(texts, index, f, row) ==
  IF Instantiated(texts, f, row) # {}
    THEN UNION {Declaring(texts, m) : m \in Instantiated(texts, f, row)}
    ELSE {g \in index : /\ row \in Lines(texts[f])
                        /\ texts[f][row] # NoInclude
                        /\ EndsWith(g, texts[f][row])}

\* Project::get_modules: the modules that a completion offers.
Modules(texts) == {d[2] : d \in {e \in Declares : \E f \in Files : texts[f] = e[1]}}
=============================================================================
