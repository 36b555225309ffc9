# Pietra compiler: a verification development

Pietra (`src/PietraLang.cpp`, `src/Plang/`) is a compiler for a small language,
written in C++ on top of LLVM. It reads a source file, parses it together with
the files it uses, generates LLVM IR in one pass over the syntax tree, verifies
the module, and calls `llc` and `clang`. This directory holds TLA+ models of
the program, the TLC runs that check them on small instances, and proofs
checked by TLAPS that hold for every instance.

## Inventory

The program is one process with one thread. Nothing runs concurrently, and
nothing is kept from one run to the next but the files of the back end. What
makes it hard is *shared mutable context*: a recursive pass over a tree in which
every function reads and writes one `PContext` (the symbol tables, three flags,
the current function, the list of errors), with early returns on errors that
leave the context as it happens to be.

| Component | State | Operations | Interacts with |
|---|---|---|---|
| **Scopes and symbol tables** (`llvm/scopes.cpp`, `llvm/sym.cpp`) | two parallel stacks of tables, `m_scopes` and `m_classes` | `enter_scope` (copies the innermost tables), `leave_scope`, `define`, `define_cls`, lookups in the innermost table | called by every part of the compile pass |
| **Declarations** (`llvm/declCompiler.cpp`) | `PContext`: current function, `Self`, `errs`, `modMan`; the LLVM module | `compile_module`, `compile_decl_proc`, `compile_decl_aggregate` and its methods, `compile_decl_use` | calls statements; recurses into used modules |
| **Statements** (`llvm/stmtCompiler.cpp`) | `defined_return`, a scope | `compile_scope`, `compile_stmt`, `compile_stmt_return` | calls expressions; returns early on the first error |
| **Expressions and types** (`llvm/exprCompiler.cpp`, `llvm/typeCompiler.cpp`) | `m_expect_load_addr`, `Self`, new variables | one function per kind of expression; resolution of types | the tables; the LLVM builder |
| **Modules** (`ast/module.cpp`, `ModuleManager`) | the syntax tree of a file; the set of files used | `Module(path)` reads and parses; `add_path` | the declaration loop, recursively |
| **Lexer** (`lexer/lexer.cpp`) | position in the text, current token, template flag, interned strings | `nextToken`, `expect`, `scanInteger`, `scanFloat`, `scanString` | pulled by the parser, which also sets the template flag |
| **Parser** (`parser/*.cpp`) | the lexer | recursive descent over declarations, statements, expressions by precedence, types | the lexer; ends the process on a syntax error |
| **Driver** (`PietraLang.cpp`) | `cmd_flags`, `cstats` | `parse_cmd_flags`, `main` | all of the above |
| **Back end** (`llvm/compilerLLVM.cpp`, `common.cpp`) | temporary files, an exit code | verify, write the IR, `llc`, `clang` | external commands |
| Syntax tree, printers | passive data | constructors, output | |
| Pietra library, examples, build files | | programs in the language | |

Hard behaviours, and what makes each component correct:

* **Scopes.** Copying the tables must be indistinguishable from a chain of
  scopes: an inner scope resolves what an outer one does, to the same symbol;
  leaving brings back exactly the table entered from; the two stacks stay of
  one height; a name is defined at most once among the visible ones.
* **Compile pass.** Scopes entered and left must balance over early returns
  and recursion. No function may see another one's storage. Each function must
  end in exactly one terminator, decided by a flag that is set and cleared in
  three files. The struct of a method must be visible when its methods are
  compiled. What is announced as a success must have been compiled.
* **Expressions.** `m_expect_load_addr` decides between a value and its
  address, and is set and restored by hand around each sub-expression.
* **Modules.** Imports can repeat, be cyclic, lead back to the root file, be
  missing, or not parse. Each file must be compiled once, and the recursion
  must end.
* **Lexer.** Tokens must cover the text and not depend on what follows them,
  although each is cut by a test ahead; the template flag changes how `>` is
  read; integer literals at the limits of their width.
* **Parser.** It must end on every input, match brackets over all nestings,
  and build the tree that the levels of the operators say. It lowers the
  lexer's flag by hand where lists are nested.
* **Driver and back end.** A failing step must not be reported as a success;
  temporary files must outlive the command that reads them.

`PROJECT.json` lists the hazards line by line ("hazards"), with the properties
that cover each, or the reason why none does.

## Modules

| Module | Models | Role |
|---|---|---|
| `LexicalEnv` | – | abstract specification: a stack of frames, one per open scope, a name visible when some frame has it |
| `Scopes` | `Scope`, `SymTable` | the two stacks of copied tables; implements `LexicalEnv` |
| `Compiler` | `compile_module` and below, `PContext`, the driver's report | the compile pass as a client of `Scopes` |
| `ExprGen` | `exprCompiler.cpp` | values, their types and the flag `expect_load_addr` |
| `ModuleLoader` | `compile_module` with `compile_decl_use`, `ModuleManager`, `Module` | the graph of imports, the recursion over it and its end |
| `IntScan` | `Lexer::scanInteger` | integer literals in machine arithmetic |
| `Lexer` | the rest of `lexer.cpp` | texts into tokens, locations, the template flag |
| `Parser` | `Module::parseAst`, `parser/*.cpp` | recursive descent over tokens |
| `ExprTrees` | `exprParser.cpp`, the nodes built | `Parser` with a history of the tree, against a reference definition |
| `Templates` | `typespecParser.cpp` over `Lexer` | the parser of types composed with the lexer through its flag |
| `Backend` | `compilerLLVM.cpp`, `TemporaryFile`, the end of `main` | builds, one after another, and their files |
| `CmdLine` | `parse_cmd_flags` | the command line |
| `Driver` | `main` | `CmdLine` and `Backend`, one after the other |
| `MCScopes`, `MCCompiler`, `MCModuleLoader`, `MCLexer`, `MCParser` | – | instances for TLC |
| `ScopesProofs`, `CompilerProofs`, `ModuleLoaderProofs`, `IntScanProofs`, `ExprGenProofs`, `ParserProofs`, `LexerProofs`, `DriverProofs` | – | theorems and proofs |

`Compiler` takes what the parser delivers as any program, and `ExprGen` what
the compiler calls it with as any expression, so each is checked over more
than the other module can give it. `Templates` EXTENDS `Lexer` and calls its
actions, since there the two interact through the template flag; elsewhere the
parser only pulls tokens, and `Parser` chooses them freely. `Backend`
starts where `Compiler` ends, with a module that verifies or does not. `Driver`
EXTENDS `CmdLine` and `Backend` and takes the steps of the one, then of the other.

### Scopes

`m_scopes` and `m_classes` are sequences of tables; a table is the sequence of
its symbols in the order of their definition (the `std::vector` of
`SymTable`); a symbol is a name with a value. The C++ tables share `Sym`
objects between copies, and no code writes to one after its definition, so a
value stands for it. The actions are `EnterScope`, `LeaveScope` (with the
`exit(1)` on an empty stack as the variable `underflow`), `Define` and
`DefineCls` (which fails to mount a struct one of whose field types does not
compile). `LexicalEnv` is instantiated with the frames that each scope *owns*:
the symbols its table has and the enclosing one has not.

### Compiler

The program being compiled is not a constant: each declaration and statement
is chosen when the pass gets to it, so a behaviour is the compilation of *some*
program. `pc` says where the pass is. One step is a stretch of code with at
most one call on the tables, so that the pass is step for step a client of
`Scopes` (`S == INSTANCE Scopes`).

| State | Code |
|---|---|
| `m_scopes`, `m_classes`, `underflow` | `PContext::scope` |
| `defined_return`, `current_self`, `current_function`, `errs` | the members of `PContext` of these names |
| `mod` | the functions of the LLVM module: whether a method, whether void, and the state of the block (`decl`, `open`, `closed`, `illformed`) |
| `paths`, `uses` | `PContext::modMan`, nested activations of `compile_module` |
| `params`, `bound`, `agg`, `pc` | local variables and the position of the pass |
| `broke` | history: some declaration loop was left by its `break` |

| Action | Code |
|---|---|
| `Start`, `EndOfModule`, `LeaveModule` | `compile_module` |
| `NextProc`, `EnterProc`, `BindParam`, `FinishProc` | `compile_decl_proc` and what it calls |
| `EnterBody`, `ExprStmt`, `InitStmt`, `ReturnStmt`, `FailStmt`, `EndBody` | `compile_scope`, `compile_stmt`, `compile_stmt_return` |
| `NextAggregate`, `NextMethod`, `EndAggregate` | `compile_decl_aggregate`, `propagate_aggregate_methods` |
| `NextUse` | `compile_decl_use` |
| `Die` | the `exit(1)` and null pointers inside a body |
| `Report`, `Verify` | the end of `main`, `verifyModule` |

Abstracted: values and types of expressions. An expression is the set of names
it mentions (all must be visible), the type its last field access leaves as
`Self`, and whether its instructions are none, valid or wrong for the
verifier. An initialisation nested in another expression is not
distinguished from a statement of its own. A list of types resolves when each
of them does, so the one that decides stands for the list (`Deciding`). `main` returns at line 109, before
anything is compiled; `Report` and `Verify` are the code after it, as written.

### ModuleLoader

`Compiler` lets a use declaration be anything at any time; `ModuleLoader` fixes
the program instead: a graph of imports (`uses`) and the files that can be read
(`readable`), both chosen in `Init` and constant after it. Other declarations
matter only in that one can fail.

| State | Code |
|---|---|
| `stack` | the nested activations of `compile_module`: the file and the place in its loop |
| `paths` | `ModuleManager::paths` |
| `status` | the pass is running, has returned to `main`, or the process ended at a syntax error |
| `loaded`, `whole`, `broken` | history: files read for a use, loops that came to their end, loops left by `break` |

| Action | Code |
|---|---|
| `EndOfFile`, `DeclFails` | the loop of `compile_module` |
| `UseKnown` | `add_path` refuses the path |
| `UseMissing`, `UseUnparsable`, `UseLoads` | the file cannot be read; does not parse (`Module::Module`, `fatal`); is compiled inside the loop of its user |

Abstracted: a file is identified by the path a use declaration gives it.

### ExprGen

The C++ recursion is the variable `stack`; the expression is chosen node by
node as it is compiled. A `Val` has the type the code says the LLVM value has
(`type`), the type it has in the language (`ptype`), and, as a history, the
type it has in fact with what it points to (`real`).

| Actions | Code |
|---|---|
| `Statement` | `compile_stmt`: the rewind of the context |
| `Literal`, `NameExpr`, `InitExpr`, `Initialise`, `Uninitialised` | literals, names and `compile_expr_init` |
| `FieldExpr`, then `FieldOf`, `MethodOf`, `NoStruct` or `NullBase` | `compile_expr_field`, its helpers, and the null pointer |
| `CallExpr`, `Callee`, `Called`, `NotCalled` | `compile_expr_call` |
| `AddressOf`, `UnaryExpr`, `Deref`, `NoDeref`, `Minus` | `compile_expr_unary` |
| `Assign`, `AssignRhs`, `Store`; `Add`, `Addend`, `AddUp`, `NoAdd`; `Unknown` | `compile_expr_binary` and below |

Abstracted: the symbols in scope are a fixed set with one variable of each
sort, one struct, one function and one method; `-` and the assignment give
the operand they get to LLVM, whatever it is. Seen while modelling: a
local is known by the type of its address and so is never loaded; the fields
of a struct are loaded with 64 bits; `*e` keeps the type of `e`; after a
method was found the flag stays down, so that the arguments of `s.m(a)` are
addresses.

### IntScan and Lexer

`IntScan` is the loop of `scanInteger` one turn a step: the test for overflow
in unsigned arithmetic, `val` in a signed long of `LongMax`, any long out of a
signed overflow (undefined behaviour). `exact` is the value the literal has in
the integers, capped just above `LongMax`.

`Lexer` has `LexNextToken`, the whole of `lexNextToken`, as an operator of the
text, the position and the flag; the state is the text, `pos` (`parsePoint`),
`loc`, the current token, the flag, and whether the process exited or ran past
the buffer. The operators with two or three characters are tables (`Tests`) of
the tests ahead the `switch` makes, in their order, so that a test that does
not advance (`Peek`) or that takes the wrong kind is as in the code.
Actions: `SetContextPath`, `NextToken`, and the two calls that move the flag.
Abstracted: letters and digits to a representative set; values of floats and
the interning of strings. Seen while modelling: `setContextPath` sets the
location back after the first token was read; the offset counts the digits of
an integer twice.

### Parser, ExprTrees

Tokens are chosen when they are read, so a behaviour is the parse of *some*
text. `start` is the function a parse begins with, and chooses the tokens of
its text and their number (`Kinds`, `MaxTokens`). `stack` is the C++ call stack as a list of what is still to be done; one
operator per parsing function (`ParseFn`, `ParseUseModule`, `ParseOperand`, …) gives
what its body does next from the current token, and `Does` picks it. `last` is
`isEof`, which speaks of characters and so is true while the last token is
still to be parsed. `syntax_error`, `exit` and failed assertions are one
outcome, since all end the process.

`ExprTrees` adds the tokens taken and the nodes built (in postfix order) as
histories; `PostfixOf` says what the tree of a text is without the parser, by
splitting it at its last operator of the lowest level.

### Templates

The actions of the type parser call those of `Lexer` on a given text: the
token after a `<` is lexed before the flag goes up, and an inner list lowers
the flag for the outer one. `nodes` is a history of the templates built, each
with its own `<` and `>`. `ReadAsWritten` compares them with the brackets of the
text itself: what pairs all of them, each `<` with a later `>`, no two pairs
crossing, is the matching of the brackets, and there is no other. Arrays and
references add no list and are left out. `RejectedOnlyIfDeep` is about the texts
that are `WellWritten`: types with a blank or none after a closing `>`, told by
what may come after each character and by the number of lists that are open at
each (`Nesting`), without the parser.
`outcome` is `"reading"` for the texts that are only lexed, so that one run asks
the questions of both modules.

### Backend

A file is absent, of this build and whole (`new`), or anything else (`old`).
`Start`, `VerifyModule`, `CreateIR`, `PrintIR`, `CompileToWasm`,
`CreateMiddle`, `CompileToObject`, `Link`, `Report`, `RunExecutable` and `Exit`
follow `main`, `compile`, `compile_to_target` and the destructor of `cstats`.
`Command` is what `llc` and `clang` do to a file (external): make it and return
zero, or fail with `EXIT_FAILURE` or another code. `Kill` ends the process
anywhere, what was being written is cut short, and the next `Start` finds the
files. The result of `llc` is not looked at before the linker is called; an
object of an earlier build is nevertheless never linked, but only because the
value that `TemporaryFile::create` returns is copied and its destructor removes
the file: the mutant of `LinksThisModule` is the version that moves it.

### CmdLine and Driver

The words are chosen as they are shifted off `argv`. `parse_cmd_flag` has no
`return` at its end, so what its caller sees after a good option is a
nondeterministic choice (`Returned`). The words `-o`/`--output` and so on are
one word each. An option that is wrong, or an `-h`, breaks the loop, and
`StopsAtError` says that nothing is read or set after it; that the command line
is then refused is not what the code does (`HelpStops`, see *Findings*).

`Driver` is `main`: it does not look at what `parse_cmd_flags` returns, so
whatever the command line was, builds follow. The flags have no part in them:
`main` compiles one fixed file and sets the kind of output itself, and
`Backend` is asked about every kind.

## Runs

| Run | Bounds | Question |
|---|---|---|
| `scopes` | 2 names, 2 values, structs, a bounded depth (`MCScopes.cfg`) | do the copied tables implement a lexical environment? |
| `compile` | 2 names, one of them `self`, a struct, 2 functions of at most one parameter, free or methods, one used file (`MCCompiler.cfg`) | are balance, storage, terminators and the struct's visibility kept, over failing declarations, methods and files? does what a method finds stale in the context come from a method? is the pass a client of `Scopes`? |
| `imports` | every graph over 3 files with at most 2 uses each, any of them missing (`MCModuleLoader.cfg`) | is each file compiled once and before what follows its use, is nothing forgotten, does the recursion end? |
| `expr_code` | expressions of up to 5 nodes, calls of at most one argument (`MCExprGen.cfg`) | is the flag ever left over, and does a value have the type it claims? |
| `int_literals` | a long of 6 bits, literals of up to 6 characters, four bases (`MCIntScan.cfg`) | what fits is read exactly, what has wrapped is caught |
| `lexer` | every text of up to 5 characters over each of four alphabets, of up to 2 over all; every type of up to three lists inside one another, with and without blanks (`MCLexer.cfg`) | do tokens cover the text, one at a time, each by itself, with the right locations? is an accepted type what was written, and which well-written ones are rejected? |
| `parser` | every text of up to 11 tokens from `parseAst`, 7 from `parse_scope`, 6 of expressions of every form, 7 of operators and brackets (`MCParser.cfg`) | do brackets match, does the parse end, is the tree of an expression the one that levels and brackets say? |
| `driver` | every command line of up to 6 words, then every kind of output, any number of builds and kills (`Driver.cfg`) | is nothing read after an option that was wrong? do the temporary files last until they are read, is what is linked and built that of this build, and does a failure show? |
| `reset_at_function`, `success_is_complete`, `const_types`, `help_option` | the smallest instance that shows it | what the code says and does not do, see *Findings* |

Why the bounds are enough. *Scopes and Compiler:* what a step does to the
tables depends on the innermost table and on one name, so two names (one
taken, one free) and one struct give every case; a leaked scope needs one
failing function and a second one to see it, and so does a flag that one method
leaves to the next; one used file is enough for a scope that stays open across
files, since uses inside uses are the question of `imports`; the depth bound `MaxDepth` of the
compiler runs is above what `MaxFns` functions can leak, so it never blocks a
step (deadlock is checked in all compiler runs and there is none). The
next-state relation is a choice over all programs, so nothing is hidden by a
particular one. *Imports:* three files with two uses give chains, diamonds,
self-imports, and cycles with and without the root; `MaxStack` is 4, and
`RecursionBoundedCorrect` is the proof that no program needs more (one
activation more than there are files: the root file can be used again). *Expressions:* five nodes, each literal, name and operator counting as one, allow the
base of a field, an argument or an operand that itself moves the flag, and one
more operand after it that would find it moved. *IntScan:* with 6 bits, six
characters take a literal through both limits, of the long and of the
unsigned test, in every base and with more digits to come; the width is a
parameter and the theorems hold for all. *Lexer:* no token but names, numbers
and strings is longer than three characters, so five hold a whole token with
what stands before and after it; the alphabets separate what can meet in one
token. *Parser:* eleven tokens are a function with a parameter and a body, or
two short declarations; seven are a loop in a block, and three operators of
different levels with their operands, or two with brackets; six are a ternary,
or a call with two arguments. The keyword `const` is in none of these token
sets, because no parse of it ends (`const_types`).
*Templates:* the flag has two values, so three nested lists show every order
in which it is raised and lowered; that the texts of the run are well written
is the assumption `TypesWellWritten` of `MCLexer`. *Backend:* the state is finite, no bound is
needed. *CmdLine:* an option has at most one operand, so six words are at least
three options: one that is right, one that is wrong, and one left unread.

Deadlock is not checked in `scopes` (the process ends on underflow, and the
depth bound stops the growth of the stack) and in `help_option` (the parse
ends). The other modules say where they stop with a step of their own.

**Fairness.** All of it rests on one fact: the compiler is the only thread of
its process and never waits. `ModuleLoader` assumes weak fairness of `GoesOn`,
the steps of the pass through the uses to the end of each file, for
`Termination`; `DeclFails` and `UseUnparsable` are not in it, since the
compilation of a program without errors must end too. What it stands for
besides is that compiling a declaration that is not a use ends. `Parser`
assumes weak fairness of `Next` for `ParserEnds` and `ConstTypeParses`, no
choice being favoured: a text may always be continued with the token that is
worst for its end. The lexer's part in that is in `Tiles`, a safety property: each token takes
some of the text. All other
properties are safety properties and assume nothing.

### Findings

Four runs find a statement of the code violated. Each checks one property
that says what a comment or a message of the repository says;
`PROJECT.json` ("findings") quotes it.

* `reset_at_function`: a statement that fails leaves its scope open
  (`stmtCompiler.cpp:42`), so the next function starts with the failed one's
  variables in scope, against `scope.hpp:33`.
* `success_is_complete`: a return type that does not resolve, or a missing
  file, ends the loop without a recorded error (`declCompiler.cpp:249`), and
  success is announced (`PietraLang.cpp:130`).
* `const_types`: `const` in front of a type calls its parser for ever
  (`typespecParser.cpp:95`), against the message of line 92.
* `help_option`: `-o other -h` is accepted (`PietraLang.cpp:103`), although `-h`
  returns a failure "to stop further steps on compilation" (line 69): the loop
  breaks there, but no words are left, which is all that is asked. The same
  holds of an unknown option or target in the last place. The input that makes
  it so comes from `-o`: its operand becomes the input file (line 65), and
  `out_p` is never set, although the help says that it "Specifies the output
  file for the compilation process" (line 48).

Seen while modelling. The models follow the code in each of these places; no
run is spent on them.

*The compile pass*

* A parameter named like a function is not bound; the refusal is a message
  only (`scopes.cpp:113`).
* The rewind before each statement clears `Self` for the methods that follow
  (`stmtCompiler.cpp:28`). `SelfLostByBody` says how far this goes.
* The result of a method is compared with zero from below
  (`declCompiler.cpp:176`), which no failure is, so that the methods after one
  that failed are compiled.
* `main` does not look at the error of the root file's `Module`
  (`PietraLang.cpp:112`); a missing root file compiles as an empty one.
* The field of something that is no pointer reads through a null pointer
  (`exprCompiler.cpp:177`) before the message of line 195.
* The load of the pointer before an arrow is commented out
  (`exprCompiler.cpp:154`), so `s->f` is taken at the address of `s`.

*The lexer*

* A literal between the largest long and the largest unsigned value wraps
  without a message (`lexer.cpp:343`).
* The digit after the leading zero of an octal literal is stepped over, lost
  and not compared with the base (`lexer.cpp:325`).
* `==` is read as the token of `||` (`lexer.cpp:520`); `--` is looked at and
  not stepped over (`lexer.cpp:471`).
* A string that is not closed is read past the end of the buffer
  (`lexer.cpp:395`), the one exception of `StaysInside`.
* No block comment is skipped (`lexer.cpp:257`).

*The parser*

* `{*}` and `{...}` are rejected after `use` (`declParser.cpp:44`), and the form
  of `for` without a body (`stmtParser.cpp:49`).
* In `a ? b : c` the name `b` takes the `:` for a declaration
  (`exprParser.cpp:109`).
* A last token that begins no declaration is passed over (`module.cpp:39`).
* `A<A<A<A>>>` is rejected, because the inner list lowers the flag of the outer
  ones (`typespecParser.cpp:63`). `RejectedOnlyIfDeep` says that nothing
  shallower is.

*The driver and the back end*

* `main` asks for WASM and announces, and runs, an executable
  (`PietraLang.cpp:133`).
* A command that fails with another code than `EXIT_FAILURE` is announced as a
  success (`PietraLang.cpp:134`). `FailureShows` is what holds: the result is
  not zero.
* `main` returns at line 109, before anything is compiled. What is after it is
  modelled as written: the code that is meant to run.

### What the properties leave out

Where the code is wrong, a property that holds has to step around it. Said in
one place:

* `ReadAlone` is about where a token ends and what its kind depends on, not
  about the kind being the right one (`==`, `lexer.cpp:520`).
* `ExactWhenItFits` leaves out octal literals, of which it says only that they
  are not read as more; beyond an overflow the extent of a literal is not modelled.
* `TreeFollowsLevels` has no names in its texts, so it does not reach the
  ternary whose `:` is taken for a declaration (`exprParser.cpp:109`).
* `FlagAccounted` allows the flag to stay down after a method
  (`exprCompiler.cpp:170`), and `TypeIsReal` names the kinds of `Val` whose type
  is not that of their value; the load missing before an arrow
  (`exprCompiler.cpp:154`) leaves both types as they were and is not noticed.
* `StaysInside` leaves out a string that is not closed (`lexer.cpp:395`).

## Proofs

All theorems are for arbitrary constants under the named assumptions of the
modules: `MaxDepth` positive, `MaxParams`, `MaxFns`, `MaxArgs` and `MaxWords`
natural, `self` one of the names, the files of a program finitely many, the markers for builtin types not names of
structs, the words of the command line different from one another, the
unsigned test at least as wide as the long.

**`ScopesProofs`.** `TypeOK` is inductive. `TablesOK` (tables hold each name
once, nest, and every symbol is owned by an open scope) is inductive given
`TypeOK`; nesting alone is not enough, since a copied table would also nest
after a definition that repeats a name. From it follow stable lookups
(`LookupStableCorrect`), that enclosing tables are frozen
(`OuterFrozenCorrect`), and that each step is a step or a stutter of
`LexicalEnv` (`ScopesImplementEnv`).

**`CompilerProofs`.** The proofs speak of the tables through four facts about
the calls (`EnterCall`, `LeaveCall`, `DefineCall`, `StructCall`).

* `BalanceCorrect`: `TypeOK /\ ScopeBalance` is inductive. Neither conjunct is
  alone: a step that leaves a scope keeps the types only if there is one.
  `Depth` gives the height of the stack for each place of the pass, and
  `KeepsBalance` reduces each action to a comparison of two differences.
* `CompilerImplementsScopes`: each step is one call of `Scopes` or none.
* `NoForeignLocalsCorrect`, by `LocalsInside`: while no error was recorded,
  variables are only in the third and fourth table, and belong to the current
  function. Without the levels the invariant is lost when a function ends.
* `FreeFunctionsTerminatedCorrect`, by `FlagTrue`: in a function that is not a
  method the flag is down on entry and up only over a block that is not open.
* `ClassAssertedCorrect`, by `StructCovered`: the struct is in every table
  from the one its methods are declared in to the innermost.

The last part is what methods find in the context they share, for any
program. `OpenAfterMethod` and `SelfLostByBody` are about functions that are
finished and places between them; the invariant `Context` adds what carries
them there: where methods are declared, a context that is not fresh comes from
a method's body (`StaleIsMethods`), and inside a method a return that is up was
found so, or closed the block (`ReturnFound`).

**`ModuleLoaderProofs`.** For every set of files and every graph over them.
`TypeOK` is inductive, and `ReadOnceCorrect` follows from it, since files that
were loaded are among `paths`. `UsedBeforeCorrect` and `CompleteCorrect` rest on
the invariant `Past`: a path that was noted is past use, and so is whatever is
behind a loop or in a file whose loop ended. It is inductive because what is
past use stays so (`PastKept`): a file leaves the stack only into `whole` or
`broken`. When the pass is done and no loop was broken off, the files compiled
to their end are then closed under uses, which is what `Complete` needs.

`WorkRunsOutCorrect` is the end of the recursion, as far as safety goes: each
step takes something off a natural number that begins at no more than `MaxWork`.
That number is the work left, `MaxUses + 2` for each file that was not noted and,
for each activation, the places its loop still has to pass. A use that is
followed adds the places of its file and takes the file away; everything else
passes a place or leaves the loop. What `Termination` adds is only that steps
are taken. `RecursionBoundedCorrect` counts the activations: but for the first,
each is of a file that was loaded for a use, and no two are of the same. These
two are the only theorems that need the set of files to be finite.

**`IntScanProofs`.** For every width. `ScanInv` adds to the type invariant that
nothing was read before the digits and that no overflow was reported while they
are read; with it, `val = exact` is kept as long as `exact` fits, which is
`ScanExact`. The arithmetic is in two lemmas: a value that fits passes the
test of the next digit whenever its result fits, and a negative one, seen as
unsigned, never does (`ScanNegative`).

**`ExprGenProofs`.** For expressions of every size. `FlagAccounted` alone is
lost at the end of a field access, which puts the flag back as it found it.
The strengthening `Pending` says of every access that is pending on the stack:
if it will put the flag down, it is itself inside the base of a field or the
target of an assignment, or after an `&` or a method. Each action puts a short
sequence in front of the rest of the stack, so that the proofs of all of them
are cases of four lemmas on such steps.

`TypesAreReal` needs to know which values can be called: of the values in
flight, and of the callees that are pending, the only ones with a function for
their LLVM value are a function by its name and a method (`OnlyFn`). `RealInv`
is that with `TypeIsReal`, and it is kept by what a step returns and by what it
puts on the stack.

**`ParserProofs`.** For texts of any length. `BracketsMatchCorrect` rests on the
invariant that doing all that is left on the stack leads from the brackets open
now to none: an opening bracket that is expected adds one, a closing one takes
the last away. A step puts a short sequence in the place of the top, and what is
to be shown of it is that the sequence does to the open brackets what the top
would have done, whatever tokens decide; there is a case for each function of
the parser.

**`LexerProofs`.** For every text. The scans are functions that call themselves
(`skipWhiteSpaces`, `scanString`) or look for a least position, so the module
begins with induction over sets of positions: `LeastNat`, `CountUp`,
`CountDown`. The library's induction theorems take a predicate, which cannot be
given here; a set can, and with `TailRecursion` and `RecursionIn` a function that
calls itself for a later argument exists and returns only what it stops with.
`LexNextTokenIs` then says what `lexNextToken` promises from any place of any
text (`Read`): blanks and comments before the token, some characters in it, its
end inside the text unless a string is not closed, and a digit and no newline in
it if its characters were walked over twice. `StaysInside`, `TypeOK`, `Tiles`
and `LocationOK` follow from it by one lemma for a step that lexes
(`LexedStep`). `LocationOK` needs besides that the context was set at a place
that has been read (`Placed`), and that newlines of adjoining stretches add up
(`NewlinesAdd`, `LocatedOn`).

`TokensReadAlone` compares lexing the text with lexing the characters of one
token (`Cut`). A span that ends with the token ends there alone too (`SpanCut`),
a part of a number begins where the part before it ended, inside the token, and
a string goes on from the same characters up to its delimiter. A punctuation
token is the same unless one of its tests looked at a character without stepping
over it: only the first test of `-` does, and it makes the `--` that the property
leaves out (`TestsStepOver`, `MinusIs`). The invariant is that the current token
was lexed from some place under some flag (`Current`).

`ParserDrivesLexer` says that the parser of types over the lexer implements the
lexer, each step of it being one call of it or none; so all of this holds of the
texts it reads. `TemplatesReadAsWritten` holds of every text, well written or not.
That the flag is down is `FlagIsLowered`: whoever raises the flag has left the
lowering of it on the stack. That the brackets match is the invariant `Matched`:
each `<` before the current token belongs to a template built or to one list
that is open on the stack, the open lists stand on the stack from the innermost
to the outermost, and no template built lies across one that is open. It needs a
token to be what its kind says, a `>` where the kind is `>` (`PlainToken`: only a
token whose tests all failed has one of these kinds), and nothing that counts as
a bracket to be between two tokens (`TokenOn`), for which a comment must not
begin before a place and reach over it (`CommentsEnd`).

`OnlyDeepTypesRejected` is `RejectedOnlyIfDeep` for every well-written type, of
any length and with any number of lists inside one another. The invariant,
`WellRead`, relates three things.

* The stack and the text: every list on the stack stands on the list around it
  (`Lined`), as many lists are open on it as in the text (`MatchedCount`, from
  `Matched`), and what is to be done next says what the current token can begin
  with (`Stands`). So in a well-written type the token expected is there.
* `CheckTemplate`, which looks ahead for the closing `>`: it finds it at the
  least place where no more lists are open than before the `<`
  (`ListIsClosed`), so the flag goes up at every list.
* The flag and the nesting (`Ahead`): inside a list the flag is down only after
  an inner list was closed there, so a deeper place has been passed, and `>>` is
  read as one token only with the flag down and with two lists open.

The only error left is a `>>` where a list is to be closed: it stands with two
lists open and after an inner one, which makes three lists inside one another.

**`DriverProofs`.** The command line, for lines of every length. While the loop
runs no option has been wrong (`RightSoFar`), so that a step taken after one that
was wrong is not in the loop any more: `NothingReadAfterError`. The words left and
the options read are together no more than the line had, which is what makes
`CmdTypeOK` inductive.

The back end, for every set of kinds and any number of kills: the inductive
invariant follows the files from command to command. The IR is that of this
build from the command that prints it to the one that reads it
(`TemporariesLast`), the object is absent between its creation and `llc`, and
what is new while the process lives is named by a member that will remove it.
`FailedBefore` adds that the only failure before the link is that of `llc`, which
leaves no object to link: hence `FailureShows`.

`DriverRunsBoth`: a behaviour of `main` is one of the command line and one of
the back end, so all of this holds of the two together.

Only model-checked:

* `Termination`, `ParserEnds` and `ConstTypeParses`: liveness is out of the
  prover's reach. The safety half of `Termination` is proved: `WorkRunsOut`.
* `TreeFollowsLevels`: its reference definition is a RECURSIVE operator, and
  equality with it would be an induction over the text.
* The findings, each of them a counterexample.

## Not modelled

* The syntax tree (`ast/decl.cpp`, `expr.cpp`, `stmt.cpp`, `typespec.cpp` and
  their headers): constructors and accessors. `ExprTrees` checks the order in
  which the nodes of expressions are built.
* The printers: output only.
* The Pietra library, the examples and the build files: inputs.
* LLVM, `llc` and `clang` are external and enter only through what the code
  asks of them and does with the answer.
* Values of floats, interned strings, messages and their formatting, the clock,
  the composition of file names and command lines. (`get_llc_command` bounds
  its buffer with the size of a pointer, `compilerLLVM.cpp:16`: a string put
  together character by character, which no model here has.)

## Plan

Done, in this order: `Scopes` with `LexicalEnv`, `Compiler`, `ModuleLoader`,
`IntScan`, `Lexer`, `Parser` with `ExprTrees`, `Templates`,
`ExprGen`, `Backend`, `CmdLine`, `Driver`. Left:

* `ExprGen` inside `Compiler`: the instructions `valid` or `wrong` that
  `Compiler` chooses freely are those that LLVM gets from `ExprGen`.
