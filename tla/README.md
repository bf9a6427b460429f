# MiniLang: a formal model

MiniLang is a small statically typed language. `src/src/main.cpp` reads a program, puts the
standard library's text in front of it if `--use-stdlib` asks for that, and hands it through five
components: lexer, parser, semantic analyzer, bytecode generator, stack machine. A second back end writes x86-64 assembly.
Everything runs in one thread, one component after the other; the only partner from outside is
the user, who types the lines that `input()` reads. What is hard here is not concurrency but
bookkeeping across recursion: jumps that are emitted before their target is known, contexts that
are opened and closed by mutually recursive methods, operands that wait on a stack while another
function runs on it, objects that several variables share.

This directory models all five components and the second back end, the pipelines they form, and
the processor the second back end writes for; it compares each with an independent description of
what it should do, and it proves what the lexer, the parser, two parts of the analyzer, both generators
and the machine guarantee for every text and every program.

## The system

| component | state | operations | correct when |
|---|---|---|---|
| Lexer (`lexer.cpp`) | position in the text, line and column, first diagnostic | `nextToken` | every character belongs to one token, comment or blank; a number that does not fit is refused |
| Parser (`parser.cpp`) | current token, buffer of tokens read ahead, first diagnostic | `advance`, `peekToken`, one method per construct | lookahead neither loses nor repeats a token; precedence as the grammar says |
| Semantic analyzer (`semantic.cpp`) | scopes, function and struct tables, slot counter, loop and switch depth, type of the current function, first diagnostic | collect structs, collect functions, analyze each function | names denote the innermost declaration, each variable has a slot of its own, a call has one best candidate, the tree it leaves is typed |
| Bytecode generator (`codegen.cpp`) | emitted code, function table, entry, `loopStack_`, `switchBreakStack_`, first diagnostic, and the C++ call stack | `generate`, `generateFunction`, one method per statement and expression | every jump gets its one target inside its function; contexts close with their statement; every function ends in a RET |
| Machine (`vm.cpp`) | operand stack, frames with locals, heap of shared objects, `ip_`, `running_`, return code | `run` and one case of `execute` per opcode | a call gives back its result and nothing else, callers keep their locals and operands, errors are those that depend on values |
| Driver (`main.cpp`) | options, the exit status | the phases in order, each with its diagnostic | the exit status is that of the program, or 1 |
| x86-64 generator (`asm_codegen.cpp`) | the text and data sections, label counter, areas of the frame, loop labels, first diagnostic | lay out the frame, one method per statement and expression | the file can be assembled, and the native program does what the source means, without touching a caller's frame |
| AST printer, bytecode dump | none | formatting | - |

The parser pulls tokens from the lexer; the other components hand their result on: the tree with
slots, function indexes and types written into it by the analyzer, then the bytecode. A component
that fails keeps its first message, goes on as far as it can, and the driver stops behind it. The
machine throws a `RuntimeError` instead.

## The modules

| module | what it is |
|---|---|
| `Values` | the values of the machine and the pure operations on them |
| `AST` | the nodes of a checked tree, as far as the generator reads them |
| `CallStack` | the C++ call stack of a component that recurses over a tree |
| `CallStackProofs` | lemmas about it |
| `Lexer` | the lexer |
| `LexerProofs` | theorems about it |
| `LexicalGrammar` | what the tokens of a text are, by patterns: the reference for `Lexer` |
| `TokenStream` | a plain stream of tokens with a cursor: what the parser's buffer implements |
| `Parser` | the parser, over the tokens the lexer delivers |
| `ParserProofs` | theorems about it: that it implements `TokenStream`, reads to the end, and accepts no open bracket |
| `Grammar` | the text and the tree of each construct: the reference for `Parser` |
| `Codegen` | the generator |
| `CodegenProofs` | theorems about the generator: what it remembers, its contexts, its functions, its jumps |
| `Bytecode` | what the generator promises the machine about the bytecode |
| `Control` | where the machine is: instruction pointer, open calls, how the run ended |
| `VM` | the machine |
| `VMProofs` | theorems about it, for every bytecode that keeps the promise |
| `MiniLang` | generator, machine and user together, as `main` runs them |
| `SourceSemantics` | what a tree means by `specs/semantics.md`: the reference for `MiniLang` |
| `Meaning` | the comparison of the two |
| `Programs` | the programs the runs compile |
| `Overloads` | the analyzer's function table and its choice among overloads |
| `Signatures` | declarations, calls and whether the one fits the other |
| `OverloadsProofs` | theorems about `Overloads` |
| `Scopes` | the analyzer's walk over the statements of a function: scopes, slots, loop and switch depth |
| `ScopesProofs` | theorems about it |
| `LexicalScoping` | what the names of a function mean by its text: the reference for `Scopes` |
| `Typing` | the analyzer's types: from a tree of the parser to the checked tree, if it is accepted |
| `SourcePrograms` | programs for it, most of them wrong |
| `Assembly` | the file the x86-64 generator writes, and what the assembler asks of it |
| `AsmCodegen` | the x86-64 generator |
| `BackEndProofs` | theorems about the two ways behind the analyzer: the labels of `AsmCodegen` resolve, and the theorems about the parts of `MiniLang` hold in the whole |
| `X86` | the processor and the part of the C library its code uses |
| `Native` | generator, assembler and processor together: `--emit-asm` and what comes behind it |
| `NativePrograms` | the programs this is run on |
| `MCLexer`, `MCParser`, `MCScopes`, `MCOverloads`, `MCCodegen`, `MCVM`, `MCMiniLang`, `MCNative` | the instances for TLC |

### Lexer

The state is that of the class: the position, line and column, and the first error. A method that
loops is one action per character it looks at, `mode` says in which method the lexer is, and
`lexeme`, `value`, `depth` are the local variables of those loops; `tokens` collects what has been
delivered. A character is a string of length one, and a class of characters that the code treats
alike has one or two members. The reserved words are a constant function from texts to token types;
the number of the largest `int` is a constant, so that short numbers reach it. The value of a float
is left out, but not whether it has one: which texts are of numbers too large or too small for a
`double`, where `std::stod` throws, is the constant `Unrepresentable`, and they are refused. In the run
a `double` reaches from 0.01 to below 1000, so that short texts cross both bounds.

`LexicalGrammar` says by patterns what a token, a comment and a blank are, without a state, and the
properties of the run compare the two: nothing lost between tokens, no token shorter than it could
be, places counted from the text. Its patterns are not recursive: a gap between tokens is a text that can
be cut into blanks and comments, a comment is one whose marks open and close as brackets do, with the
set of its marks as the witness; the value of a numeral is a recursive function of its beginnings.

### Parser

As for the generator, `work` is the C++ call stack, and an action is a piece of a method between two
calls or two tokens. `current`, `bufferedTokens`, `diagnostic`, `structTypeNames`, `typeAliases`,
`currentNamespace` are the members of the class; `delivered` counts the tokens the lexer has given. The
tree is the sequence of its nodes in the order they are built, children before their parent, each
with its name or text: that is what a sequence of constructor calls is. A failure empties nothing: the
method returns, every `advance` gives the end of the file from then on, and the callers run on into
it, which is why `Stops` is a question.

The eleven methods of the levels of priority are the table `Levels` and one action for a trip through
the loop of one of them, with the level from which the code takes the right operand. `Stream` is the
refinement: with the position `delivered - Len(bufferedTokens)` the parser implements `TokenStream`,
whatever it looks at ahead.

`Grammar` goes the other way: from a tree it makes the text, with the parentheses the priorities
require, and the nodes in order. Texts and trees are paired over all the sentences of `MCParser`, and
`TreesRecovered` says that the parser finds the one tree of a text. The same texts with a token left
out, with an error of the lexer or cut off are what the other properties need.

### Codegen

The generator is a set of methods that call each other and themselves. The model keeps the C++
call stack in the variable `work`: the last item is what runs next, the items below are what the
open methods have still to do, each with the local variables it still needs (`jumps` for jump
indexes, `target` for a remembered address, `index` for a loop counter). A method without a jump
of its own is the sequence of the children it visits and the instructions it emits between them
(`Parts`, one operator per method under the method's name). A method with jumps is one action for
each piece between two recursive calls: `generateIfStmt` is `If1`, `ThenBranch`, `ElseBranch` and
`EndIf`. `Patch` is `patchJump` on a set of indexes, `LoopContext` and `switchBreakStack` are the
members of the class, and `Fail` is `failVoid`: the first message is kept, the method returns,
and generation goes on. `bytecode_.code`, `bytecode_.functions` and `entryFunction` are `code`,
`functions` and `entry`; addresses count from 0 as in the code.

Left out: source locations, messages other than the kept one, the text of names. `sizeof` and
`typeid` are literals by then. An empty statement is an empty block. The checks for what the
analyzer excludes (a node without slot or function index, a cast to a type without a cast
opcode, a node of an unknown class) are the assumptions `ExprsAssumption`, `StmtsAssumption` and
`ProgramsAssumption`; two of them, the misplaced jump and the missing default value of an array,
are kept as `Fail`, because the second one does happen: a function that returns an array passes
the analyzer and fails here.

### VM

Each action is one trip through the loop of `VM::run` for a kind of opcode. `Fault` is the
message of the `RuntimeError` that trip would raise, and `Throw` is the trip that raises it; all
other actions require that there is none. `Pops` is how many operands an instruction takes.
`stack`, `frames`, `ip`, `running`, `returnCode` are the members of the class. An array or struct
is a `std::shared_ptr`, so its value is an index into `heap`, and copying the value shares the
object; an object nobody refers to any more stays in `heap`, which no instruction can notice.
`input` and `output` are the lines read and written. `bases` is a history variable: the height
of the operand stack at which each open call began; no action reads it.

Numbers have `Width` bits (32 in the code). Signed overflow, undefined in C++, wraps around as the
build does on its processor; the one quotient that does not fit is the trap of the division
instruction (`"SIGFPE"`), and recursion over a value that contains itself is the overflow of the
C++ stack (`"SIGSEGV"`, for equality approximated by: both sides endless and equal as far as they
go). Floats are multiples of `1/FloatUnit` without infinities and NaN, so rounding is not modelled.
`print` shows contents instead of text.

### MiniLang

`MiniLang` instantiates both under the driver: `Generate` steps the generator, `Reject` reports
its diagnostic, `Start` hands its bytecode to the machine, `Execute` steps the machine, `Finish`
turns its result into the exit status. The state of both is visible, so that a property can relate
the bytecode, the machine and the source. The instances are of the modules with the theorems, so that
`BackEndProofs` can cite them; `Meaning` is a module of its own because its reference is recursive.

`SourceSemantics` evaluates the same tree by recursion, without bytecode, with value semantics for
arrays and structs, `break` for the nearest loop or switch, and a switch expression evaluated once.
It shares with the machine only the arithmetic of `Values`, so it says nothing about that
arithmetic; it is independent about order of evaluation, control, calls, locals and aliasing.

### AsmCodegen, X86, Native

The x86-64 generator is modelled as the bytecode generator is, with the same nodes; they carry the
type and size of areas that this generator reads. A line of the file is an instruction with two
operands, a label is a line of its own, and a literal is an entry of `data`; these lines, the names of labels and
`LabelsResolve` are in `Assembly`, which generator and pipeline share. A label is what it is made of, a base
and a number, and `Text` is how it is written: a sequence of symbols, where a run of letters is one symbol and
each other character one, so that `ml_f_end` with the number 0 is written like the label of a function
`f_end_0`. `LabelsResolve` compares the texts, as the assembler does. `unsupported` sets the
diagnostic and returns (`Refuse`), and the methods that called go on writing. The labels a method needs
are made when it begins, but those of a `for` behind its initializer (`ForRounds`), which may make
labels itself; `TreesOf` and `Resolvable` say which programs `LabelsResolve` can be asked of, since the
generator does not look whether names clash. Left out are the calls
the analyzer accepts and this generator writes to a label that does not exist (`toInt`, `sizeof`,
`typeid`, the functions of the standard library with a `string` they cannot pass).

`X86` executes those lines: registers, the operands of the last comparison in place of the flags, and the words of the stack;
`movsd` is `mov`, and a `double` is a multiple of `1/FloatUnit`, as in `Values`. A call of `printf` or
`exit` overwrites every register the calling convention lets it overwrite with a value nobody uses. `calls` is a history variable: where each open call came from, with which
stack and frame, and how many words wait on the stack. `Native` puts the two under the driver, and
`NativeMeaning` compares the run with `SourceSemantics`, the same reference the bytecode has. A word
has `WordWidth` bits, more than an `int`, because the generator computes with 64 bits what the
language computes with 32; the programs keep to numbers that fit, and that is a limit of this check,
not of the code.

### Overloads

The analyzer collects the functions of a program into a table of overloads by name (`Collect`,
`CollectFails`), checks `main` and then looks at the bodies, where each call chooses among the
overloads of its name. `functions`, `best`, `ambiguous`, `allowImplicit` are the variables of the
code, `candidate` is where the loop of `chooseCandidate` stands, `resolved` is what the choice
writes into the call. The passes with and without conversions are the two values of
`allowImplicit`; one trip through the loop is `DoesNotFit`, `FitsBetter` or `FitsNoBetter`. The code
fills a map of type parameters while it walks over the arguments; `GenericBinding` says what that
map holds when an argument is reached: the type argument of the call, or the type of the first
argument for that type parameter. A type parameter that only the body uses stays without one,
and an argument without a value is a type like any other: the code checks neither, and so the properties
speak of the type parameters a signature names.

A `FunctionSymbol` is a copy of its declaration, so the table holds function indexes. The types
of the arguments are known when the choice begins, and the calls come in any order: the analysis
of the bodies around them is in `Scopes` and `Typing`.

### Scopes

`analyzeFunction` and the methods of the statements, with the stack of activations of `CallStack`. A
method that calls another is one action up to the call and one behind it: `analyzeForStmt`,
`ForCondition` or `ForConditionFails`, and `EndFor`. `Accepted` says what the method of a statement
checks before it goes on; when that fails, `Refuse` keeps the first message and the analysis goes on
behind the statement, as it does in the code. `scopes`, `nextLocalIndex`, `loopDepth`, `switchDepth`,
`hasReturn` are the members of the class. The slots are written into the tree in the code; here
`slots` collects them in the order of the accepted statements, and `analyzed` keeps them with the
`localCount` of each function.

An expression is a literal, a variable, or an operation that requires its variables to have certain
types and has a type itself; the rules for its operators, arrays, structs and type
parameters are in `Typing`. All statements of a switch stand in one sequence, because the code puts its cases into
one scope and looks at them in that order.

`LexicalScoping` reads the same functions by recursion over the text: an environment of names is
handed down and given back, and nothing is opened, closed or counted. A misplaced `break` is found
by what is around it, not by a depth.

### Typing

`analyze` takes a program with names and unknown types and gives the checked tree that `Codegen` reads,
or none. An operator is a method; what the methods share is passed on as the state `s`: the scopes,
`nextLocalIndex`, `loopDepth`, `switchDepth`, `hasReturn`, and the program with its declarations. A type
goes with a name (of a struct, a type parameter, the elements of an array) and an array with its size,
as `inferredStructName` and `inferredArraySize` do; a node gets its slot, index, type and conversions
where the code writes them into the tree. A call takes its function from `Signatures`, by the condition
that `OverloadsProofs` proves of the loop: the one candidate of least cost, without conversions if any
fits without. After the first failure only the verdict is of interest here; what the code goes on to do
is in `Scopes`. `sizeof`, `typeid` and `typeof` become the literals that the generator makes of them
(`metaSizeOf`, `metaTypeName`, with shortened names), and the message of an assertion is left out.

The property is about the pipeline: a program that `analyze` accepts is compiled and run, and
`OnlyValueErrors` says that no type error is left. Its mutant is a hole in the table of operators.

## The runs

All runs say `CHECK_DEADLOCK FALSE`: generator, machine and process stop when they are done, the
analyzer after a declaration it refuses.

| run | question | bounds | states |
|---|---|---|---|
| `lexer` | Does every character belong to one token, comment or blank (`NothingLost`), is every token the longest there is (`LongestLexemes`), does each know its place (`PlacesTrue`), is only refused what no pattern covers, with the right number for what is a number and no float out of the range of a `double` (`OnlyErrorsRefused`)? | all texts of up to 6 characters of `/ * newline` and of `1 . e -`, behind `0x` and `0b`, quotes, letters, operators | 78156 |
| `parser` | Is the token stream the lexer's, whatever is looked at ahead (`TokensInOrder`); is the tree of a text the one it was made from (`TreesRecovered`); is what is accepted complete, with every bracket closed (`AcceptedIsComplete`); does the parser stop on every text (`Stops`)? | every expression of two operators, every statement, declaration and type, alone and nested; each text damaged | 54324 |
| `codegen` | Does what the generator remembers lie in the function it generates (`TypeOK`), do contexts close with their statements (`ContextsMatched`), is the RET the last thing of a function (`RetComesLast`), does generation end (`Terminates`)? Do jumps stay in their function and does a function end in a RET that no jump passes (`SelfContained`), is no jump forgotten (`NoForgottenJump`), is each patched once and nothing else changed (`PatchedOnce`)? | every nest of two constructs, of three loops and switches, with a break, a continue, a return or a print inside; the data programs | 18434 |
| `vm` | Does every call return behind the CALL that made it (`ReturnsToItsCall`), with the locals of its callers as they were (`CallersFrozen`)? | `examples/run_recursion.ml` and a program that uses every kind of opcode, both as `--dump-bytecode` prints them | 214 |
| `minilang` | Does the compiled program do what the source means (`MeaningPreserved`), does control stay in the current function (`StaysInFunction`), are all errors ones the values cause (`OnlyValueErrors`), does a RET find its result right above the caller's operands (`ReturnsOneValue`), do those survive every call (`CallerOperandsUntouched`), does everything end (`Exits`)? | the nests and data programs, every way to type up to 3 lines out of two; the 660 programs the analyzer accepts of 3888, see below | 87117 |
| `overloads` | Does a call get the one candidate of least cost, and a diagnostic else (`UniqueCheapest`); are parameters and result typed by one choice of the type parameters that the signature names (`TypedByOneBinding`); is a function that fits as it is never passed over for one that needs a conversion (`ExactBeforeConverted`); can every function without type parameters be called (`OwnTypesSelectIt`)? | up to three of nine overloads in every order, twenty-two calls; declarations the analyzer refuses | 195892 |
| `scopes` | Does a loop or switch count as long as it is open, and does every end of a scope find one (`ContextsMatched`); do two variables of a function never share a slot while one of them may be used (`SlotsApart`); does the frame hold all slots (`SlotsExist`); are exactly the programs accepted whose text has a meaning, each use with the slot of the variable it means (`ResolvedLexically`)? | 2980 functions: a declaration, a statement of any kind around a declaration, use or jump, right or wrong, and a use behind it; parameters; a second function | 55974 |
| `native` | Can the file be assembled, each label once and no jump out of its function (`LabelsResolve`); does the native program show and return what the source means (`NativeMeaning`); is a call of the C library aligned exactly when an even number of words wait on the stack (`StackAligned`; with an odd number it is not); does nobody write into the frame of a caller, and does each call return to it (`CallerUntouched`)? | every nest of up to three constructs; each operator on `int`, `uint`, `float`; indexes from -8 to 3 of an array of two, with values that are not computed (finding 4); structs; recursion; assertions; a function `f_end` behind `f`; what it refuses | 175864 |
| `break_in_switch` | violated `MeaningPreserved`: finding 1 | the nests with a break of a loop inside a switch | - |
| `void_call_leak` | violated `OnlyValueErrors`: finding 2 | one program | - |
| `and_operand` | violated `TreesRecovered`: finding 3 | three expressions | - |
| `native_element` | violated `NativeMeaning`: finding 4 | one program | - |

Why the bounds are enough. The generator keeps two stacks and reads only their tops; two levels
of all constructs and three of those with a context give every pair of neighbours and a third one
around them, with every way to leave. What holds for the jumps of a nest does not depend on the
rest of the function. The conditions of the nests are the user's answers, so a run of the machine
takes every path that three answers can select, and an exhausted input gives the empty line, which
ends every loop of the programs. `Width` is 8, where sums and shifts of the programs do overflow.
Addresses, the stack, the frames and the heap have no bound in the model; the programs bound them.

The lexer decides on one character and the next; the longest thing that must be told apart from
another is a comment in a comment with a mark cut in two, for which there are texts of nine
characters, and a number that just fits and the next one, for which the largest `int` is 12. The
parser decides on the current token and those it looks at ahead: every pair of operators in both
arrangements gives each level of priority each operand, and the bodies of the statements hold one
another. Leaving out each token of each text in turn, and stopping it at each, reaches each of the
parser's messages and each of its loops after a failure.

For the native program a nest of three gives each label a neighbour of its own kind inside and
outside; three values that wait on the stack, and calls of two levels with a local array in each,
give every relation between areas, operands and frames that the generator distinguishes. The sizes of
arrays matter by their parity, for the rounding of the frame, and both occur.

The sources of the typed programs are families over a variable of each type: every operator, cast,
built-in function, index, field, literal of an array or struct on every choice of operands; calls of
overloaded and generic functions with every argument; a declaration, assignment, element, field and
return of every type with every value; every type as a condition. Behind it stands a use that only a
value of the static type survives, so that a place with a wrong value becomes an error of the run. One
operation at a time is enough, because the type of an expression depends on the types of its parts only.
`Exprs` and `Stmts` of the run cover all families of programs, so the assumptions of `Codegen` hold.

The programs that show the findings are kept out of the passing runs by a condition on the programs
(`LoopInSwitch`, `AndOperand`, `OtherArray`) or by leaving them out, and not by a weaker property. `ReturnsOneValue` excepts programs with procedures,
because their void results do stay on the stack (finding 2); the `Calls` program of the same run
has procedures and shows that operands of callers survive that.

Overloads are compared two at a time and the loop remembers one of them and a flag, so three
candidates in every order are what it takes for a tie to come before, behind or between better
ones. The nine of the run fit the calls at every cost from 0 to 21, two arguments each, so that a
type parameter can meet the same type twice, two types, or none.

Names are looked up from the inside out, so two names and three open scopes tell a name in the
innermost scope, hidden, and behind the end of its scope apart. The statement in the middle of a
function of `scopes` holds every way to open a scope or loop, around every declaration, use, `break`,
`continue` and `return`; the use behind it finds what it left, and so does the second function.

Fairness is weak fairness of `Next`, for `Terminates`, `Exits` and `Stops` only: a single-threaded process
that can take a step takes it. It is not assumed that the user types anything in particular.

The model was compared with the program: the bytecode of the data programs and of all nests of
depth two agrees with what `minilang --dump-bytecode` prints for the same source, but for the
numbers of local slots, where the hand-written trees choose other slots than the analyzer, and one
literal that is `uint` in the tree and `int` in the source; the bytecode in `MCVM` is that output.

### Findings

1. `break` of a loop inside a switch leaves the switch too (`codegen.cpp:549`): the generator looks
   at `switchBreakStack_` first, whatever is nearer. `specs/semantics.md:811` says the nearest loop
   or switch.
2. A procedure called as a statement leaves its void result on the operand stack
   (`codegen.cpp:338`): the next operator of a caller finds it and the program dies of
   `ADD cannot be applied to void and int`. `specs/semantics.md:1284` says type errors are
   reported before bytecode is generated, and names the errors that are left at run time.
3. The operand of `&&` on the right is taken from the level of `==` (`parser.cpp:1229`), so that
   `a && b | c` is a syntax error, and `a | b && c` is none. `specs/grammar.md:1183` orders the
   priorities.
4. The native program keeps the index of an assigned element in `rbx` while it evaluates the value
   (`asm_codegen.cpp:669`), which uses `rbx` for its own operands: `a[0] = a[1] + 1` writes another
   element, past the check of the index. `specs/semantics.md:393` shows what it should write. The element can
   lie in a caller's frame, so `CallerUntouched` holds for programs without such values only.

Met while modelling, where the code differs from a document as well; each was found by the model of
its component, whose programs now avoid it or whose properties allow it:

- Arrays and structs are shared, not copied (`vm.cpp:547`); `specs/semantics.md:1255` says the user
  sees value semantics.
- A call that no overload fits exactly converts any number to any number (`semantic.cpp:2256`): `2.9`
  becomes `2` for an `int` parameter. `specs/function_overloading.md:177` allows `int` and `uint` to
  `float64` only.
- The cases of a switch share one scope (`semantic.cpp:1076`), and a slot holds the `int` 0 until it is
  assigned: a `string` declared in a case that does not run and used in another kills the program
  with `ADD cannot be applied to int and string`, which `specs/semantics.md:1284` excludes.
- The native program evaluates both operands of `&&` and `||` (`asm_codegen.cpp:1459`), which shows when the
  right one divides by zero or calls a function that prints; it computes with 64 bits where the machine
  wraps at 32; it does not convert arguments; it prints a `bool` as 0 or 1; an array or struct assigned to
  another is a copied address.
- Overloads get the same label (`asm_codegen.cpp:99`), as do `a::b` and `a__b`, and the assembler refuses
  the file. So does the end of a function `f`, if it is the first label that is numbered, and a function
  `f_end_0` (`asm_codegen.cpp:378`).
- `f(a < b, c > (d))` is read as a call of `f` with type arguments (`parser.cpp:111`).
- An array may be assigned an array with other elements or of another size (`semantic.cpp:751`), though
  `specs/grammar.md:567` makes the size part of the type and `specs/semantics.md:1284` promises no type
  errors at run time: after `a = ["x"]` an element of the `int` array `a` is a string. With these
  assignments among the sources `OnlyValueErrors` fails. The same comparison lets a generic function
  assign a value of one type parameter to a variable of another, with the same end.
- `12abc` is a number and a name (`lexer.cpp:291`).

Met while reading, and not shown by a run: a function that returns an array is accepted by the
analyzer and rejected by the generator; a path that falls off a struct-returning function returns
void; the least `int` divided by -1 kills the process; the switch expression is evaluated once per
case; a declaration without initializer is accepted, where `specs/semantics.md:205` requires one, and one
of a type parameter then holds void; a declaration that is the body of a loop is accepted, in the scope
around it; a message of `assert` that is not a literal is accepted by the analyzer and refused by the
generator (`codegen.cpp:806`).

### Mutants

For each property of a passing run, a variant of one mapped definition, defined next to it and
marked `A mutant`, stands for a bug someone could write: a missing `pop_back`, breaks not patched,
an address off by one, a jump patched twice, a frame with too few locals, a tie that is not
forgotten. With it in place of the definition TLC finds the property violated.

## The theorems

`CodegenProofs` proves for all sets of expressions, statements and programs that satisfy the three
assumptions, so for trees of any depth and any number of functions:

- `TypeCorrect`: `Spec => []TypeOK`. What an open method remembers - jump indexes, addresses,
  loop and switch contexts - lies in the code of the function that is being generated.
- `ContextsAreMatched`: every open context has exactly one activation that will close it.
- `RetIsLast`: the outermost activation of an open function emits its RET.
- `FunctionsAreSelfContained`: every patched jump leads into its own function, and a finished
  function is not empty, ends in RET, and no jump passes that RET.
- `Invariance`: the conjunction `Inv` of these is inductive.

The argument. None of the four is inductive alone. That a patch stays in the function needs
the jumps of the activation to lie in it (`TypeOK`); that a method may look at the last loop
context needs one to be there (`ContextsMatched`); that a finished function ends in RET needs
that the RET was all that was left to do (`RetComesLast`); and that a jump may lead to the next
address needs that something will still be emitted. `InOrder` adds what the function table must
satisfy, that the addresses of the started functions ascend. The proof has a lemma per helper (what
`Gen`, `Emit`, `Parts`, `Patch` and `Then` give), a lemma that a step which replaces the top
activation keeps the types, and for each invariant one step per action. The induction needed for
`Max` over a finite set of indexes goes through a least counterexample (`WFMin`), since the
induction theorems themselves take an operator.

The assumptions are what the analyzer establishes: the children of a node are nodes, an operator
node has an operator, a conversion leads to a type that has a cast.

And about the jumps, for the same programs:

- `JumpsInvariance`: each jump without a target is held at exactly one place - one activation, the
  breaks or the continues of one loop, the exits of one switch - and nothing else is held there.
- `EveryJumpRemembered`: `Spec => []NoForgottenJump`.
- `PatchedAtMostOnce`: `Spec => PatchedOnce`. Nothing emitted changes but a jump that waits.
- `HandsOutBytecode`: for every program that is accepted, `IsBytecode` holds of what is handed out:
  the promise on which the theorems about the machine rest.

The argument. That all jumps are remembered is not inductive, because one that two places remember would
be patched by the first and again by the second: `JumpInv` says that the places own what waits, each its
own. A place is a pair of a kind and a height on its stack, so one lemma (`OwnedStep`) serves for
activations, loops and switches: some jumps leave their places patched, the new ones belong to one
place. The loop that a `break` finds on top must be the one whose end waits below it
(`LoopsServed`); while the update of a `for` or an expression is generated nothing is added to a
loop (`QuietAbove`); and no activation remembers a jump twice (`RememberedOnce`).
`HandsOutBytecode` follows: when the stack is empty nobody holds a jump, so every jump has its target,
`SelfContained` says where that is, and a step from an address of a function that is no RET stays in it
because the function ends in one.

`VMProofs` proves for every set of bytecodes that keep that promise, every width and every input:

- `TypeCorrect`: `Spec => []TypeOK`. Every operand is a number in its range or refers to an object
  that exists, and every frame has the slots of its function.
- `StaysInItsFunction`: `Spec => []StaysInFunction`: the machine is at an instruction of the function of the
  current call.
- `ReturnsToTheCall`: `Spec => []ReturnsToItsCall`.
- `CallersStayFrozen`: `Spec => CallersFrozen`.

The argument. `IInv` joins these with `Loaded`, that the bytecode of a machine with a frame is one of
the constant. `TypeOK` needs the program, because the slots of a frame are counted by its function; that
control stays inside needs that a RET continues behind the CALL of the caller, and that needs the frames of
callers to be as they were. An operand that is missing or of the wrong type throws, so nothing about
operands is assumed. Arithmetic wraps: the lemmas about `Wrap` rest on powers of two,
which the arithmetic backend does not do, so that they are positive and double comes from the number
of subsets of a set.

`BackEndProofs` proves of the x86-64 generator, for every program, of any depth and length, whose trees are
as the analyzer leaves them and for which `Resolvable` holds:

- `LabelsAreResolved`: `Spec => []LabelsResolve`. In a file written without a diagnostic each label, as
  it is written, stands at one line of code or data only; each jump, call and reference to data finds its label; and a jump stays in
  its function, unless it goes to one of the two handlers of run time errors.

The argument. `LabelsResolve` speaks of the finished file only. On the way a jump may be in the code whose
label is still to be written, by an activation that waits on the stack: the end of an `if` behind its
branches, the start of a `while` that its `jmp` will name, the end of a function that every `return` in it
jumps to. `Owed` collects what the activations have still to write, with the end label once the prologue has
made it and until the epilogue has placed it. The invariant `Inv` is the conjunction of

- `Typed`: each activation is of a form the methods make, with nodes of the program, labels that are at
  hand (in the code of this function, or owed) and data that exists; so are the labels on `loopStack`;
- `CodeFits`: a jump has its label behind it or in front of it in its function (`Arrives`), or no function
  has begun since and the label is owed; a call names a function of the program, a reference a datum;
- `Apart`: no label is in the code twice, owed twice, or both; labels that are numbered are numbered below
  the counter, so that new ones are new;
- `Named`: the labels of functions that have begun are in the code, unless something was or will be refused;
- `Shape` and `LoopsMatched`: the order of areas, prologue, statements and epilogue on the stack, and one
  context for each loop that will be left.

None of them is inductive alone: that a `break` jumps to a label at hand needs the contexts on
`loopStack` (`Typed`), that one is there needs `LoopsMatched`, and that a line placed makes an owed
label a written one, and never a written one a second time, needs `Apart`. What a method leaves on the
stack is described once (`Brings`: these labels, each written by one activation, and jumps to them and to what is at
hand), one lemma for each method, so that the step `Method` has one proof for all of them
(`ExpressionsLeave`, `StatementsLeave`, `MethodKeepsInv`). When the stack is empty nothing is owed, and
what is left is that labels which differ are written differently. For this `Based` says, as an invariant
beside `Inv`, where a label comes from: a handler, a function, the bases of the constructs, the end of a
function, or those of the data, where each number is used once. A numbered text ends in `_` and a numeral, and no
digit is a `_`, so that it can be taken apart again (`NumberedTextsDiffer`), and different numbers have
different numerals (`NumeralsDiffer`). Texts of different kinds differ in their first symbol
(`TextsTellApart`, `DataTextsDiffer`), but for the end of a function and a function or handler: a handler does not
end in a digit, and the function is excluded by the hypothesis.

The hypothesis `Resolvable` excludes what the generator does not look after (see the end of
Findings): functions whose mangled names agree with each other, with a handler's, or with a text that can be
made for the end of a function (`IsNumbered`), and `toInt`, which is called under a label nobody writes. The first
takes out overloads, and `a::b` beside `a__b`; the last `f_end_0` beside `f`, whatever number the end of `f` gets. TLC evaluates it on all programs of the run `native`
(`ProgramsResolvable`).

And it joins the bytecode generator and the machine, for every program and all that a user may type, under the
assumptions of `MiniLang` about trees (`TreesAssumption`) and numbers and input (`MachineAssumption`), which
the theorems name as hypotheses because they are about an instance:

- `ImplementsGenerator`, `ImplementsMachine`: `Spec` implements the specification of the generator, and
  that of the machine over all bytecode that keeps the promise.
- `HandsOverBytecode`: the link between them.
- `StaysInItsFunction`: `Spec => []StaysInFunction` (defined in `Control`, which machine and pipeline
  share); `CallsNest`: calls return where they were made, and frames of callers stay as they are. These are the theorems about the machine, with nothing left of
  the assumption about its bytecode.

The argument. Each step of the pipeline is a step of one component and a stutter of the other; the one
that needs more is `Start`, which is `Run` of the machine for a bytecode of its constant, by
`HandsOutBytecode`. The assumptions are those of the components; TLC evaluates them on the programs of `minilang`.

`ParserProofs` proves for every sequence of tokens, right or wrong:

- `TypeCorrect`: `Spec => []TypeOK`. Each method finds on the stack, in the tree and in the tables
  what it expects there, also behind a failure.
- `LooksAheadInOrder`: `Spec => TokensInOrder`. The parser implements `TokenStream`.
- `ReadsToTheEnd`: a source that is accepted has been read to its end, and the buffer is empty.
- `BracketsInBalance`: the brackets open behind the tokens taken are those the activations owe.
- `ClosesEveryBracket`: `Spec => []AcceptedIsComplete`. In an accepted source every bracket has its partner.

The argument. `TokensOK` says that the buffer holds the tokens between the current one and those the
lexer has still to deliver; each action is, for the tokens, one of four moves, and each move is a step
of the stream or a stutter. A look ahead must not pass the end, where the lexer would deliver
the end a second time: `Ahead` says how far the search for the end of type arguments has come, and
`Started` that there is a current token. `StackOK` keeps `parseProgram` at the bottom of the stack,
which leaves only at the end of the file or after a failure.

For the brackets, `AcceptedIsComplete` itself is far from inductive: it speaks only of the end. `Balanced`
says what holds on the way: the stack of brackets behind the tokens taken so far can be emptied by
the activations, one after the other from the top. `Owes` says for one activation from which open
brackets to which it leads when it has returned: most methods take and leave none, those in the middle
of a list, of parameters or of a block owe the bracket they have opened, and `namespaceBody`, `cases` and
`afterDefault` owe a brace they have not opened themselves. Each action is a turn (`Turn`): it takes
tokens, and the activations it puts in the place of the top one lead from the brackets behind those
tokens to where the top one led. There is one lemma per method. At the end no activation is
left, so nothing is owed, and `ReadsToTheEnd` says that the tokens taken are the whole source. That
the function `StillOpen` of the model counts brackets the same way is shown from its least counterexample.

`LexerProofs` proves for every text, alphabet and set of reserved words:

- `TypeCorrect`: `Spec => []TypeOK`. No place lies outside the text, no number is out of range.
- `ReportedWhereItIs`: `Spec => []PlacesTrue`. Line and column of tokens and errors are those of
  their first character.
- `NothingIsLost`: `Spec => []NothingLost`. In front of each token lies nothing but blanks and comments.
- `TokensAreLongest`: `Spec => []LongestLexemes`. Each token is what the patterns say of its text, a
  number with its value, and no longer lexeme begins there.
- `RefusesOnlyErrors`: `Spec => []OnlyErrorsRefused`. Where an error is reported no lexeme begins that
  fits and ends, and a comment reported open is closed nowhere.

The argument. Every action moves over up to two characters, delivers, or fails. `PlacesOK` adds that the
place and the begin of the token are right as well. `Skipped` says what lies between the last token and
the place: a space, or a space and the beginning of a comment or token; inside a nested comment it names
the set of marks read so far and that `depth` of them are still open. The steps are lemmas on texts:
a space and a gap are a space, a space and one more blank are one, a comment whose last mark closes
all is a comment.

`Lexed` says what the loop that runs has read: of the characters from the begin of the token on, which
they are, whether the next one is escaped, and what number they make. The lemmas say of the
patterns what they demand of the text (`WordPart` to `NumberPart`, `StringPart`), of each loop
that one more character keeps what it has read, and of each way out of it that the token fits or that
the text is `RefusedAt` its begin: every lexeme that begins there runs into a letter or a point
or is too great. A longer number is excluded by the shape of what was read (`DecimalLongest`,
`FractionLongest`, `ExponentLongest`, `BasedLongest`), a longer string because the first quote that is
not escaped is its end. The binary loop stops at the first value out of range, before it has seen the end
of the number: that later digits only add to it is `PositionalGrows`. A comment that is open at the end of
the text is closed nowhere before, since the marks of a text are determined from left to right.

The text is assumed not to contain the value that stands for its end, and the letters to be none of the
other characters and to contain those of numbers.

`OverloadsProofs` proves for all sets of programs and calls:

- `TypeCorrect`: `Spec => []TypeOK`.
- `ChoosesTheCheapest`: a call is resolved to the unique candidate of least cost, and to none if
  there is no such candidate. The right side does not mention the order of the declarations, so
  the outcome does not depend on it.
- `OwnTypesSelect`: no overload hides a function without type parameters from a call with exactly its
  parameter types.
- `TypedByABinding`: the parameters and the result of a resolved call follow from one choice of the
  type parameters.
- `ExactComesFirst`: a function that takes the arguments as they are, at some choice of its type
  parameters, is never passed over for one that needs a conversion.

The argument. `TableOK` says that the table lists the collected functions of each name once,
in ascending order, with different signatures; `ChoiceOK` says that the loop holds the cheapest
overload it has seen, knows whether a second one costs the same, and that conversions are tried
only when nothing fits without. `Inv`, the conjunction with the two properties, is inductive, with one
lemma for the steps that fill the table and one for those of the loop. That costs can be
compared at all needs them to be integers, hence finite sets of arguments. `OwnTypesSelect` follows
from the others: such a function fits at cost 0, a function with type parameters costs at least
1, and a second one of cost 0 would have the same signature. For `TypedByABinding` the choice is what
`GenericBinding` says of each type parameter the signature names; for `ExactComesFirst` a function that
fits at some choice fits at that one, since the first argument for a type parameter determines it.

`ScopesProofs` proves for all sets of statements and programs over them, so for functions of any
depth and length, rightly or wrongly written:

- `TypeCorrect`: `Spec => []TypeOK`. Every symbol of an open scope and every slot written into the
  tree lies below the slot counter.
- `ContextsAreMatched`: the depths are the numbers of open loops and switches, and every end of a
  scope finds a scope, also behind a failure that left one open.
- `SlotsStayApart`: two symbols of open scopes never share a slot.
- `FramesHoldSlots`: the frame of an accepted function has room for its parameters and for every slot
  its statements use.

The argument. A new symbol takes the counter as its slot and all others lie below it (`TypeOK`), so
slots stay apart; that a declaration finds a current scope and that an end closes one follows from
`ContextsMatched`, because the activation that is running is itself a pending end or lies above the
`endFunction` at the bottom, which `FunctionOpen` adds. It also says that the counter has passed the
parameters, which `SlotsExist` needs when the function ends. `Inv`, the conjunction of the five, is
inductive; one lemma per action, over lemmas about the lookup of a name, about pushing, popping and
filling a scope, and about the activations that `Then` leaves. That a visible name has an innermost
scope goes through the greatest of a bounded set of numbers (`Greatest` in `CallStackProofs`).

The assumptions say what the parser hands over: the children of a statement are statements, the body
of a function is a block, a parameter has a value type.

### Only model-checked

- `MeaningPreserved`, `NativeMeaning`, `ResolvedLexically`, `TreesRecovered`: the references
  (`SourceSemantics`, `LexicalScoping`, `Grammar`) are recursive, and no theorem can rest on a recursive
  operator. With them go `OnlyValueErrors`, which speaks of the programs `Typing` accepts.
- `ReturnsOneValue` and `CallerOperandsUntouched` need to know how many operands wait at each address of
  all bytecode, which the generator does not promise (finding 2 is a program without such a number).
- `StackAligned` and `CallerUntouched` of the second back end: they are about the processor on the
  finished code, and need the height of the stack at each line, as those of the bytecode would.
- Liveness: `Terminates`, `Exits`, `Stops`.

Where an induction over numbers is needed in a proof it goes through a least or greatest counterexample
(`Least` and `Greatest` in `CallStackProofs`), since the induction theorems take an operator. The recursive
function `Numeral` is no different: that its numerals exist, are digits and differ is shown that way.

## The plan

Open is a module `Driver`: the options of `main` and its phases with their exit status. A proof of
`StackAligned` would need an invariant of `AsmCodegen` that says for each line how many words wait on the
stack there, and one of `Native` that the processor is at a line with as many; the first is of the kind of
`CodeFits`, and all activations balance their pushes.

## Not modelled

Printing and dumping (`ast_printer.cpp`, `bytecode.cpp`) only format. The standard library, the examples
and the tests are programs of the language. The options of `main`, reading files and timing are input
and output around the phases. Rounding of floats, infinities, the value of a float literal that has one, the memory
the process runs out of, and calls of the native program into functions it does not have are beyond
these models; the wording of messages is no matter of them.
