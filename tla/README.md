# TLA+ models of libi86

libi86 is a C library for DOS programs built with gcc-ia16 ("the GCC build",
`host-gcc/`) or with the Amsterdam Compiler Kit ("the ACK build", `host-ack/`);
`common/` is shared. It re-creates the Watcom-like and Borland-like calls of
`<graph.h>`, `<conio.h>`, `<process.h>`, `<dos.h>` and so on, over the BIOS, DOS
and, in the GCC build, DPMI. This directory holds TLA+ modules of the parts of
the library that keep state or decide something, TLC configurations that check
them on small instances, and proofs for TLAPS.

    tlc -config MCTextScreen_typing.cfg MCTextScreen      # one run
    tlapm TextScreenProofs.tla                            # one set of proofs

`PROJECT.json` lists the parts, the runs, which lines of the source each
definition stands for, and, for every property, a change to the code's model
that makes it fail.

## 1. The system

The library is sequential: it starts no thread. What makes it hard is state that
is kept in two places at once (the library's and the BIOS's, DOS's or the DPMI
host's), calls that do half their work before they fail, byte-wise parsing with
double-byte characters in it, fixed buffers, and assembly that is written once
for several calling conventions and memory models. The environment is not
sequential with the library: other programs and DOS itself move the BIOS cursor
between two calls, the user types at any time, an interrupt handler may call the
library within a call, and any DOS or BIOS call may fail.

| Part | State it keeps | Operations | Modules |
| --- | --- | --- | --- |
| Text screen (`common/graph`, `common/conio`) | window, `max_x`, `max_y`, attribute, cursor flag in `__libi86_vid_state`; the BIOS's cursor position and the screen itself | `_outtext`, `_outmem`, `putch`, `cputs`, `_settextposition`, `_settextwindow`, `_scrolltextwindow`, `_clearscreen`, `insline`, `delline`, `clreol`, `clrscr`, `gotoxy`, `window` | `TextScreen`, `Terminal`, `TextScreenProofs` |
| Software cursor | the line XORed onto a character cell in graphics modes | `_displaycursor` and every call that brackets its work with cursor off/on | `TextScreen` |
| Video mode and start-up | mode number, start-up mode, adapter, `graph_p`, dimensions; `__libi86_graph_state` | `__libi86_vid_state_init`, `_setvideomode`, `_getvideomode`, `textmode` | `VideoMode`, `VideoModeProofs` |
| Colours and attributes | attribute, normal attribute, background colour, drawing colour and its maximum; palette and DAC registers | `_settextcolor`, `_setbkcolor`, `_setcolor`, `textcolor`, `textbackground`, `textattr`, `highvideo`, `lowvideo`, `normvideo` | `VideoMode`, `Palette`, `VideoModeProofs`, `LibraryProofs` |
| Console input | the pushed-back byte; the static password buffer | `_getch`, `_getche`, `_ungetch`, `cgets`, `getpass` | `LineInput`, `ConsoleProofs` |
| Console handles and output | handles for reading and writing the console, the terminal's saved mode | the constructors of both builds, `kbhit`, `putch`, `cputs`, `cprintf` and its Borland form, the destructor | `ConsoleFds`, `ConsoleProofs` |
| Process spawning (`common/process`) | `errno`, an environment block, an argument vector | `_spawnve`, `_spawnvpe` and the calls that end in them | `Spawn`, `SpawnProofs` |
| Command tail | `argb`, 128 bytes | the COPY macros of `direct_spawn` | `CommandTail`, `TailProofs` |
| Default FCBs | the two FCBs of the child | `make_fcbs` | `DefaultFcbs`, `TailProofs` |
| Environment | the child's environment block, its program name | `make_env_blk`, `__libi86_get_progname` | `Environment`, `TailProofs` |
| PATH search (`common/dos`) | the iterator `__libi86_msdos_pathed_t` | `pathed_first`, `pathed_next`, `_searchenv`, `_searchpath` | `PathSearch`, `PathProofs` |
| Path utilities (`common/stdlib`, `host-*/stdlib`) | the ACK build's component stack | `_splitpath`, `_makepath`, `_fullpath` | `PathParts`, `FullPath`, `PathProofs` |
| Interrupt calls (`host-*/i86`) | a thunk in memory; all registers | `int86`, `int86x`, `intdos`, `intdosx`, `intr`, `_intrf`, `bdos` | `Interrupts`, `LibraryProofs` |
| DOS calls (`host-*/dos`, `common/dos`) | DOS's memory, files, directories, DTA; `errno` | `_dos_allocmem` and kin, `_dos_open` and kin, `mkdir`, `_dos_findfirst`, `_dos_findnext` | `DosCalls`, `LibraryProofs` |
| DPMI and DBCS tables (`common/dpmi.h`, `host-gcc`) | cached selectors, descriptors, blocks of memory | `_DPMI...`, `_getsysvars`, `__libi86_msdos_get_dbcs...`, `_makefcb` | `Extender`, `LibraryProofs` |
| Far memory and strings | none | `_fmemmove`, `_fmemcpy`, `_stricmp`, `_fstricmp`, `_fmalloc` | `FarMemory`, `Interrupts`, `DosCalls`, `LibraryProofs` |
| Numbers | none | `_ulltoa` and kin, octet order, `_bios_disk`'s and `_bios_timeofday`'s packing | `Conversions`, `LibraryProofs` |
| `lz4mi86` (`examples`) | input and output files | the whole tool but the decompressor | `Lz4Tool`, `LibraryProofs` |

How the parts interact:

- Everything that writes characters reads the window, the attribute and the
  cursor flag, and moves the BIOS cursor. A mode change resets them all, and
  reads the background colour back from the adapter.
- `_spawnvpe` runs the PATH iterator, calls `_spawnve` for each path name it
  gives, and decides by the result, and by `errno`, whether to go on. `_spawnve`
  tries extensions and calls one of two spawners. `comspec_spawn` makes a new
  argument vector and calls `direct_spawn`, which makes an environment block, the
  command tail and the FCBs.
- `cgets` and `getpass` read with `_getch`, which first takes what `_ungetch`
  pushed back; `cgets` echoes through the text screen. All of them use the
  handles that the start-up code found.
- The parsers ask for the DBCS table through a far pointer, which in DPMI mode
  needs a selector, which is cached.
- `_fmalloc` is `_dos_allocmem`; the interrupt routines are what DOS, BIOS and
  DPMI calls are made with.

### What is hard, and what makes each part correct

- **Text screen.** Between two calls the BIOS cursor may be anywhere. Output
  must start inside the window, wrap, scroll and step back inside it, and leave
  the rest of the screen alone. What the program sees must be a terminal of the
  window's size. `_gettextposition` and `_settextposition` must mean the same
  place.
- **Software cursor.** It is XORed: each call must take it down and put it up in
  pairs, at the same place and with the same attribute.
- **Video mode.** The BIOS is told before the library's state changes, and may
  not do as it is told. The library's view must be that of the screen, and the
  start-up mode must be recorded after start-up settled on one.
- **Colours.** A call returns what it replaced, so that a program can put it
  back; foreground, background and blinking share a byte; the register behind a
  background colour depends on the adapter; a drawing colour must not outlive its
  mode.
- **Console input.** The line must fit, what is echoed must be what is stored,
  extended keys are two bytes of which the second may look like anything, no byte
  is lost, no old password shows through.
- **Console handles.** Whatever a program was redirected to, `<conio.h>` must
  read and write the console, by one handle, in any order of two constructors;
  the terminal's mode must be given back. Output may be written in part.
- **Spawning.** Each of a dozen steps may fail. All memory is freed on every
  path, at most one program runs and it is the first in the order of the search,
  "not found" is only said when it is true, and `errno` has a reason.
- **Command tail.** Quoting must match how the program that runs takes its tail
  apart; a redirection character in an argument must not redirect; a second byte
  of a double-byte character is not a quote; everything fits in 128 bytes.
- **Default FCBs.** The second FCB comes from the second argument, and the loop
  that looks for it has no bound but the carriage return.
- **Environment.** One pass sizes the block, another fills it.
- **PATH search.** Each directory is tried once, in order, joined to the name by
  the right separator, in a buffer of `_MAX_PATH` bytes.
- **Path utilities.** `..` takes back a component, but not the root; the result
  must fit the caller's buffer; what one call takes apart the other puts together.
- **Interrupt calls.** Every argument goes through BX, in an order that depends
  on the memory model; BP and the stack are used while they are being changed.
- **DOS calls.** A failure is told by a flag, a result and `errno` at once.
- **DPMI.** A selector and the segment it is for are two variables; a call that is
  interrupted between them by another must not mix them up. Blocks taken for a
  call must go with it.
- **Far memory.** Two far pointers may overlap with nothing equal in them.
- **lz4mi86.** A failure at any point must not leave half a module.

## 2. The modules

All modules have one action for one operation or, where a call may be cut short
or its intermediate state matters, one for each step between two points where it
can fail. Characters, bytes and keys are the classes that the code tells apart.

**`Terminal`** is the abstract specification of a text window: a grid and a
position, with the operations a terminal has. It knows nothing of a BIOS cursor or
of how a window is cut out of a screen; of calls, only whether characters are being
written (`writing`), and of the screen, only which part of it the terminal is (`frame`)
and whether anything on it changes (`sheet`). `Reopen`, by which other cells come into
view, needs another `frame` and leaves `sheet` alone: so a line feed in a window of one
row, a plot in one of one cell, and a scroll or a clear at the top left are bound by
the operations they are.

**`TextScreen`** is one video mode's text screen. `win` is `x1z..y2z`, `cur` the
BIOS data area's cursor, `screen` the characters, `overlay` the cursor lines on
the pixels. `__libi86_vid_outmem_do` takes one step for a character, so that
`pxy`, the position it carries in a register, can be reasoned about. The actions
include another program's moving the BIOS cursor (`ElsewhereMoved`). `TermSpec`
states that it implements `Terminal` under a mapping that cuts the window out of
the screen. `Drawn` says which modes have a software cursor: the graphics modes of at
most 256 colours. In those of more (`HighColour`) `curs_p` is kept, and the `default:`
of `libi86-displaycursor-on.c` draws nothing; in text modes the BIOS has the cursor. `CarefulSpec` leaves out the calls that change the window, colours or
pixels while the cursor is displayed (see section 6).

**`VideoMode`** covers what `TextScreen` holds constant: mode changes, start-up and
colours. `Machines` says which build runs on which adapter. `BiosSet` is the BIOS:
it enters the mode, stays where it is, or, asked for a mode it does not know,
enters a third one (`strayed`). `pc` goes from `start` through `init` to `ready`;
in the GCC build the steps are a constructor, in the ACK build the first call's.

**`Palette`** is `_setbkcolor` in graphics modes, down to the registers: the
conversion of an RGB triplet to six bits of an EGA or four of a CGA, the routines
that read and write a palette or DAC register, and what is seen then (`Seen`).

**`Spawn`** abstracts path names to the directory they are in, their extension and
whether they fit; a `world` says what is on the disk and a `req` what is asked.
Failing steps are disjuncts of the step that may fail. `ErrnoCleared` is the one
difference between the builds that matters: whether `_dos_freemem` stores a
successful result in `errno`.

**`CommandTail`**, **`DefaultFcbs`** and **`PathSearch`** follow their loops
character by character. `DefaultFcbs` gives the two flags that the code does not
initialize any value. `PathSearch` includes the null DBCS table of the GCC build.

**`PathParts`** has the two calls one after the other, in either order; the flags
of `_makepath` are part of its recursion over the text. **`Environment`** extends
it: the block is sized, filled, copied by DOS with the child's path behind it, and
walked through in the child.

**`FullPath`** has a step for a component. `comp_start` is the array of positions
on the stack, `out` the buffer, `base` the working directory that DOS gives. A network
path is left to DOS's truename (`Network`), which for a buffer shorter than
`_MAX_PATH` is given the wrong arguments (`NetworkStrays`, section 6). The
GCC build's version, which fits the result of `realpath`, is two more actions.

**`LineInput`** reads a key a step: `_getch` with its pushed-back byte, `cgets` and
`getpass`. `shown` is what stands on the screen after echo and erasure, `beyond`
what an earlier password left in the static buffer.

**`ConsoleFds`** runs from the start of the program to its exit: what its three
handles are, the constructors in either order (or, in the ACK build, the first
call), and then any calls, of which each write may be cut short or fail. The screen of
an ELKS program is known to be one (`vid_is_console`) only if an ioctl for graphics
works on it, and is given back or found in use.

**`Interrupts`** makes each routine out of the macros that the assembly is written
with, for a `build` (calling convention, near or far calls, processor), and runs
it on a small 8086. A word is two bytes of four bits. What the C side sees before
and after is compared.

**`Extender`** has the calls in progress as a stack, since a handler may call at
any step; `ldt` is the host's table of descriptors, `told` the program's idea of
it; a look-up is `torn` if it has read the selector of where the table was, and another,
made by a handler, then stores where it is.
In real mode, it has the look-up of the DBCS table with each DOS version's answer.

**`DosCalls`** pairs each call with DOS's view of it: `arena` and `asked_of` for
memory, `tree` and `meant` for directories and files, `searches` and `wanted` for
the searches behind the one DTA.

**`Conversions`** and **`FarMemory`** are pure algorithms, each a start and a
result, against a reference definition. **`Lz4Tool`** reads and writes in pieces
and may fail at each.

The `MC` modules give the constants their values. `MCStrings`, `MCConsole` and
`MCLibrary` put several modules into one run: a behaviour is one of them and
leaves the others as they are. The modules compose as follows: `Terminal` is
instantiated in `TextScreen`; `VideoMode` supplies the constants `Graph`, `MaxX`
and `MaxY` under which `TextScreen` runs between two mode changes; `Spawn` takes
`PathSearch` as the order of its places, and `CommandTail`, `DefaultFcbs` and
`Environment` as steps that fail or do not; `Environment` uses `PathParts`.

The proofs are in seven modules that extend the models: `TextScreenProofs`,
`VideoModeProofs`, `SpawnProofs`, `TailProofs` (of `CommandTail`, `DefaultFcbs` and
`Environment`), `PathProofs` (of `PathSearch`, `FullPath` and `PathParts`),
`ConsoleProofs` (of `LineInput` and `ConsoleFds`) and `LibraryProofs` (of `DosCalls`,
`Lz4Tool`, `Extender`, `Palette`, `FarMemory` and `Conversions`). **`Induction`** has
the lemmas about recursive functions that they share.

## 3. The runs

| Run | What it shows | States |
| --- | --- | --- |
| `typing` | A mode of more than 256 colours, all calls: no cursor is drawn, as in text modes, so nothing need be hidden; position in window, position calls agree, nothing outside is touched, refinement of `Terminal` | 98 848 |
| `cursor` | Graphics mode that draws the cursor, two attributes: the software cursor is shown once or not at all | 197 456 |
| `modes` | Six machines, all mode and colour calls, failing mode changes among them | 92 030 |
| `spawn` | Every request on every disk, any step failing, with a `_dos_freemem` that leaves `errno` alone | 269 438 |
| `strings` | `CommandTail`, `DefaultFcbs`, `PathSearch`, `FullPath`, `PathParts` and `Environment`, each on every short input | 871 771 |
| `console` | `LineInput` on every three bytes typed, with push-back and read failures; `ConsoleFds` for every redirection, three builds | 491 843 |
| `library` | `Interrupts`, `Extender`, `DosCalls`, `Conversions`, `FarMemory`, `Lz4Tool` and `Palette` | 203 641 |
| `spawn_gcc` | The GCC build: `errno` is 0 after a failure (section 6) | finds it |
| `fcbs_garbage` | Flags that do not start cleared (section 6) | finds it |
| `path_drive` | A drive letter as a directory (section 6) | finds it |
| `modes_ack` | Start-up of the ACK build does not end (section 6) | finds a cycle |
| `int86_ack` | The Borland-compatible `int86` of the ACK build (section 6) | finds it |

What the properties of the three combined runs say:

- `TailFits`, `RedirQuoted`, `WideKept`, `WordsRecovered`: the command tail is never
  longer than its buffer; a character that a DOS shell would redirect by is within
  quotes; no byte of a double-byte character is taken for another; and the program
  that runs finds the arguments again by its own rules.
- `FcbsFollowTail`: the loop stops within the tail; from cleared flags, the second
  FCB is parsed after the first argument.
- `PathnameFits`, `DirectoriesInOrder`: the path name fits, and each directory is
  tried once, in order.
- `FpSafe`, `NamesThePath`: `_fullpath` never writes past its stack and leaves no block
  behind when it fails; it does not write past a buffer of four bytes or more, but for
  network paths given with a caller's buffer shorter than `_MAX_PATH`, and these are
  the only calls that come to the line at fault (section 6); its result is what the names, `.`
  and `..` lead to by a definition that knows nothing of a stack of positions.
- `PartsComeBack`: `_splitpath` and `_makepath` undo each other, and the search for
  an extension in `_spawnve` agrees with `_splitpath`'s. Components that are put
  together must mean what their names say (`Proper`): with no drive, a directory that
  begins with a letter and a colon is taken for one, and a dot within an extension
  begins another.
- `EnvironmentArrives`: the block holds what is written, and the child has the
  strings and its own name from it.
- `LineFits`, `NothingButTheLine`, `LineIsEdited`, `BytesInTurn`: a line fits, is
  what is shown, with nothing of an older password; it is what an editor would
  make of the keys; and every byte typed or pushed back is read once, in order.
- `ConsoleIsOurs`, `AllOrEof`: all of `<conio.h>` uses the console, whatever the
  handles were, and gives its mode back. The handle for output can be written to in
  every case but one (`OutputLost`), and that for input read from in every case but
  one (`KeysLost`); in these two, told exactly, it never can (section 6). What was
  written is a beginning of the text, and all of it when the call says so; a call that
  fails says that it did.
- `CallsAreTrue`: in every build the interrupt asked for is raised with the
  registers asked for, its answer stored, and stack, saved registers and memory
  are kept. `OutRegsStored` is a part of it, by itself in `int86_ack`, and
  `FrameGivenBack` another, which is proved.
- `ProtectedMeansReal`: however look-ups nest, a pointer from one leads to the segment
  DOS reported, except after the one order of steps that makes it `torn`, when it never
  does (section 6); one block of base memory is lost with each interrupt the host
  refuses, and no other; descriptors are those the program holds.
- `AnswersAreTrue`: result, `errno` and DOS's state agree; searches are apart.
- `ConversionsComeBack`, `MoveIsCopy`, `AllOrNothing`: against the reference
  definitions of `Conversions`, `FarMemory` and `Lz4Tool`.
- `BackgroundGivenBack`: a background colour given back is seen again; a triplet is
  seen as asked, to the adapter's precision; the sixteen named colours are a CGA's.

### Bounds

- *Screen of 2 columns by 3 rows* (`typing`). A window can be smaller than the
  screen on each side, and one, two or three rows high; a character can be at the
  margin and not; a scroll can keep a row, clear the window and exceed it. One
  printable character is enough, as the code never compares two.
- *2 by 2 and two attributes* (`cursor`): a cursor line in the wrong cell or of
  the wrong attribute is visible.
- *Two PATH directories* (`spawn`): a search that goes on, stops, and stops too
  early are told apart. A directory holds nothing, a program, a script and a bare
  name at once, or a file of another kind.
- *Four colours* (`modes`): with and without blinking in both interfaces' bits,
  and an RGB triplet, which does not fit a byte.
- `strings`: *Size = 12* instead of 128, long enough for every way of quoting two
  short arguments, short enough to run full at each use of each macro. *MaxPath = 5*
  for the iterator, *OutMax = 10* for `_fullpath` (with caller's buffers of 1, 3, 4, 6
  and 12 bytes), *WholeMax = 8*, *FnameMax = 3*, *PartExtMax = 3* for the parts, all
  for the same reason; `path_drive` has 9, so that a drive letter and a name fit. A
  working directory has up to *MaxCwd = 4* characters after its root, with names of up
  to *NameMax = 2* and extensions of *ExtMax = 1*. A paragraph has four bytes
  (*PARA_SZ*), so that a block of environment fills one, two or three.
- `console`: *three keys and lengths 1 and 3*: a line that is full, one that has no
  room at all, an extended key at each place, a shorter password after a longer one.
  Texts of three characters, lines' ends among them, in pieces of any length.
- `library`: words of two four-bit bytes (`Interrupts`), of six values (`ExW`,
  addresses of two of them) and of four (`W`): each has carries, wraps and a sign.
  *MaxNest = 2*: a look-up within a look-up. *MaxDescs*, *MaxBlocks*, *MaxMemBlocks*,
  *MaxMoves*, *MaxRefused* bound how often the program asks; each kind of failure and
  each order of two occurs. *Megabyte = 16* with segments two bytes apart: buffers
  that overlap upwards, downwards, by another segment and across the wrap.
  *NearBuf = 2* pieces, so that a frame takes several reads.

`CHECK_DEADLOCK FALSE` stands only where a computation ends (the parsers, the
conversions, the tool, a program's exit). The rest, where the program can always
call again, is checked for deadlock.

### Fairness and liveness

The library waits for nobody but the user and DOS. `Spawn` assumes weak fairness
of the steps within a call: the code of a call in progress keeps running. With it,
`CallsReturn` says that each call returns. `VideoMode` assumes it of start-up,
which runs by itself, for `GccInitEnds` and `InitEnds`. No fairness is assumed of
the program, the user or other programs. The other modules have no liveness
property: their loops go once over a text, which their types bound.

## 4. What is proved

The theorems hold for every value of the constants under the named assumptions of
each module, which say that the constants have their types, that in `VideoMode` an
adapter can show one of the two 80-column text modes, and what is told below the
table.

| Theorem | Statement | Argument |
| --- | --- | --- |
| `TypeCorrect`, `PositionSafe` | `TypeOK`, `PositionInWindow` | inductive together: a carried position is a point of the screen only because it is in the window, and the window is on the screen because of `_settextwindow`'s tests |
| `ReportSafe` | `ReportIsTarget` | follows from the type of the window |
| `OutsideSafe` | `OutsideUntouched` | an action property: one case for a call, each write being in the window or clearing all |
| `CursorAlwaysShownOnce` | `CursorShownOnce`, of programs that follow `CarefulSpec` | a call puts the cursor up and takes it down by XORing the same cell with the same attribute; while it is hidden, nothing can put it up; where it is not drawn (`Drawn`), nothing is ever on the screen |
| `WindowIsTerminal` | `TermSpec`: `TextScreen` implements `Terminal` | a step simulation, one case for a call: what leaves window and screen alone is a `Move`, or, while a text is written, a `Back`; only a change of `win` is a `Reopen`; plotting writes one place of the terminal's grid (`GridPut`, different cells being different places); the BIOS's scroll is a `Shift` of the lines (`ScrollIsShift`), by no more than the height |
| `ModeAlwaysKnown`, `DrawColourAlwaysShown`, `DefaultModeAlwaysUsable` | the properties of the same names | inductive with `OneRefused`: start-up tries the second text mode only on an adapter without the first, so the second is entered |
| `ColourAlwaysGivenBack` | `ColourGivenBack` | `Bytes`: attributes, and the screen the normal one is read from, are bytes; three fields make up a byte and can be read back from it |
| `SpawnFreesAll` | `NothingLeaks` | `Held`: memory is held only at program points between its allocation and its release |
| `SpawnRoutes` | `RunsAsItsKind` | `Routed` and `Ran`: the spawner is chosen by the extension and does not change until the program runs |
| `FailureExplained` | `FailureHasReason`, where `_dos_freemem` leaves `errno` alone | an invariant on `errno` and `res` |
| `FirstMatchAlwaysRuns`, `NotFoundAlwaysTrue` | `FirstMatchRuns`, `NotFoundIsTrue` | `Search`: no file in a directory behind could run, the extensions left to try have all of the present one's files, in order, and the file found is the first of them; `Outcome`: a failure of the kind that sends the search on means that the present directory's files are out of reach too, and nothing has run before it |
| `TailInBuffer` | `TailFits` | inductive with the types: each COPY tests for at least the room it uses |
| `PathnameInBuffer` | `PathnameFits` | inductive with the types: three loops leave the byte for the null |
| `RedirectionsStayQuoted` | `RedirQuoted`, of `WellFormedArgs` | `ShellInv`: the shell, as an automaton that reads the tail (`Shell`), is outside or inside of quotes just where the code's `outside_quote` says, and has met no bare redirection; `SoundInv`: what is left of an argument ends a character where the code's flag says that one is open |
| `WideCharactersKept` | `WideKept`, of `WellFormedArgs` | `WideInv`: reading the rest of the arguments after the tail gives what reading all the arguments gives |
| `ShellGetsTheArguments` | `WordsRecovered`, of `WellFormedArgs` | `WordsInv`: the words that the shell's splitter has of the tail, the word it is in, and the arguments not yet copied are the argument vector; a lemma for each way of copying a character (`SplitStep`) |
| `FcbsAlwaysFollowTail` | `FcbsFollowTail` | `FcbInv`: no byte up to the present one was the carriage return; from cleared flags, the code's flag says whether the byte is the second of its character, and none before it was a delimiter |
| `SearchGoesInOrder` | `DirectoriesInOrder` | `OrderInv`: what was tried are the first directories of the variable, what is in the buffer is the next one, as far as it was copied or joined, and the place to go on is behind it; `FlagsSay`: the three flags tell how the directory so far ends |
| `LineInBuffer` | `LineFits`, `EchoIsLine` | inductive together |
| `LineSaysWhatWasTyped` | `LineIsEdited` | `EditInv`: editing goes on from the line so far, and a code after a null is that of an extended key exactly while `pc` says so (`AfterNul`) |
| `NothingElseRemains` | `NothingButTheLine` | inductive with the above: `getpass` clears its buffer before it reads, so `beyond` is empty while it does |
| `BytesAlwaysInTurn` | `BytesInTurn` | an action property: one case for a call that reads and one for a call that pushes back, of the queue of bytes before and after |
| `TheConsoleIsOurs` | `ConsoleIsOurs` | `FdInv`: for each constructor, what the handle is before it and after it has run, in the presence of the other's changes to the same table of handles (`HandlesStay`): the two cases in which it is open the wrong way are those in which one took what the other had opened |
| `AllIsWritten` | `AllOrEof` | `TextInv`: what was sent and what is to come, line ends translated, make up the text; a call that fails has sent a beginning of it, and short of all of it when the reason is a failed write |
| `EnvironmentAlwaysArrives` | `EnvironmentArrives` | `EnvInv`: the two passes agree (`Copying`: the bytes copied are those of the strings that were sized, each with its null, and the room left is what the rest needs), and the child's reader, at any byte of the block, has the strings whose ends it has passed (`Arriving`, `Walking`) |
| `PartsAlwaysComeBack` | `PartsComeBack` | `PpInv`: the parts are `_splitpath`'s of the path and the path is `_makepath`'s of the parts. Whether a byte is the second of its character depends on what is before it alone (`SecondAlong`), and the last separator stays the last when none follows (`LastStays`): so what is cut at a separator is put together from both sides, and what the ADD macro has copied, with its flags, is the component (`AddingIs`) |
| `CallIsSafe` | `FpSafe` | `Stacked`: two positions on the stack are at least two bytes apart for each component between them, which bounds the stack by half the buffer; `Fitting`, `Fresh` |
| `ResultIsNamed` | `NamesThePath` | `OnWay`: at each component, the path that is written is the head, a `..\` for each name above it and the names that the path has led to, and the positions on the stack are just as far apart as those names are long (`Spaced`), so that going back to one drops one name; `InDir`, the same for the working directory |
| `DosAnswersAreTrue` | `AnswersAreTrue` | `DosInv`: blocks do not overlap and hold the bytes asked for (`ArenaGood`); the program's view of files and of each search is DOS's |
| `ExtenderIsSound` | `ProtectedMeansReal` | `CallIsSound`, of every call on the stack: a step between two stores knows the segment it is for, and a call that has read a selector is wrong about it exactly when it is `Stale`, and torn exactly when the pair has been replaced since; each call that holds a block holds one of its own, which counts the blocks; `LdtSound` |
| `ModuleIsWhole` | `AllOrNothing` | `LzInv`: what each step may rely on of the header (`Judged`), how much of the block has been read, and how much of the module is written |
| `BackgroundComesBack` | `BackgroundGivenBack` | `PalInv`: the registers hold the colour that the library has kept, on each adapter by its own conversion; the conversions' ranges and the sixteen named colours by cases |
| `MovesAreCopies` | `MoveIsCopy` | `HasCopied`: after each word, the bytes moved so far are at their destination and nothing else has changed; a forward copy reads each byte before it is overwritten (`ForwardReadsFirst`), and so does a backward one, by the cases in which the 20-bit addresses of the two bytes may be equal |
| `ConversionsAlwaysComeBack` | `ConversionsComeBack` | `CvInv`: the digits so far, turned round and read on from the number that remains, give the number (`DigitsSoFar`), and the last of them is not zero unless more are to come. One division by hand is one of the number that the four words are, because the remainder carried is less than the radix (`NextWord`, `DivisionIs`). A word of a number is what one quotient leaves of another (`QuotientTwice`), which gives the octets, their halves, and what is read back from them (`LehReads`, `FromMemoryReads`, `HalvesAre`) |
| `FramesComeBack` | `FrameGivenBack`, a part of `CallsAreTrue` | `CallInv`: each place in a routine has a level, how many words the routine has pushed there and whether copies go downwards, and the stack pointer and the direction flag are what the level says. A level for every place exists because the pieces that the macros make have one (`RunsAlike`, `StoreRegsRun`, `PushImmRuns` and so on) and pieces with levels that meet can be put together (`RunsBoth`); then no conditional jump, no build and no argument in a register or on the stack leads to another. What the routine pops at the end is what its caller pushed (`ReturnPops`) |

`Stacked` is needed because the code never tests the stack's size: that
`_MAX_PATH / 2` positions are enough follows only from each component's taking a
character and a separator, through every `..` that takes one back.

`WellFormedArgs` says that no argument ends in the middle of a double-byte
character. The three theorems about double-byte characters in the tail need it:
with an argument that ends in a first byte, the quote that closes it is read as
that character's second byte, and the shell is still inside of quotes. The code
makes no provision for such arguments, and `TailFits` does not need it.

Assumptions on constants say what the code fixes: for instance, `DosAssumption` has
that the library's codes for reading, writing and both are different, whichever of
the members of `LibModes` it was built with (`dos-open.c` tells them apart).
`FarAssumption` has that an offset reaches at most half of memory (on an 8086, a
sixteenth of it). `MovesAreCopies` needs that: with longer buffers, `_fmemmove`'s
second test could take the end of a buffer that wraps for the beginning of another.

### Reading a text

Most definitions of what a text should mean read it from the left with a state: the
shell's quotes, the words so far, the names so far. `Induction` has what a proof
needs of them. The library's induction theorems are about predicates given as
operators, which the provers at hand cannot instantiate; here a predicate is a *set*,
the set of numbers it holds of, and `NatClosed` derives induction over the numbers
from a well-founded order that the library proves for finite sets
(`FS_StrictSubsetOrderingWellFounded`). From it follows that a recursive function,
which is a `CHOOSE` by TLA+'s definition, obeys its equation (`RecursionDefines`),
that two functions that obey the same equation agree (`RecursionAgrees`), and how a
reader reads a text and then another (`AfterBoth`), one character more (`AfterNext`),
and together with another reader (`ReadAlike`).

Facts about sequences are lemmas of their own at the head of each proof module.
The type invariants of the modules are part of the inductive invariants there; the
runs spend their time on the other properties.

### What the proofs changed

- `ConsoleFds` with handles 0 to 3 could come to a program that opens the console
  for input and again for output with no handle left; it has five now (DOS gives
  twenty), so that the case in which both are redirected is checked too.
- Two CASE expressions, in `Palette` and in `CommandTail`'s `SplitWords`, had guards
  that overlapped, so that TLA+ left open which one was meant. They are disjoint now.
- `FullPath`'s definition of what a path names used the same scan for second bytes as
  the model; it is a reader of its own now.
- `PartsComeBack` was false outside of the run's bounds: a directory of a letter, a colon
  and more, without a drive, comes back as a drive. `Proper` excludes it, and an
  extension with a separator, a colon or a second dot, by name; the run has such
  directories and extensions now.
- `Environment`'s definition of what the child reads, and `PathParts`'s of what the ADD
  macro makes of a component, are recursive functions, about which there is
  induction. So are the numbers that `Conversions` reads from digits and octets, and
  its powers of a word, which the provers know nothing of as `^`.
- `Conversions`' assumption did not say that a number is in the range of its type; a
  number below it would come back as another.

### Only model-checked

- of `CallsAreTrue`, all but `FrameGivenBack`: that the registers and structures are
  filled in right is a computation of some dozen steps for each build and routine, and a
  proof would be the same enumeration. Of the constants, it depends on the numbers of
  the interrupts only, of which the run has one of each kind, and on the builds, of
  which it has all. `FrameGivenBack` speaks of
  routines that return; that a return finds its address is model-checked as well;
- all liveness, and ENABLED, which are out of the prover's reach.

## 5. What is not modelled

- *LZ4 decompression*: the assembly decompressors work on bytes of which TLC would
  have to enumerate blocks. `Lz4Tool` has the frame around them.
- *Formatting and parsing by the C library*: `cprintf`'s text is any text;
  `cscanf` is not modelled.
- *Calls that put arguments in registers and make one call*: the BIOS's
  `_bios_...`, DOS's date, drive, vectors and attributes, DPMI's questions about the
  host. They keep no state and decide nothing; `Interrupts` shows for the shared
  routines that registers get where they should.
- `segread`, `delay`, `sound` and ports; program information (the PSP and versions);
  error messages (`perror` and kin); file modes.
- `gettextinfo`, which copies state out.
- The bytes of the tail that a DOS shell receives beyond its buffer: `TailFits`
  is stated for the other programs only, as COPY2 and COPY3
  (`common/process/spawnve.c:384-406`), which only a DOS shell's arguments reach,
  test for one exact position instead of an inequality.
- The pixels of characters, and palette registers other than the background's.
- The ACK build's assembly but for the structures and the dispatch of its `int86`.
- The branch of `make_env_blk` for ISO C11, which no build has (section 6).

External, and assumed: DOS, the BIOS and the DPMI host do as they are asked or say
that they did not; DOS keeps the direction flag over `bdos`; what the child of an
empty environment reads is DOS's affair.

## 6. Where the code differs from what is said of it

Each of the first five is the counterexample of a run.

- `spawn_gcc`: in the GCC build a call may fail with `errno` 0, as the clean-up's
  `_dos_freemem` stores its own success there.
- `fcbs_garbage`: `make_fcbs` reads two flags before it writes them; the second
  FCB may then be parsed from the wrong place.
- `path_drive`: the test for "only a drive letter" uses a local that has been
  moved on to the next directory, so `C:` in PATH means the root of the drive.
- `modes_ack`: in the ACK build, `_setvideomode` initializes the state first, and
  the initialization calls `_setvideomode` when the mode at start-up is one the
  library does not know. Neither returns.
- `int86_ack`: a macro of the ACK build's Borland-compatible structures loads CX
  where it should store it.

Others, seen while modelling, that no run is spent on:

- *Screen and colours.* A call that changes the window, the colour or the pixels
  under a displayed software cursor leaves it behind; `CursorShownOnce` is checked
  under `CarefulSpec`, which makes these calls with the cursor off. The ACK build's
  `normvideo.c:70` keeps the character under the cursor, where the comment above
  says its attribute. On a VGA, `_setbkcolor` with an index writes the palette
  register and with a triplet the DAC: after one index, even the value that the
  first call returned, a triplet, no longer restores the screen.
  `BackgroundGivenBack` holds until a VGA has been given an index.
- *Spawning.* A PATH directory that does not exist gives an `errno` other than
  ENOENT, which ends the search of `_spawnvpe`; `NotFoundIsTrue` is about ENOENT.
  In the GCC build without a DBCS table, an empty else-branch
  (`libi86-msdos-pathed-next.c:65`) skips the test for a separator too, so a
  directory that ends in one gets a second; `DirectoriesInOrder` is stated for a
  given table. `make_env_blk`'s branch for ISO C11 is dead, as `features.h:37` tests
  `__STDC_VERSION`; enabled, it would use a local that nothing sets
  (`spawnve.c:301`).
- *Paths.* For a network path and a caller's buffer shorter than `_MAX_PATH`, the ACK
  build's `fullpath.c:71` gives `truename` the unset local as the path and the caller's
  buffer for the result, where the path and the local are meant: should the garbage be
  a path, DOS writes a whole name past the end of the buffer, and what follows copies
  the garbage there or reports ENAMETOOLONG too late. The model has this happen
  (`Strayed`), `FpSafe` leaves these calls' buffer out and says that no others are
  like them. For buffers of two or three bytes the first
  component is stored untested (`fullpath.c:184`); `FpSafe` is about sizes from
  four up. A size that fits exactly is refused, which
  `tests/stdlib.h.2.at:3209` leaves out as a FIXME. In `makepath.c`
  a double-byte character leaves the flag for a separator as it was.
- *Console.* Nothing calls the ACK build's initialization of the handle for input,
  although the comment in `host-ack/conio/libi86-con-in-fd.s` says that it makes sure
  of one. Two constructors of one priority may each open the console, and one may
  take for its own what the other opened. If handle 1 was closed, input is redirected
  and the console is opened for input first, that gives handle 1, which then passes for
  the output: it is open for reading, and every write fails (`OutputLost`). If handle 0
  was closed, output is not the console and it is opened for output first, that gives
  handle 0, from which no key can be read (`KeysLost`). `ConsoleIsOurs` says that these
  are the only cases. `kbhit`
  answers from an unset status after an error (a FIXME there).
- *DPMI.* A look-up reads the cached selector and then its segment
  (`getsysvars.c:66-67`). If the table has moved, and a look-up by a handler stores the
  new pair between the two reads, the outer one has the old selector and finds the new
  segment, and returns the old selector (`torn`). `ProtectedMeansReal` says that this
  order, and no other, gives a wrong selector; the next look-up is right again.
  `_makefcb` keeps its block of base memory when the simulated interrupt is refused
  (`makefcb.c:140`): `ProtectedMeansReal` says that each refusal loses one block.
- *Far memory.* `_fmemmove` chooses its direction by 20-bit addresses and copies by
  segments; for a source across the wrap with A20 off, the result is not the one
  that the comment at `fmemmove.c:76-80` leads to expect. `MoveIsCopy` leaves it out.
- *lz4mi86* opens an output file without creating or truncating it: without a file of
  that name it fails, a longer old file keeps its tail behind the module
  (`AllOrNothing` is about what the program writes), and a failure removes the old file,
  even one that was not opened yet (`lz4mi86.c:101`).
- `_dos_freemem` of the GCC build sets `errno` to 0 on success, in any program.

## 7. Plan

Done, in this order: text screen with its abstract terminal, spawning, the three
parsers, line input, video mode; path utilities and the environment; console
handles and output; interrupt routines, DPMI, DOS calls, conversions, far memory,
`lz4mi86`, the palette; and the theorems above. To come:

1. **Abstract specifications**: of the console as one file that every call reads
   and writes, implemented by `ConsoleFds`; of DOS's searches as independent cursors,
   implemented by `DosCalls` over one DTA.
2. **The ACK build's assembly** in `Interrupts`, which has the GCC build's.
3. **LZ4**, should a short reference definition of its sequences make blocks of a few
   bytes worth enumerating.
