# Sylvite in TLA+

Sylvite is a header-only C++20 library over libsodium: buffers that hold
secrets, nonces that refuse to be used twice, secret streams, dated tokens, and
one-shot functions around them. This directory holds TLA+ models of the parts
that keep state, TLC configurations that check them on small instances, and
TLAPS proofs for every value of the constants. Paths below are relative to
`src/`.

## Inventory

| component | files | state | operations | what makes it correct |
|---|---|---|---|---|
| secure buffers | `internal/base.hpp`, `internal/salloc.hpp`, `types/string.hpp`, `types/key.hpp`, `types/privatekey.hpp` | a `std::vector` over `sodium_malloc`ed memory; a String keeps a `'\0'` sentinel in it | constructors, `push_back`, `pop_back`, `resize`, `wipe`, `shrink_to_fit`, `random_generate`, moves, swap, (PrivateKey) copies | a secret is in one object; a String is terminated; `wipe()` erases the block and not only its elements |
| nonces and AEAD | `types/nonce.hpp`, `internal/noncemodify.hpp`, `symmetric/xchacha20.hpp` | content and `used_` | construct, `random_generate`, `increment`, `wipe`, moves; `encrypt` consumes | no (key, nonce) pair is sealed twice |
| secret streams | `symmetric/stream.hpp`, `types/streamheader.hpp` | libsodium's `state_`, `finalized_` | `update`, `finalize`, `pull`, moves | what is pulled is a prefix of what was pushed; complete only when it is; no state is used twice |
| Natron tokens | `symmetric/natron.hpp` | a list of references to Keys; the system clock | `encrypt`, `decrypt`, `rotate` | exact lifetimes, order of the checks, every key of the list opens |
| initialization | `init.hpp`, `internal/salloc.hpp` | the function-local static, libsodium's own flag and lock | `ensure_init`, `init`, `allocate` | success means initialized; a failure is retried; nobody hangs |
| hashes, HMAC | `hash/hash.hpp`, `hash/hmac.hpp` | libsodium state, `finalized_` in each Stream | `update`, `finalize`, moves; `digest`, `mac`, `verify` without state | a Stream returns what the one-shot function returns for all it was fed; the flag is exact; a tag fits one text and one HMAC key block |
| console, getline | `utils/console.hpp`, `types/string.hpp` | the terminal's echo flag, what the stream has read ahead | `DisableEcho`, `read_from_console`, `CinClear`, `getline` | the echo is off under a `DisableEcho` and comes back after it; what a line is depends on the characters typed only; calls return |
| Base64, Hex, packer | `utils/base64.hpp`, `utils/packer.hpp` | none | `encode`, `decode`, `pack`, `unpack` | lengths fit the buffers; decode inverts encode and takes nothing else; parts come back as packed |
| boxes | `symmetric/xchacha20box.hpp`, `symmetric/xsalsa20box.hpp` | none; they read a Key | `encrypt`, `decrypt` | what is sealed opens under Keys made in the same way and no other |
| public key | `asymmetric/box.hpp`, `asymmetric/keypair.hpp`, `types/publickey.hpp`, `utils/topk.hpp` | none; PublicKey and PrivateKey objects of any size, whose algorithm is nowhere recorded | generate, `Box`, `SealedBox`, `sign`, `verify`, `FromSkToPk`, `resize` | a message opens for whoever has the addressee's key, and only for them |
| KEM | `pq/kem.hpp` | none; a KeyPair | generate, encapsulate, decapsulate, resize | both ends have one secret; an altered capsule or another key leads to a secret nobody shares |
| key derivation | `kdf/argon2id.hpp`, `kdf/hkdf.hpp`, `types/salt.hpp` | none; a Key, a Salt | derive | sizes the boxes take; different inputs, different keys |
| declarations | `exceptions/exceptions.hpp`, `concepts.hpp`, `frsdef.hpp`, `utils/utils.hpp`, `sylvite.hpp`, `types/ciphertext.hpp` | none | none | none |

How they meet: every object that holds a secret allocates through `s_alloc`,
which calls `sodium_init` itself, past `ensure_init`. `encrypt` of XChaCha20
is the only function that reads a nonce's `used_`; it sets it through
`NonceModify`, and so do the boxes for nonces of their own. PublicKey and
PrivateKey serve all four algorithms: the size is the only thing that tells keys
apart, and only the KEM functions and the boxes look at it. What `encapsulate`,
`decapsulate` and the derivations return is the Key the boxes and streams take. Streams take a Key by reference at construction and keep
nothing of it but libsodium's state. `NatronMultiKey` keeps references to Keys
that the program goes on moving, wiping and filling. Exceptions are the only
callbacks of sorts: which of them a `catch` swallows decides whether the next
key is tried.

Nothing in the library runs concurrently by itself; threads matter in
initialization only. What is hard to test elsewhere is the sequence: moves that
leave usable or half-usable objects behind, memory that runs out between two
steps of a member, checks made once about objects that change later, and a
channel or a clock that does what it likes. `PROJECT.json` lists each of these
hazards at its line with the properties aimed at it.

## Modules

**`SecureBuffer`** models a buffer as its block of cells: `cap`, `size`, `mem`.
The variable `kind`, chosen at the start, is the class the objects belong to:
String (with the sentinel), Key or PrivateKey (with copies and `resize`). A cell
is zero, the allocator's filler, or an element of a secret; secrets are told
apart and their elements are not. Growth picks any larger capacity, since the
standard library does not say which. `PushBackThrows` is a `push_back` whose
allocation fails. `AdoptString` and `Adopt` take over any vector of the caller's, of any
capacity and with anything in its slack. `past` remembers what befell the present block
of a String: `torn`, a `push_back` threw on it; `stained`, its vector came with a
secret in its slack. A new block, a move away or the destructor clears it. What
`deallocate` releases is overwritten by `sodium_free` and not modelled further. Every
secret written comes from outside (`Writable`: not one already held by another
object), or from the generator. `Store` is what a caller writes through `at`,
`operator[]`, `data` or a span, below the sentinel.

**`NonceUse`** models a nonce's content as the draw it came from and how often
it was incremented, and counts as `sealed` every pair a ciphertext was made
under. Lazy nonces (`LazyNonces`) and eager ones live side by side. `cause` remembers,
for each base, what first took the flag's guard from it, and there are six such
things: `Nonce(n)` or a wipe gave out zero bytes when an object had had them before
(`constructed`, `wiped`), a span of a nonce that was sealed under was given back (`copied`), the
caller changed the bytes (`edited`), the counter came round (`wrapped`), and
`random_generate(n)` threw on a used object (`thrown`). Nothing is spoiled in the initial
state: the zero bytes of the first `Nonce(n)` are as good as a draw, and only a second
object with zero bytes makes them dangerous. `ReuseExplained` says that no second
ciphertext comes about in a seventh way, and which of the six it was stays visible.
Two of them, `constructed` and `thrown`, are against what the comments of the code say: see
below. `BoxEncrypt` is a box that draws its own nonce under the key the program uses.

**`StreamDelivery`** is the abstract promise of a stream, **`SecretStream`** the
classes. libsodium's state is the key, the header and the chunks so far, and a
chunk authenticates under exactly the state it was pushed in. `wire` is the
set of chunks ever made: any of them may arrive, at any time, any number of
times, or never. A Decryptor has a `session` that moves along with it, so that
what one logical receiver was handed is one sequence. `TouchMovedFrom` says
whether the program uses objects after moving from them; C++ lets it, and the
class does not notice.

**`Natron`** models tokens as records, opening them as operators that return
what the call returns or throws, and the clock, the Keys and the lists as
state. `std::uint64_t` has `Width` values, so conversions and differences wrap. A token
may be altered once on its way: in its stamp (`Restamp`), which the MAC does not cover, or
in its nonce, MAC or ciphertext, which it does. `Intact` are the tokens of the first sort
and those nobody altered: all the MAC speaks for.

**`InitOnce`** has one program counter per thread: the function-local static
(its guard, and the retry after an exception that C++ prescribes), libsodium's
lock, and the call from `allocate` that goes around the static.

**`HashStream`** holds the seven Stream classes of `hash.hpp` and `hmac.hpp` in
one protocol; `class` says which namespace the objects are from, and the records
`Blake2b`, `Sha256`, ... say which sizes it takes. libsodium's state is `Open`
(parameters and bytes so far) until the final call pads it; a digest is the
namespace, the parameters and the bytes it stands for. HMAC sees a key as a block, short
keys filled up with zeros and long ones hashed first (`Effective`), so two keys may be
one: a key is a seed, how many of its bytes come from it and its length, and the hash of a
long key is a key too. `verify` is given every tag there could be: of any text, key, size
(a digest cut short or with bytes behind it) and namespace. A move copies everything and
the source goes on. `Finalize` may throw where it allocates.

**`Console`** knows a character by its position in what was typed, so that
losing, repeating or reordering one shows. `source` is a terminal (which hands
over whole lines and has an echo), a Windows console (the same, but restoring its
mode discards nothing), a pipe, or a buffered stream such as a string
stream. The calls are sequences of steps with the user typing in between.
`DisableEcho` objects nest, those of the program and the one in
`read_from_console`. Changing the mode may fail, and so may restoring it, which nobody
notices; `stranded` remembers that a failed restore was the last hope. `queue` is what
there was to read for the call in progress, and `LineExact` and `ClearExact` say which
of it the call takes, stores and leaves, as a function of those characters alone: how
they were typed, read ahead or split makes no difference. They say what the code
does, which is not all that its comments say (below).

**`Codec`** computes: Base64 digits and bytes, the sizes of buffers, the leading
characters a decoder takes, hex, and the offsets of `Packer`. Around them parts
are packed, encoded, altered and decoded, by a reader who may expect
another variant. What libsodium's four functions compute is marked external in
the map.

**`KeyExchange`** has holders with a PublicKey, a PrivateKey and a Key each. A buffer
is its size, how many of its leading bytes are still of the key that was written into
it, and which key that is; a key is known by the algorithm and the draw it comes from.
`Resized` is both `resize` and what a function of libsodium that reads so many bytes
gets to see, so a key that is cut, wiped, padded with zeros or of another algorithm
goes through the calls as it does in the code. libsodium's functions are `PublicOf`,
`DH` and `Recovers`. `Decapsulated` has the outcome of both KEMs for an altered
capsule: a secret made of the capsule and the private key. `wire` is the set of what was made; anybody
may try anything on it. `origin`, `held` and `spoilt` are history: what a Key
was made from, whose private keys a holder ever had bytes of, and which pairs lost
a private key on the way. Reading past the end of a block is no step.

The `MC*` modules give constants values and symmetry. `*Proofs` hold theorems.

## Runs

Bounds are small because the behaviours are local: two objects are enough for
every move and aliasing, four cells for growth, slack and sentinel together.

| run | shows | instance |
|---|---|---|
| `secure_buffer` | one holder per secret (String, Key); a String is terminated unless torn, and wiped whole unless torn or stained | all three classes, 2 objects, 2 secrets, blocks up to 4 |
| `nonce_use` | reuse has one of six named causes; the flag is truthful; draws are not shared | 1 lazy and 2 eager nonces, 1 key, 1 draw beside the zero bytes (so two bases to mix up), sizes 0 and 1, a counter of 2 values so that it wraps |
| `stream_delivery` | no state used twice; prefix; completeness; refinement of `StreamDelivery`; a receiver reaches the end of a finalized stream | 2 Encryptors, 2 Decryptors, 2 keys and headers (so one of each is wrong for a reader), streams of 2 chunks with one content (chunks differ by their place) |
| `natron` | exact lifetime; expired only after the MAC was verified; every key opens; rotation renews | 2 keys, lists of 1 and 2, clock up to 3 in a word of 6 values, skew 1, 2 tokens |
| `init_once` | success means ready; one initializer; calls return | 3 threads, 2 calls each, 2 failures |
| `hash_stream` | a Stream agrees with the one-shot function; the flag is exact; `verify` is exact | all seven namespaces, 2 Streams, 2 bytes of 2 values, keys of 0, 8, 32 and 65 bytes (none, padded, whole, hashed by HMAC-SHA-256 and not by HMAC-SHA-512), outputs and tags of 15, 32, 64 and 65 |
| `console` | the echo is off when it must be and restored; a line, and what `CinClear` takes, is exactly what the characters say; calls return | terminal, Windows console, pipe and buffered stream, 3 characters, 2 nested objects and the call's own, letters `a` and `b`, growth after 1 character, delimiters `'\n'` and a letter |
| `key_exchange` | only those who had a key open what was sent to it, and they do | 2 holders, 4 algorithms, 3 draws, 2 messages, 2 handling steps (moves, copies, cuts, wipes, derivations), 5 steps of work in all |
| `codec` | round trip; one text per value | bytes 0 and 251, 3 to 5 bytes in three parts (so every remainder modulo 3), one alteration, all readers |

Deadlock is checked for buffers, nonces, hashes and Natron. The streams may stop
when headers, sessions and chunks are used up, the threads of `InitOnce` when
they have made their calls, `Console` when the program has terminated for want of
memory, `Codec` when the text has been read, `KeyExchange` when its bounds are
reached: `CHECK_DEADLOCK FALSE` there.

In `key_exchange` generating, sending and handling share `MaxWork`, and a second
handling step counts twice: the cases of interest (a pair, a message to it, and then
what happens to the keys; a capsule, a box under its secret, and the other end;
a key of one algorithm handed to another) take five. Attempts to open, which
change nothing, are quantified in the properties and cost no step.

Fairness. `stream_delivery` assumes that a receiver keeps pulling and that a
chunk it needs is brought again in the end: the channel's half is an assumption
about the program around the library, without which no stream ends. It does not
assume that moves or destruction happen or do not happen. `init_once` assumes
weak fairness of each thread's own step, which is what a scheduler gives; no
fairness is needed for calling. Calls are bounded, so that a thread waiting for
libsodium's lock cannot be overtaken for ever; with unbounded callers weak
fairness would not be enough. `console` assumes that a call in progress goes on
when it can, and that whoever is at the other end types or closes
at last: a call may wait for ever for a user who does neither.

### Where the code and its comments disagree

Each of these is a run that must fail; the quoted lines are in `PROJECT.json`.

| run | the code | the comment |
|---|---|---|
| `nonce_ready` | `Nonce(n)` leaves `n` zero bytes (`types/nonce.hpp:153`), and two objects made by it seal under the same nonce | `types/nonce.hpp:51` and `:141-142`: filled with random data, ready to use |
| `natron_stamp` | the stamp is read from bytes no MAC covers (`symmetric/natron.hpp:270`), and a token with another stamp opens | `symmetric/natron.hpp:25-26` and `:31`: the MAC authenticates the timestamp and the version |
| `natron_ttl` | a negative lifetime accepts every token (`symmetric/natron.hpp:432`) | `symmetric/natron.hpp:390-391`: a token older than the lifetime is refused |

In `nonce_ready` the trace is four steps long: two constructors, two encryptions under
one key. In `natron_stamp` it is a key, a token and its new stamp; a
program that asks for a lifetime is then told the replaced one's age.

Two more disagreements are exemptions, by name, of properties that the passing runs check:

- A `push_back` whose allocation fails leaves a String without its terminator, since the
  sentinel is overwritten first (`internal/base.hpp:252-253`), where
  `types/string.hpp:71` has it "Always null-terminated". In `TerminatedUnlessTorn` and
  `WipeErases` that is `torn`.
- `random_generate(n)` clears `used_` before the `resize` that may throw
  (`types/nonce.hpp:185-186`); a nonce that has been used then counts as unused with its
  old content, where `:122-123` promise a flag against accidental reuse. In
  `ReuseExplained` that is the cause `thrown`.

- Buffers. `wipe()` of a byte buffer leaves what `pop_back` cut off in the slack
  and does not empty the vector, where `internal/base.hpp:290` says that it does.
  `String(vector&&)` looks at its argument after
  moving from it and always appends a terminator, also to a vector that has one
  (`types/string.hpp:113`), which makes the String one character longer. It takes the
  vector's slack as it is: when the caller had shortened the vector, `wipe()` does not reach
  what was cut off. PrivateKey can be copied.
  `size()` of a moved-from String wraps, after which `at()` accepts every index.
- Nonces. `encrypt` does not look at the key's size.
- Streams. A moved-from Encryptor or Decryptor still works (with
  `TouchMovedFrom` TRUE), where the comment at `symmetric/stream.hpp:118-120`
  has it otherwise.
- Natron. The URL-safe alphabet is not accepted,
  and malformed Base64 is another exception than a malformed token. A Key moved
  from after the list was made is still read.
- `init()` never returns 1, where `init.hpp:71-75` says that it may.
- Console. The prompt is shown before the echo is off
  (`utils/console.hpp:160` and `:176-179`), so an early answer may be seen.
  `read_from_console` is `noexcept` and allocates: without memory the program
  terminates, perhaps with the echo still off. Restoring the mode discards
  what was typed ahead. A CRLF on a pipe is a line and an empty line. `getline` skips
  a leading newline whatever its delimiter, where `types/string.hpp:169` says that it does
  so if the delimiter is one, and a leading `'\r'` on a buffered
  stream takes the rest of the line with it, when no `'\n'` follows at once. Nobody looks at
  what `tcsetattr` (`utils/console.hpp:134`) and `SetConsoleMode` (`:127`) return when the
  mode is restored: the echo may stay off, though `:57-59` has it restored
  automatically. `EchoRestored` is about the other cases, an object around the failed one
  that puts its own saved mode back among them.
- Hashes. `Blake2b::Stream` takes keys of 1 to 15 bytes that `digest` refuses,
  and the HMAC Streams keys of any length. `verify` looks at the tag's size
  first, so a tag and a key of wrong sizes give false and not an exception.
- Keys. PublicKey and PrivateKey can be copied
  (`types/publickey.hpp:53` and `types/privatekey.hpp:66` say non-copyable) and resized
  by anyone. `Box`, `SealedBox`, `sign`, `verify` and `FromSkToPk` look at no size:
  a longer key of another algorithm is taken by its leading bytes, where
  `types/privatekey.hpp:16-18` says that the wrong size makes operations fail, and a
  shorter one is read past its end. `FromSkToPk::sign` of a wiped key returns a
  zero public key. A PrivateKey of 32 bytes from `crypto_generate_keypair` passes
  the size check of X-Wing. PublicKey has no constructor from a span for X-Wing's size.
- KEM. `pq/kem.hpp:217` says that decapsulation fails for an altered capsule; both
  KEMs may return a secret instead, which is another one. X-Wing's sizes in the comments
  (`:130`, `:159`, `:205-206`) are not those of the constants. `XWing::decapsulate`
  returns by default a vector outside secure memory, where `:203` says `s_alloc`.
- Boxes and derivation. A wiped Key keeps its size, so the boxes seal under zero. A
  subkey of a size other than 32 and a longer Argon2id key are refused by the boxes.
- Console on Windows. The FOCUS_EVENT at `utils/console.hpp:127-132` does not discard
  what was typed ahead, where `:65-66` says that it does.
- Base64. A text may decode in a variant it was not written in
  (`utils/base64.hpp:117-119` has it as an error): the variants differ only where
  the two last digits or padding occur.

## Proofs

Assumptions are the named `ASSUME`s of each module and nothing else. There is no
liveness among the theorems, which is out of TLAPS's reach here.

- `SecureBufferProofs`: `TypeCorrect` first. `MoveOnlySingleHolder` is inductive with
  types for the kinds without copies, because what a caller hands in is no
  other object's (`Writable`). The two String theorems share one invariant: cells above
  `size` hold no secret, unless the block is torn or stained (`Clean`), and the last element
  is `'\0'`, unless it is torn (`Ended`). A clean slack alone is not
  inductive: `pop_back` of an unterminated String makes a terminated one with
  dirty slack, and the slack's cleanness depends on the cell that
  `pop_back` gives up being the terminator. A caller's `Store` preserves both because it
  stays below the sentinel. `StringWipeErases` is an action
  property proved from the same invariant.
  The module also proves `InitOnce`, whose threads the allocator of every buffer
  is one of (hence the names `InitSpec`, `InitTypeOK` there): whoever is in the
  initializer holds the guard, whoever passed `sodium_init` saw `ready`, and
  `guard = "done"` implies `ready`.
- `NonceUseProofs`: the four properties follow from one invariant: every base in sight
  was given out (`Origin`); an unspoiled one is in one object at most; and every
  sealed content of that base is behind the object's counter, or equal to it with the flag
  set (`Behind`). Draws are fresh, so a new content disturbs nothing; zero bytes are given
  out unspoiled once, and the second time they are spoiled before anybody can seal.
- `HashStreamProofs`: each Stream is dead; or open, with exactly the bytes of its
  log under the parameters it was given, unfinished and unanswered; or padded,
  finalized, and answered with the digest of its log. A move preserves this only
  because state, flag, parameters and answer go together. The first two properties
  follow by unfolding; `TagsExact` needs that two keys of which one has 32 bytes have one
  HMAC block exactly when they are twins: the same seed and the same zeros
  behind it, or the one the hash of the other.
- `CodecProofs`: arithmetic first: digits of n bytes, bytes of k digits, the room
  a decoder allocates; then that the three byte positions of a group come back
  from its digits, that the unused bits of the last digit are zero, and that the
  leading run of an encoded text ends where its padding begins. From these
  `DecodeInvertsEncode`, for all four variants and hex and byte sequences of
  every length. `UnpackInvertsPack` is about concatenation and offsets.
  `RoundTripHolds` joins them with the invariant that a text nobody altered is
  what was encoded. The other direction, `EncodeInvertsDecode`, is about texts that
  decode takes: the digits of a group come back from its bytes, the last of them
  because decode looks at its unused bits (`CleanEnd`), and what follows the leading
  run is exactly the padding that encode writes for so many digits.
  `OneTextEach` and `CodecTypes` need the invariant `Readable` besides: whatever is
  done to a text, it is one.
- `SecretStreamProofs`: `StreamTypeCorrect` holds of all programs. The others
  have the hypothesis `~TouchMovedFrom`: with it FALSE they are false, since a
  moved-from Encryptor goes on pushing. The invariant: one usable Encryptor
  for each header, whose state holds what was pushed with that header
  (`OneWriter`); headers that nobody drew are unused (`Unused`); a chunk on the wire was
  pushed in a prefix of its stream (`OnWire`); one usable Decryptor for each
  session, whose state holds what the session got (`OneReader`), and a
  session that nobody opened got nothing (`Unopened`). Then a chunk that
  authenticates is the next one, whatever the channel did to it, which gives
  the four theorems; the refinement maps `Update` to `Write`, `Finalize` to `Close`,
  a new Decryptor to `Attach`, an accepted chunk to `Deliver`, and everything else to a
  stutter.
- `NatronProofs`: `TypeOK` is inductive by itself. `LifetimeComputed` shows that
  neither the difference of two times nor the conversion of a lifetime wraps when they
  are where the types say. `MultiDecrypt` stops at the first key whose answer is not
  InvalidSignature; that there is a first one, in a list of any length, is
  well-foundedness of `<` on a set of positions.
- `ConsoleProofs`: one invariant of six parts. `Shape` are the types. `Stacked`: each
  object saved what the objects below it left of the echo at the start, or of none once
  that is stranded, and the echo is what the topmost left; a restore that fails keeps this
  when an object below it did change the mode. `Scoped`: how many objects there are at each
  point of a call. `Ordered`: positions ascend. `Suffix`: what waits is the end of
  `queue`. `InLine`: what the call has made of the beginning, at each point of it.
  `LineIsExact` and `ClearIsExact` are the last two at a call's end.
- `KeyExchangeProofs`: the invariant is about two things that the state does not keep,
  so it says that they exist. The first is `owner`, which algorithm each pair was
  generated for (`Known`): every buffer of a private key, in a holder's hands or in a
  message, is of one pair and of its owner's algorithm (`IsSecret`); every public key is
  the public half of bytes its algorithm takes (`IsPublic`); a holder has seen every
  pair whose bytes are in its private key (`Seen`); a pair that is not spoilt is
  whole in somebody's hands (`Survives`). The second is the book of derivations
  (`Kept`), with an entry for each key that exists or was the master of one that
  does: `SameMade` shows that two justified entries with one key have one origin and
  the reverse, because a draw makes one capsule and a master key is itself in
  the book, which is what spares an induction over the depth of derivations.
  `RecoverLemma` is where the two meet: a decapsulation returns the capsule's
  secret exactly when the private key is the pair's. `KeyTypes` needs besides
  (`Counted`) that every step pays for what it adds.

Only model-checked: `NeverStuck`, `EveryCallReturns`, `CallReturns` (liveness,
which TLAPS 1.4.5 does not do). Every safety property that a passing run checks is a
theorem.

## Plan

Done: the modules above, and the proofs of every safety property that the passing
runs check. What could follow: Salts as objects of their own beside
`DeriveFromPassword`, and a refinement of a channel's promise by boxes, as
`StreamDelivery` is one for streams.

Not modelled, and not planned: libsodium's arithmetic, timing, the memory
protection of `sodium_malloc` and reads past a block's end, the members of Salt
that change it (the derivation is given any salt), texts of boxes altered or
shortened on their way (refused by their size or MAC, as in `Natron` and
`SecretStream`), shortened signatures (`verify` looks at no size, `asymmetric/box.hpp:455-463`, and
reads past their end), comparisons (`operator==`), hex digests, screen clearing, and the
headers that only declare. `CipherText` is a vector with constructors.
