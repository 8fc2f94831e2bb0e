# Verification of cppgraphqlgen

cppgraphqlgen is a C++20 library for GraphQL services.  A generator turns a
schema into C++ base classes; the application derives from them; the library
parses a request, validates it against the schema, resolves it by calling the
application's field accessors, and keeps subscriptions that are notified of
events.  A second generator turns a client's requests into types and into
functions that write variables and read responses.  These modules model the
parts of it where order, concurrency, failure or accumulated state decide
whether it is right, and the algorithms that both ends of a connection, or two
passes over the same data, have to agree about.

## 1. The system

### Components

| Component | Code | State it keeps | Operations |
|---|---|---|---|
| Subscription registry | `Request` in `src/GraphQLService.cpp` 1869-2301 | `_subscriptions`, `_listeners`, `_nextKey`, `_subscriptionMutex` | `subscribe`, `unsubscribe`, `deliver` |
| Subscription definitions | `SubscriptionDefinitionVisitor`, 1498-1712 | root field, arguments, directives of the subscription being collected | `visit` of operations, fields, spreads, inline fragments |
| Worker queue | `await_worker_queue`, 192-248 | pending coroutine handles, shutdown flag, worker thread | construct, `await_suspend`, `resumePending`, destroy |
| Launch policies | `await_async`, `await_worker_thread`, `Awaitable.h` | none of their own | choose where a coroutine goes on |
| Request execution | `Request::resolve`, `OperationDefinitionVisitor`, 1369-1480, 1784-1867 | the operation's variables and result | select the operation, launch its fields |
| Selection of fields | `SelectionVisitor`, 883-1216 | collected values, names seen, path, directive stacks | visit fields, spreads, inline fragments |
| Resolution of an object | `Object::resolve`, 1224-1307 | the response document and errors | await the fields in order |
| Field results | `ModifiedResult`, `AwaitableScalar`, `AwaitableObject` in `GraphQLService.h` | one pending result | convert scalars, objects, nullables, lists |
| Arguments | `ModifiedArgument` in `GraphQLService.h`, `ValueVisitor` | none | require, find and convert arguments |
| Directives | `DirectiveVisitor`, 445-584 | directives of one node | collect, `shouldSkip` |
| Validation | `ValidateExecutableVisitor` in `src/Validation.cpp`, `Request::validate` | sets and maps that are reset between queries; the flag of each query; a mutex | visit a document, collect errors |
| Sorted containers | `internal/SortedMap.h` | a vector kept sorted | `find`, `emplace`, `erase`, `[]`, `at` |
| Schema | `src/Schema.cpp` | types, wrapper types, two mutexes | add types, look them up, wrap them |
| Introspection | `src/Introspection.cpp`, `src/introspection` | none | read the schema through GraphQL |
| Response values | `src/GraphQLResponse.cpp` | a typed value, maybe shared | get, set, release, emplace, find, compare |
| JSON | `src/JSONResponse.cpp` | the reader's stacks | parse and print values |
| Base64 | `src/Base64.cpp`, `internal/Base64.h` | none | encode, decode and compare ids |
| Client | `src/GraphQLClient.cpp`, `GraphQLClient.h` | none | serialize variables, parse responses and errors |
| Parser | `internal/Grammar.h`, `src/SyntaxTree.cpp` | depth guard | parse documents to a tree |
| Schema loader | `src/SchemaLoader.cpp` | lists of types, maps from names to kinds and places | read definitions, then extensions, then check |
| Service generator | `src/SchemaGenerator.cpp` | the loaded schema | write headers and sources |
| Client generator | `src/RequestLoader.cpp`, `src/ClientGenerator.cpp` | the loaded requests | visit selections, collect types, write |

### How they interact

An application shares one `Request` among its threads.  `resolve`, `subscribe`,
`unsubscribe` and `deliver` are coroutines that start on the caller's thread and
go on wherever the launch policy puts them: at once on the same thread, on a new
thread per await, or on the thread of a worker queue.  A `Request` shares with
its calls the registry (one mutex), the validator (another mutex, which
`subscribe` takes while it holds the first), and the immutable map of operation
objects.  Execution of one operation is a tree of `SelectionVisitor`s and
`Object::resolve` coroutines that share the operation's variables, fragments and
three stacks of fragment directives.  Application code is called in the middle:
field accessors, `beginSelectionSet` and `endSelectionSet`, filter callbacks
(with the registry's mutex held) and subscription callbacks (without).

The rest is data that goes from one part to the next.  A document becomes a tree,
which the validator, the visitors, `SchemaLoader` and `RequestLoader` read; an
argument goes from a client's variables, a literal or a schema's default to the
type of an accessor's parameter; a result goes from an accessor through a
response value and JSON to the client's type; and a schema goes from the loader
through generated code into a `schema::Schema`, which validation and
introspection read.

### What is hard about it, and what makes each part right

* Registry: any call may run between the awaits of another one; a call may fail
  after it changed the registry; keys are reused.  It is right if the index and
  the registrations agree whenever the mutex is free, a failed subscribe leaves
  nothing, a subscription stays until its own client asks, and an event reaches
  each subscription that is registered, listens and matches, once.
* Worker queue: a coroutine suspends while the queue shuts down, and the last
  reference to the queue is dropped by a frame that runs on its own worker.  It
  is right if each handle is resumed once, in order, on the worker, and the
  thread is joined by another one.
* Directive stacks: children push onto and pop from stacks they share with their
  parents and siblings, with `std::launch::async` from several threads.  They are
  right if a field accessor sees exactly the directives of the fragments that
  enclose its field, and if nothing that is popped was not pushed.
* Subscription definitions: one visitor finds the one root field, through
  fragments.  Right if what is registered is that field.
* Validation: one visitor object is reused for all queries of a service, by all
  of its threads.  Right if a query's errors do not depend on the queries before
  it, and if what is accepted can be executed on every object that it may meet.
* Execution: fields are launched in order and awaited in order, a mutation's
  fields serially; errors carry the path of their field.  Right if the response
  has one entry per alias, in selection order, and every error a matching entry.
* Field results: an element of a list may fail before or after others, and the
  loops that start elements and wait for them count them apart.  Right if each
  error names its element and none is lost.
* Sorted containers, schema wrappers, response values: right if they are the
  maps, unique wrappers and plain values they stand for, whoever shares them.
* Typed values: the same modifiers are peeled off by eight templates and written
  by four functions.  Right if a value arrives as it was sent.
* Parser: an ordered choice may commit to the wrong rule.  Right if a document
  gives the tree of what is written in it, or an error, and no other tree.
* Schema loader: types, extensions and interfaces may come in any order, and the
  passes look names up that later definitions bring.  Right if exactly the valid
  documents are read, whole.
* Generators: what they write is compiled later, elsewhere.  Right if types are
  defined before they are needed and once, and each call has its definition.

## 2. Plan

The order was that of the damage a mistake would do: what several clients share
comes first, then what one request runs through, then what it is built from.

1. **Subscription registry**: `Subscriptions`, with the abstract
   `SubscriptionService` it implements and proofs.
2. **Worker queue**: `WorkerQueue`, with the abstract `DedicatedWorker` it
   implements and proofs.
3. **Execution**: `Execution` for visitors, accessors and the order of results,
   against the one-pass reference `ExpectedResponse`, with proofs
   (`ExecutionProofs`, `ResponseProofs`).
4. **Validation**: `Validation` with the promise `ValidatedExecution`, composed
   with `ValidationService` (threads, with proofs) and `SubscriptionDefinition`.
5. **Containers and shared types**: `SortedMap`, which implements `KeyedMap`, and
   `SchemaTypes`, both with proofs.
6. **Data between the ends**: `TypeModifiers`, `TypedValues`, `FieldResults`,
   `ResponseValue`, `ResponseJson`, `ServiceResponse`, `Base64`.
7. **Documents and generators**: `Grammar` and `SyntaxTree`, `SchemaLoader` on
   `InputOrder` (with proofs), `BuiltSchema`, `GeneratedService`,
   `ClientRequest` and `GeneratedClient`.

All of it is done.  What would add most from here: proofs about `ResponseValue`
(the index by which a map finds its members), the composition of `Subscriptions`
with `SubscriptionDefinition`, and the selection of an operation with the defaults
of its variables.

## 3. The modules

### Subscriptions and SubscriptionService

`Subscriptions` models `Request::subscribe`, `unsubscribe` and `deliver` as
calls that run concurrently.  A call's `pc` says which section of it comes next;
each action is one section between two awaits, or between lock and unlock.
`subscriptions`, `listeners` and `nextKey` are `_subscriptions`, `_listeners`
and `_nextKey`; `lock` is the call that holds
`_subscriptionMutex` from one action to the next.  The
callbacks of the application (the resolvers behind `NotifySubscribe`,
`NotifyUnsubscribe` and `Subscription`, and the subscription callback) may return
or throw at each place where the code awaits or calls them; a subscription
callback may call `unsubscribe` itself and wait for it.  A filter for arguments
and directives is, by `FilterKinds`, either a callback, modelled by the items for
which it returns true, or a set of required items; one filter that uses a callback
for arguments and a set for directives, or the reverse, is left out.  The constant
`UnsubscribeOnce` says whether clients refrain from calling `unsubscribe` again
with a key after a call threw.

`SubscriptionService` is the promise: a set of registered subscriptions, with no
keys and no index; a subscription enters it in one step, leaves it in one step,
and an event goes to those that are registered and match at one moment: that have
nothing the callback rejects, or that have all that is required.  `Subscriptions`
implements it, for clients that filter with callbacks, under the mapping that
forgets keys, index and mutex.  With required items it does not (`deliver_filter`).

### WorkerQueue and DedicatedWorker

`WorkerQueue` models `await_worker_queue` together with what keeps it alive: the
variables of the application's threads, the parameters of calls that have not
returned, and the frames of coroutines.  The worker is at one place of
`resumePending` (`worker`), with its local batch of handles; `await_suspend` is
two actions, because it notifies after it has unlocked; the destructor is three,
run by whichever thread drops the last reference.  `ReleaseAfter` says when the
application's threads may let go of the queue: once their calls have returned to
them, or once the promises of their calls are set, which is what waiting for a
result tells them.  They cannot wait for the destruction of a frame, which comes
after that (`Return` and `Destroy` are two actions).  `DedicatedWorker` is one worker with
one queue, without locks, batches or wakeups.

### Execution and ExpectedResponse

`Execution` models a query or mutation from `Request::resolve` to its response:
a visitor for each object, named by its path, with the fragments it has entered
(`nest`), the response names it has seen, the results it awaits in order, and the
three lists of directives all visitors share.  No lock protects them, so each push
and each pop is an action: where a visitor pushes or pops one list after the other
(946-948, 1152-1153, 1168-1169), `changes` says which comes next, and visitors on
other threads may push, pop and read the lists before it does.  With the policy `sync` a visitor
runs on top of its parent; with `async`, or when an accessor returned a future
that is not ready (`Futures`), on a thread of its own.  An accessor may return a
value or null, throw, reject its await with a `schema_exception`, or be missing.
A document is given by constants; what its directives evaluate to and what its
accessors do is chosen initially, with the type and policy of the operation, from
`Cases`.  The exception for the name of an unknown fragment (1122-1132) is left
out: `findOperationDefinition` (1747) has every document validated before it is
visited, which rejects such a spread.
`ExpectedResponse` defines the same response in one pass, as GraphQL does: two
recursive functions give what is left of each node when fragments are flattened
(`Pieces`) and the result of each field (`FieldResults`).  It also states what a
document must fulfil for that (`Acyclic`, `DirectivesAgree`), which `MCExecution`
checks of the documents of the runs, and `ErrorsHavePaths`, without which only the
data is compared.
Values, arguments and messages are left out; an error is its path.

### Validation, ValidatedExecution, SubscriptionDefinition, ValidationService

`Validation` is `ValidateExecutableVisitor` as operators: a visitor is a record
with all of the class's members, and each visit takes one and returns one, so
what a visit leaves behind is there for the next.  It has every rule, in the order
of the code, with its early returns; a document is a sequence of definitions, a
value is a kind, an error its rule and a name.

`ValidatedExecution` states what validation is for, and does so over what
`Object::resolve` selects, not over what the visitor visits: for each object that
a field may return, the first field of each response name exists and has what it
needs.  `SubscriptionDefinition` adds what `addSubscription` makes of a document.
`ValidationService` is `Request::validate` by several threads: the flag of a query
is read before the mutex is taken, one visitor serves all.  It knows a visitor
only by operators that are constants; `MCValidation` gives it those of
`Validation`.

### Containers and shared types

`SortedMap` has the keys and their order, the vector, `EqualRange` and the calls;
`KeyedMap` is the map that it implements: the answers to calls are part of the
state of both.  `SchemaTypes` is `Schema::WrapType`, one action for
each section under the shared or the unique lock, with iterators that are places
in a vector and wrappers that are addresses.

### Data between the ends

* `TypeModifiers`: how the wrappers of a type become modifiers, twice, and types
  again, twice; the C++ types that both generators write for them; and the types
  of the templates, which peel them off one by one.
* `TypedValues`: a typed value's way as a variable (`ModifiedVariable`), a
  literal (`ValueVisitor`) or a default (`DefaultValueVisitor`,
  `getArgumentDefaultValue`) to `ModifiedArgument`, and as a result from
  `ModifiedResult` to the client's `ModifiedResponse`, and their copies.
* `FieldResults`: the conversions of an accessor's result with any modifiers:
  what each throws, who catches it, and the paths of errors.
* `ResponseValue`: `response::Value` with shared values, the members of a map and
  the index by which they are found.  `ResponseJson`: the writer and the reader's
  two stacks.  `ServiceResponse`: errors, written and read.
* `Base64`: the three loops that walk a Base64 text, and ids.

### Documents, loader and generators

`Grammar` has the rules as expressions over tokens; `SyntaxTree` is PEGTL's
meaning of them, with ordered choice, `must`, selectors and the depth limit.
`ParsedDocuments` says what a tree should be; `SampleDocuments` has phrases with
the trees they should give, each laid out with many, few or no blanks.

`SchemaLoader` has a phase for each pass of the constructor; `InputOrder` is
`reorderInputTypeDependencies`.  Its property `Valid` says what a valid document
is, without passes.  `SampleSchemas` has families of documents, one for each way
in which definitions refer to each other.  `BuiltSchema` is what `GetSchema` and
`RequestLoader::buildSchema` make of a loaded schema, and what introspection and
validation look up in it.

`CppFile` says what C++ asks of a file, as a sequence of declarations and
definitions with what they need declared or complete: names declared before they
are used and nothing defined twice.  `GeneratedService` and `GeneratedClient` are
the files that the generators write, in those terms, with the types of arguments,
fields and results; `ClientRequest` is `RequestLoader`'s visitor and its
collection of types.  `SampleRequests` has requests of a client.

`MCLibrary` composes the containers, data and documents in one instance: a
behaviour is about one component, which is a state machine, or applies the
operators of a module to one input, chosen initially.

## 4. The runs

| Run | Question | Bounds |
|---|---|---|
| `registry` | What is left of subscriptions that failed or were unsubscribed, do index, keys and registrations fit, when clients also repeat `unsubscribe`? | 3 subscribe, 3 unsubscribe calls: keys are reused, and used for another subscription |
| `registry_deliver` | Is a subscription registered from its subscribe to its own unsubscribe, does the registry implement the service, which an event reaches where it should, and do all calls return? | 2 subscriptions, 2 unsubscribe calls, also by callbacks, one delivery with each key and each callback over an argument and a directive |
| `queue` | Does the queue outlive its users and resume in order, are no wakeups lost, does the destructor return? | 4 calls, 2 threads, 1 or 2 awaits each |
| `execution` | Is the response right and the same in whatever order results get ready, does it arrive, what does an exception in a selection cost, are mutations serial, and do the lists of directives add up and have what is around an accessor? | 10 nodes, a fragment used twice, a future below the first field; a serial query and a mutation with 50 outcomes and conditions that exclude 4 ways or throw at 5 nodes; 7 queries with up to 3 objects on threads of their own, of which 2 throw |
| `validation` | Does a call answer as a validator of its own would, can what is accepted be executed, has a name one meaning, is a subscription registered for its field? | about 1000 documents; one thread with each of them, another with a query that leaves cycles, errors and variables |
| `library` | Does each container and conversion do what it stands for (section 3)? | below |

Three subscriptions are the fewest in which a removal between two others moves
the next key; two concurrent calls of each kind are enough for any pair of
sections to interleave, and no code compares more than two registrations at a
time.  One delivery is enough under fairness: deliveries share nothing but the
mutex, which each gives back before it calls anyone (`MutexReleased`, proved for
any number).  The document of the execution has a fragment in two selection sets,
one of them below the other, a response name that occurs twice, and a leaf, an
object and an inline fragment next to one another, so each rule of the visitor
meets each other one.

The documents of `validation` pair every two fields, arguments, values,
directives or fragments of a small schema with an interface, a union and inputs,
so that each rule is met alone and next to another.  Two rules are not met there:
"Unsupported operation type" is left to `validation_session`, and "Unexpected
value type" would need an argument whose type is not an input type.

`library` has

* 4 keys in the order of `shorter_or_less`, and every sequence of calls on a map of
  them; 2 threads, 4 addresses and 3 calls of
  `WrapType`, one more than the kinds of wrappers;
* types up to 6 wrappers; values with up to 3 modifiers and lists of 2; integers
  of 3 bits, so that both ends of their range are met; texts of up to 6 of the
  characters that matter to Base64, which is a whole group and a tail of one or
  two; ids of up to 4 bytes;
* response values with 3 members, shared twice: the first layer is the one that is
  unshared;
* results over lists of up to 3 elements, or 2 lists of 2, each of which may
  succeed, throw either way, be null or have an error inside;
* schemas of two to seven definitions in the orders that matter, both as a
  service's and as the introspection's own; phrases of each rule of the grammar,
  in three layouts and under four depth limits; strings of up to 6 tokens; and
  requests with fragments, variables, defaults, nested inputs and names that come
  twice.

The properties:

| Property | What it says |
|---|---|
| `ImplementsMap` | each call on a `sorted_map` answers like a map |
| `OneWrapperEach`, `WrapsInTheEnd` | all threads get the same wrapper of a type, and each gets one |
| `TypesAgree` | the two ways from a type to modifiers and back agree, and with the C++ types |
| `ArgumentsArrive`, `AnswersArrive` | variables, literals, defaults, copies, results, JSON and errors arrive as they were sent; errors name their elements |
| `ValuesAnswerAlike` | a response value answers and changes as what it holds, shared or not, and finds its members |
| `IdsCompareAsBytes` | the three walks over Base64 agree, and ids compare as their bytes |
| `DocumentsAreRead` | a document gives its own tree, in any layout that is accepted |
| `LoadedAsDocumented`, `LoaderEnds`, `DependenciesFirst` | the loader reads the valid documents and no others, whole; ends; and orders inputs |
| `SchemaIsShown` | the generated schema and the client's show what the document says |
| `GeneratedCodeFits` | the generated files compile, call what is defined, and pass the types that the templates convert |

### Disagreements

Each of these runs checks one sentence of a comment, a doc or a test, and TLC
shows how the code breaks it; `PROJECT.json` quotes the sentences.

* `retry_removes_other`: an unsubscribe that is repeated removes a later
  client's subscription, whose key is the same.
* `deliver_filter`: "a set of required arguments or directives which must all be
  present" (doc/subscriptions.md:151-152).  The loops at 2257 and 2280 are over
  what the subscription has and ask whether it is in the set: a subscription with
  something more is left out, and one with nothing gets the event.
* `queue_joins_itself`: a thread that waits for the results of its calls before it
  lets go of the queue, as the tests do, may leave the last reference to the frame
  of a coroutine whose promise is set.  The worker destroys it, runs the destructor
  of the queue and joins itself.  `DestructorReturns` is about other threads.
* `execution_directives`: directives that an object's visitor pushed stay on the
  stacks its parent's fields look at.
* `execution_borrowed`: an exception in the root ends the operation before the
  objects that were launched, which still refer to its data.
* `validation_session`: an operation of a type that the schema does not have
  leaves its variables in the visitor (the return at Validation.cpp:781), and the
  next query, which is valid, is refused.

Others have no run of their own.  The model has the behaviour of the code, and
the properties state what holds in spite of it, or are restricted to where they
do not meet it.

Requests and subscriptions:

* A field that is skipped hides a later field with its response name:
  `_names.emplace` (994) comes before `shouldSkip` (1029), while its comment says
  "a field we've already resolved".  No instance skips a field whose name occurs
  again.
* A field with `@skip(if: false) @include(if: false)` is resolved, because
  `shouldSkip` returns what the first directive says (567-571).  Instances have
  one of them at a time.
* A `schema_exception` that is thrown when a result is awaited is reported without
  a path (`GraphQLService.h` 1301-1309), and a missing field with its parent's:
  outcomes `rejects` and `unknown`, for which `DataIsExpected` compares the data
  alone.  An element of a list whose result throws is left out, so the elements
  after it move; `ErrorsNameElements` of `FieldResults` says so.
* A mutation's next field does not wait for a future that its predecessor returned
  and that is not ready (1833): `SerialMutation` is about accessors.
* A scalar with a selection set, if it was not validated, is refused before the
  elements of a list are started, and one error takes the list's place; objects
  without one are refused one by one and leave an empty list.
* An exception of one resolver or callback ends the loop of `deliver` (2013-2055),
  and the registrations after it get no event (`DeliverThrows`).  No property says
  that they do.
* A subscription's root field inside a fragment is registered without query and
  callback, because each selection set takes them from the visitor (1675), and a
  second root field with the first one's name passes validation but not
  `subscribe`.  `addSubscription` visits all operations of the document, and does
  not apply the defaults of variables.  `RegisteredUnderItsField` is checked over
  documents that name their field directly.

Validation:

* Of fields with one response name each is compared with the first only, and of
  equal fields the second's selection is not visited (Validation.cpp:1681), even
  where they are fields of different objects.  The service and the client's
  visitor keep the first one's selection.  `ValidatedExecutes` speaks of the first
  field of each name.
* A directive that is given no argument list is not checked for required
  arguments; the instance's `@skip` and `@include` have theirs.
* `query.validated` belongs to no service: a query that one service accepted is
  not validated by another one.

Values and ids:

* A null or missing argument of a nullable type never gets its default:
  `ModifiedArgument::find` (GraphQLService.h:792) succeeds.  The sample schema
  says `isComplete: Boolean = true` (samples/today/schema.today.graphql:88) and
  TodayMock.cpp:91 reads the empty optional.  An argument of a wrong type gets the
  default without an error.
* A default of an ID argument is always refused when it is used, since it is a
  string that is not marked as input (but see the comment at GraphQLResponse.h:257-259).
* `Value::operator==` with an ID on the left and another type on the right ends
  the program (GraphQLResponse.cpp:1198, in a noexcept function).  Maps with the
  same members in another order are different.
* A value that shares a value that shares one cannot be changed, since one layer
  is unshared; marking a shared string as JSON or input does nothing; a Scalar
  without a value cannot be copied.
* Base64 accepts missing padding, a lone `=` and `AAA==`.  "Valid Base64 always
  compares as less than non-empty invalid Base64." (Base64.h) is not so for two
  ids that are both kept as text, and over ids that are kept in different ways
  neither `<` nor `==` is transitive: `IdsAgree` compares two bytes and two texts.
* A client that reads a list where the response has none gets an empty list, and
  a nullable scalar that is null no value.  NaN and infinities are written as no
  JSON; a text with a NUL ends there (`c_str()`); positions above `int` wrap.

Documents:

* Forms of GraphQL that the grammar refuses: `interface I @d` without fields,
  `extend interface I implements J`, directives of a variable's definition and
  `VARIABLE_DEFINITION` as a location, `$ x` and `@ d` with blanks, and elements
  that touch (`a{b}c`, `@a@b`, `...F...G`, `directive @a(x: Int)on F`).
  `RefusedDocuments` pins some.  `extend schema @d {` with a blank before the brace
  is read as an operation by the grammar that allows both.  `enum E { true }` is
  accepted, since `not_at<true, false, null>` is a sequence.
* A depth limit of n allows n-1 nested sets of fields, because the set that is
  looked for after a leaf counts (test/PegtlExecutableTests.cpp:180-225 agrees).
* A string of a document keeps the letters of its escapes without their
  backslashes, and a block string its indentation and blank lines, because
  `unescaped_view` joins what its children cover in the text (SyntaxTree.cpp:126-135)
  and not what they stand for.  `DocumentsAreRead` is about strings without escapes.
* The common indent of block strings counts the first line.

Schemas and generated code:

* An extension of an unknown type is ignored.  Arguments of a field with a builtin
  type, and of directives, are neither checked nor given the kind of their type
  (SchemaLoader.cpp:258-261): an unknown type then throws in the running service
  and ends clientgen, a nullable input object has two different C++ types in the
  generated code, and a default of a schema's type ends schemagen (`LeftAlone`).
* `_inputNames` keeps its places when the inputs are put in order.  Definitions
  with one name leave two entries.  If a schema names two mutations, the accessors
  of the first are named `apply`, and the service has the last.
* An input without fields gets its constructor twice from both generators.  Two
  operations with one root type give a template two parameters of one name.
  Accessors of fields that differ in the case of their first letter, structs of
  fields and types that are joined by `_`, and names that are keywords may clash,
  as may an enum or input named `Response`, `Variables` or `Traits`.  Forward
  declarations use the GraphQL name and not the C++ one (SchemaGenerator.cpp
  276-283, ClientGenerator.cpp 259-267).
* A null default of a variable that must not be null throws in
  `collectVariables`, which is noexcept (RequestLoader.cpp:811).
* The client's response has a field of a fragment even where no object can have
  it, and keeps the first selection of a response name.  `GetRequestText` indents
  every line, also those in block strings.
* `GetSchema` keeps a static `weak_ptr` that threads read and assign without a
  lock (SchemaGenerator.cpp:2122-2148).  `__type` of an unknown name throws in
  `LookupType`, although the generated code tests for null; `getInterfaces`
  answers null for interfaces; `RequestLoader` adds no interfaces of interfaces;
  a description takes the first part of its text only.

## 5. Fairness

All of it is weak fairness of single calls or threads.  `registry_deliver`
assumes that a call that was made goes on: its thread is scheduled, the resolvers
and callbacks it runs return, and the mutex is granted once it stays free; nobody
has to make a call.  `queue` assumes that threads run, that coroutines finish
their own sections, and that a notified worker gets the mutex back; it does not
assume that anyone wakes the worker spuriously, or calls at all.
`execution` assumes that some thread that can run does; accessors return and
their futures become ready.  In `library` a thread in `WrapType` goes on, and the
loader is a loop of one thread.

## 6. What is proved

Each module with proofs has an inductive invariant that contains the properties,
or from which they follow, for every value of the constants.

`SubscriptionsProofs` proves, for any number of calls and any clients, that the
registry keeps its types, that the listener index and the registrations agree
whenever the mutex is free, that keys are fresh, that failed and unsubscribed
subscriptions are gone, and that no callback runs under the mutex.  For clients
that unsubscribe each key once it proves that a returned key stays its
subscription's, that a subscription leaves only through its own calls, and, if
they filter with callbacks, that the registry implements `SubscriptionService`.  That an unsubscribe removes only
its own subscription is not inductive alone, because keys are reused; `IndInv`
adds that no two calls hold the same key at a time, that a key is held from
`subscribe` until the unsubscribe of its client, and that `nextKey` is past every
key held.

`SomebodyGoesOn` is what `CallsReturn` rests on besides fairness: while a call is
under way, some call has what its next step needs.  The call with the mutex needs
nobody else; with the mutex free, a deliver call goes on, or the unsubscribe
call does that its callback waits for.  The invariant `CallbackInv` says that only
deliver calls are in callbacks, with something left to call back, and that what a
callback waits for has been called.

`WorkerQueueProofs` proves, for any number of threads, calls and awaits, that
the queue is not used after its destruction, and that the queue implements
`DedicatedWorker`.  Its invariant says where the handle
of each suspended coroutine is (pending or in the batch, once) and that an
unfinished `await_suspend` or coroutine implies a reference.  It also proves that no
wakeup is lost (`NoWakeupIsLost`), the safety that `CallsFinish` and
`DestructorReturns` rest on: by `WakeupInv` the worker sleeps only if there is nothing to resume and no
shutdown, or if whoever changed that has still to notify it.  From that follows
`SomebodyGoesOn`: while a coroutine exists or the destructor runs, somebody may go
on without a spurious wakeup or a new call.

`ExecutionProofs` proves, for every document, request, outcome and condition, and
for every order in which results get ready:

* each list of directives has as many entries as there are scopes that have one
  (`StacksAddUp`), so the end of a fragment never pops from an empty list
  (`PopsFindEntries`), although all visitors of the operation share the lists, push
  and pop between the pushes and pops of others, and leave entries when an
  exception ends them;
* an accessor is called at most once for a path (`CalledOnce`), its result is
  written once (`WrittenOnce`), and the document of an object has each response
  name once, with the result of its path, and all that were called
  (`CompleteDocuments`);
* nobody refers to an operation's data when it has its result (`OverWhenReady`,
  `BorrowedIsAlive`), if no condition throws or nothing is detached.
  `execution_borrowed` breaks the property where neither is so;
* the fields of a mutation run one after the other, with all that is below them
  (`MutationIsSerial`), if no accessor at the root returns a future that is not
  ready, and if no condition throws or those futures are of leaves.  `S` in the
  theorem is what the root can get to through fragments.  The code starts the next
  field in spite of such a future (section 4), and an exception in the selection
  of a field leaves the objects behind that wait for one.

Its invariant `Inv` has seven parts.  `Typed` and `Tree` say that visitors,
accessors and results form a tree along the values that each visitor awaits, and
who answers for each value: a visitor, a pending accessor, or a result.
`AwaitedOnce` and `Assembled` say that a visitor awaits each name once and that its
document is made of the first results.  `Changing` says where a visitor is that is
between two pushes or pops.  `Pushed` counts: each list has one entry for each
scope of a visitor, a selection set or a fragment, whose push is done and whose
pop is not (`Holders`).  A push adds one scope to those and a pop takes one away
(`OneFits`), so no interleaving of them matters.  Which entry is whose is not kept,
as `execution_directives` shows.  `Orphans` says that a visitor outlives one above it
only if an exception ended one of those and the next one below was on a thread of
its own.  It is needed because the end of an object, and hence of the operation,
says only that its own children are over; and the proofs of the last two points
add where visitors run (`Launched`) to show that there are no orphans.

`SomebodyMoves` is the part of `ResponseArrives` that needs no fairness: while a
visitor is unfinished, an accessor that was called has still to answer, or some visitor
can move, also after exceptions.  Visitors wait only for those below them, so the
deepest that is unfinished waits for nobody; there is a deepest one because a step
adds one level at most, so that in each state their depth has a bound (`Shallow`).

`ResponseProofs` proves that the response is the one that `ExpectedResponse`
defines, for every document, whatever `@skip` and `@include` evaluate to, whatever
accessors do, and whichever objects are resolved on threads of their own: its data
in `DataAsExpected`, all of it with the errors in their order in
`ResponseAsExpected`.  The hypotheses are where the code differs from GraphQL
(section 4), or what validation sees to:

* `Acyclic`: no fragment contains itself.  The depth that it postulates is what
  recursion goes down.
* `DirectivesAgree`: no node has `@skip(if: false)` and `@include(if: false)`; a
  field that is not found has no directive that excludes it or is malformed; and
  of the fields of one object (`Level`) that have the same response name, all are
  excluded or none.  Without the last one the theorem is false: a first field that
  is excluded takes the second one with it (994).

`ResponseIsExpected` is about operations of which no accessor is missing or rejects
its await (`ErrorsHavePaths`), whose errors have another path than their field's.

The invariant is `Answers`.  Of a visitor that is visiting it says that the
flattened selection is what is done, followed by what is left of each fragment that
is entered, from the innermost one out (`Rests`); that the names it has seen are
those of what is done and of excluded fields of the object (`Names`); and that the
values it awaits are those of the distinct fields of what is done (`Chosen`).  At
the end nothing is left, so the values are those of the whole selection.  Its
errors are those of the results it has got (`ErrorsAre`), and each result is that
of its field (`ResultIs`).

It needs two inductions, which the library's theorems cannot give because they
take an operator.  `NumberInduction`, in `ExecutionProofs`, states induction for sets
instead of operators and is proved from facts about finite sets: if a number were missing from the set,
adding one would map the numbers below it into fewer.  With it, concatenations
of sequences of sequences exist and are associative (`Flattened`,
`FlattenConcat`), and the recursive functions exist, because functions on the
nodes up to each depth do (`PiecesDefined`, `FieldsDefined`).

`ValidationServiceProofs` proves that each call answers as a validator of its own
would, and that no query with errors is marked, for any number of threads and
queries and for any visitor that is `Restored`: one that is as new when the
errors of a query are collected.  Whether `ValidateExecutableVisitor` is, is what
the run `validation` shows over its documents, and `validation_session` refutes
for a schema without mutations.

`SortedMapProofs`, with lemmas about inserting into and removing from vectors,
proves that a `sorted_map` stays sorted and implements
`KeyedMap`, for every total order.  `EqualRange` is what
`std::equal_range` promises of a sorted vector.

`SchemaTypesProofs` proves that wrappers are unique for any number of threads,
types and calls.  The invariant says that a thread that has found an iterator
shares the mutex or has it alone, so the vector has not moved.  With two more parts,
that who has a mutex is in the middle of a call (`Holders`) and that the maps are
sorted (`Ascending`), `SomebodyGoesOn` follows: while a call is under way and
there is memory for a wrapper, some call may go on.  A thread gives up its share
before it asks for the mutex alone, so no two wait for each other, and a sorted
map has a place for every type.

`InputOrderProofs` proves that the order of inputs that the loader ends with puts
each after those it holds by value, and that when the loop gives up there is a
cycle.

The proofs rest on the named assumptions of the modules: constants are distinct,
the order of keys is strict and total, and the policies of clients are among
those listed.  `ExecutionProofs` needs of a document only that its parts are
declared: it may be of any size and shape.  `ResponseProofs` needs the two
hypotheses above.

Only model-checked, and why:

* `CallsReturn`, `CallsFinish`, `DestructorReturns`, `ResponseArrives`,
  `WrapsInTheEnd` and `LoaderEnds` are liveness, which is beyond the prover, and so
  is ENABLED.  What is proved of all but the last is that their threads never all
  wait (`SomebodyGoesOn`, `SomebodyMoves`), for every value of the constants.
  These theorems spell out the conditions under which a step can be taken.  That
  somebody's going on comes to an end and that nobody is passed over is left to
  the runs.
* `ValidatedExecutes`, `NamesAreUnambiguous` and `RegisteredUnderItsField` are about
  what a visitor computes over a document; `TypesAgree`, `IdsCompareAsBytes`,
  `ArgumentsArrive`, `AnswersArrive`, `ValuesAnswerAlike`, `DocumentsAreRead`,
  `LoadedAsDocumented`, `SchemaIsShown` and `GeneratedCodeFits` about what folds and
  recursive functions compute over values, texts and definitions.  They would take
  an induction of their own for each grammar rule, visitor or template.

## 7. Not modelled

The samples and the proxy are applications, cited where they show how clients use
the library.  In what is modelled, these are left out:

* other exceptions than those of resolvers and callbacks (running out of memory),
  filters that call the service themselves, the selection of an operation by name
  and the defaults of its variables in a request that is resolved, and the data
  race on the directive stacks when objects are resolved on several threads:
  `Execution` interleaves single pushes and pops, and has no outcome for two of them
  that overlap, which is undefined;
* messages, positions and the order of words in errors; descriptions, comments and
  layout of generated files; command line options but those that change what is
  generated;
* PEGTL and rapidjson, which are external: `SyntaxTree` has the meaning of their
  combinators, and JSON text is a sequence of events;
* capacity, moves and iterators of containers, and time.
