# TLA+ models of the raw backend attribute store (maro)

These modules model the in-memory columnar state store of the repository
(`src/maro/backends/raw/`). TLC checks them. Every action is translated from
the C++ source where the source is under `src/`. Code whose body is not under
`src/` (the `attributestore.h`, `attribute.h`, `node.*` and `frame.cpp` parts)
is modelled from `spec.md` and marked `spec_modelled` in `PROJECT.json`.

## 1. Inventory

| Component | Source | State | Operations |
|---|---|---|---|
| Compound key codec | `attributestore.cpp:10-15` | none (pure) | `attr_index_key(node_id, node_index, attr_id, slot)` ORs the four 16-bit fields into a ULONG |
| Attribute cell | `attribute.h` (not under src/) | a tagged scalar | assignment sets type and value |
| Attribute store | `attributestore.cpp` | `_attributes` (cells), `_slot_masks` (occupancy), `_mapping` (key to dense index), `_last_index` (high-water mark), `_is_dirty` | `setup`, `add_nodes`, `remove_node`, `remove_attr_slots`, `arrange`, `copy_to`, `operator()`, `reset` (in the header), `capacity`, `size`, `last_index` |
| Node (entity table) | `node.h` (not under src/) | attribute schema, instance count, one store | declare attribute, grow instances, read/write, list append/clear/resize, reset |
| Frame | `frame.h` (declarations only) | `_nodes`, `_is_setup` | `add_node`, `add_attr`, `setup`, `append_node`, `get_value`/`set_value`, list ops, `reset`, copy constructor/assignment (snapshot) |
| Binary writer | `data_lib/binary/cpp/binarywriter.h` | file, header, meta, buffer | CSV to binary conversion; out of scope (pure I/O) |

How they interact. Frame owns one Node per node type. Each Node owns one
AttributeStore and calls into it:

- `add_nodes` for initial and appended instances and for list growth;
- `remove_attr_slots` for list shrinking;
- `operator()` for every value access;
- `copy_to` for snapshots.

The store keys its map with `attr_index_key`. Everything is single-threaded
and synchronous (spec section 5). There are no messages, callbacks or
concurrency. What makes the code hard is long legal call sequences:

- lazy compaction (`arrange`) that relocates cells;
- a high-water mark trimmed from two places (`update_last_index` and inside `arrange`);
- growth decided after a batch has handed out indices;
- cells that are never cleared;
- references returned into a vector that can reallocate.

Properties that make each component correct:

- **Key codec:** in-range components never alias.
- **Store:**
  - every dereferenced index is in bounds;
  - live keys ≤ mark ≤ capacity (P1);
  - no occupied slot above the mark;
  - compaction moves cells without losing or resurrecting any;
  - the value read for each live key changes only as add/remove/write/reset allow (refinement of a key/value store; P3, P4);
  - `copy_to` exports exactly `size()` cells with a map onto them (P5);
  - capacity never shrinks (P6).
- **Frame/Node:**
  - the phase discipline (declare, then setup, then runtime);
  - instance counts only grow, and reset returns them to the declared ones;
  - the values read through the Frame change only as its operations allow (refinement);
  - a snapshot is independent of later mutation (a member-wise copy; not checked, see section 5).

## 2. Modules

- `KeyCodec.tla` models `attr_index_key` with the community `Bitwise` OR and
  a wrapping shift, at a scaled width: `FieldBits = 2` stands for 16 and
  `WordBits = 8` for 64. TLC integers cannot hold 64-bit keys. The single
  variable `comp` ranges over every in-range tuple. `PackInjective` checks
  that decoding each field of the key gives the tuple back.
- `AttributeStoreOps.tla` holds the store's methods as functions from one
  store record `[attributes, slot_masks, mapping, last_index, is_dirty]` to
  the next. It has no variables. `attributes` and `slot_masks` are functions
  on `0..capacity-1` and model the two vectors, with `std::vector::resize`
  as `Resize`. `mapping` is a function on the mapped keys. Keys are the
  4-tuples that `attr_index_key` packs; KeyCodec justifies this. The methods:
  - `setup(s, size)`;
  - `add_nodes(s, n, num, a, sn)`: indices in loop order, growth to twice the mark after the batch (`grow_size`), then the masks;
  - `remove_node` and `remove_attr_slots`, which share `RemoveKeys` and end with `update_last_index`;
  - `arrange`, a recursive translation of its loop: `ArrangeFrom`/`FillHole`/`FindLast`, with the loop bound re-read each iteration;
  - `copy_to`, which arranges, with `Exported` the copied buffer;
  - `set_attr`, which is `operator()` plus assignment through the reference, and `Read`, the value `operator()` gives for each key;
  - `reset`.
- `AttributeStore.tla` drives one store with them. Its variables are the
  record's five fields, and each method is one action (`Setup`, `AddNodes`,
  `RemoveNode`, `RemoveAttrSlots`, `Arrange`, `CopyTo`, `SetAttr`, `Reset`)
  that `Becomes` the method's result.
  - **Inputs.** Every action takes its inputs from small sets with `\E`.
  - **Setup guard.** `Setup` is guarded by an empty store. Callers call it
    before any `add_nodes` or after `reset` (test comment line 345).
- `AttributeStoreAbstract.tla` is the key/value store the spec promises:
  - `AddSlots(batch)` keeps every mapped key's value and gives new keys an unspecified value;
  - `RemoveSlots(batch)` unmaps the batch;
  - `Write(k, v)` changes exactly one live key;
  - `Reset` unmaps everything;
  - compaction and export are stuttering steps.

  `AttributeStore` instantiates it with `store <- Read(st)`.
- `MCAttributeStore.tla` gives TLC its constants, and `NoResetSpec`, the
  store driven without `reset()` (whose body is not under `src/`).
- `StoreExport.tla` extends `AttributeStore` with a caller that keeps one
  destination map (`dest_map`) and passes it to every `copy_to`.
  - **`Export`.** This is `CopyTo` plus the mapping loop of lines 176-181,
    modelled as `CopyMapping`: it overwrites or adds entries and erases none.
  - **Left out.** The exported cells, because no property here reads them.
  - `MCStoreExport.tla` gives it the store's constants.
- `Frame.tla` models `frame.h`:
  - **Variables.** `nodes` is `_nodes`, a sequence of Node records. A Node
    record holds the declared and current instance count, the attribute
    schema (declared and current `slot_number`, `is_list`) and the Node's
    store record. `is_setup` is `_is_setup`.
  - **Actions.** One action per method: `add_node`, `add_attr`, `setup`,
    `append_node`, `set_value`, `append_to_list`, `clear_list`,
    `resize_list` and `reset`. Each action's guards are the header's
    exceptions: `FrameAlreadySetupError` before setup, `FrameNotSetupError`
    and `FrameBadNodeType` after it, and the store's `BadAttributeIndexing`
    for an unmapped key.
  - **Method bodies.** `frame.h` only declares the methods, and `node.*` and
    `frame.cpp` are not under `src/`. So the method bodies follow spec
    4.3-4.4, and every Frame action is marked `spec_modelled` in the map.
    Only the store functions they call are translated from code. Each body is the composition of the
    store calls it makes, in one step:
    - `setup` is store `setup` for the footprint, then `add_nodes` for every attribute (`AddAttrSlots`);
    - `append_node` is `add_nodes` over the grown instance range;
    - `append_to_list` is `add_nodes` with one more slot, then the write;
    - `clear_list`/`resize_list` is `remove_attr_slots` or `add_nodes` over a slot range of every instance;
    - `reset` is store `reset` plus the initial `add_nodes`.
  - **Store calls.** The store methods come from `Store == INSTANCE AttributeStoreOps`.
- `FrameAbstract.tla` is what the Frame promises: a key/value map, empty
  while declaring. After `setup` each step either adds keys and keeps every
  value, removes keys and keeps the rest, writes one live key, or returns to
  the declared footprint. The value a new key starts with is left open.
  `Frame` maps to it with the union of its nodes' `Read` views, the declared
  footprint and `is_setup`.
- `MCFrame.tla` gives TLC its constants.

## 3. Runs

| Run | Expect | What it shows |
|---|---|---|
| `store_safety` (`MCAttributeStore.cfg`) | pass | `InBounds`, `SizeBelowMark`, `MarkCoversOccupied` and `TypeOK` hold over every call sequence in the bounds, including the aliasing states the refinement run exposes. The action property `CompactionKeepsCells` holds: `arrange` (alone or in `copy_to`) keeps the multiset of occupied cell values. It depends on lines 51-52 running in that order, which matters when the hole is the last slot, and on the mark having been trimmed to an occupied slot by earlier removes |
| `store_refinement` | violation | `AbstractSpec`: `arrange()` never updates `_mapping` (line 49). The sequence is: add 2 nodes, remove node 0, arrange, add node 0 again (it gets index 1, still held by node 1), write. The write changes both keys |
| `store_export` | violation | `ExportComplete` (P5): remove the only key and the mark stays 1 (line 21), so `copy_to` copies one cell into a `size() == 0` buffer. The stale map of line 49 also exports indices past the buffer |
| `store_capacity` | violation | `CapacityNeverShrinks` (P6): `setup()` resizes down on an empty store that already has capacity (line 36) |
| `store_fresh_slots` (`MCAttributeStore_fresh.cfg`) | violation | `FreshSlotsZero` (test comment line 257), checked on `NoResetSpec`, so no `reset` is involved. The trace: `setup(2)`, add two nodes, write node 1, `remove_attr_slots` over both nodes (`update_last_index` trims the mark to 1, line 21), add one node. The new key gets index 1 (line 104) and reads node 1's old value |
| `frame_safety` (`MCFrame.cfg`) | pass | The refinement `AbstractSpec` (of `FrameAbstract`) holds through Frame's operations, across list shrink/grow, `append_node` after list growth, and `reset`. The Frame bodies come from the spec; the store calls they compose come from the code. `FrameAbstract`'s `Reset` leaves the values of re-created keys open, so stale cells after `reset` are not checked here. The store's stale-map aliasing is not reachable through the Frame API: nothing in `frame.h` calls `arrange` on a live frame (`copy_to` is non-const), so `add_nodes` only appends past holes. 77,115 states in under a minute |
| `store_export_map` (`MCStoreExport.cfg`) | violation | `ExportedKeysLive` (P5, for the map): the trace is add a key, `copy_to`, remove the key, `copy_to`. The caller's map still holds the removed key, because `copy_to` never clears it (line 178) |
| `key_codec` | pass | `PackInjective` on all 256 tuples at the scaled width |

Every property of a passing run has a mutant in `PROJECT.json`. Each mutant
is a plausible bug in the code:

- `grow_size_off_by_one` (growth test `> capacity + 1`) breaks `InBounds`;
- `RemoveKeys_keep_map` (missing `_mapping.erase`) breaks `SizeBelowMark`;
- `FindLast_no_break` (missing break in arrange's inner loop) breaks `MarkCoversOccupied`;
- `Resize_uninit` (resize without value-initialisation) breaks `TypeOK`, in both the store and the frame run;
- `FillHole_swapped` (lines 51 and 52 swapped) breaks `CompactionKeepsCells`: in an emptied store whose mark stopped at 1, the dead cell 0 becomes occupied;
- `add_nodes_from_size` (new keys numbered from `size()` instead of `_last_index`) breaks Frame's `AbstractSpec`: after a list shrink leaves a hole, a new key lands on a live cell;
- `attr_index_key_short_shift` (node index shifted by 16 instead of 32) breaks `PackInjective`.

### Bounds and why they are enough

The bounds are:

- one node type and one attribute;
- node instances `0..1` and slots `0..1`, so four keys;
- one written value `v1` besides `Zero`;
- setup hints `{0, 2}`;
- `BITS_PER_MASK = 1`, the value under which the spec's Scenario A (`setup(10)` gives capacity 10) holds;
- a mark of at most 4 (`MaxLastIndex`), so capacity goes up to 8.

For `frame_safety`: one node type with one initial instance, two
attributes of one declared slot each (each may be a list), up to two
instances and list length two, one value, and a store mark of at most 6
(`MaxLastIndex`). That is eight possible keys, of which at most six are
live at once. With these, a list can be cleared while a
later-added key survives above the hole. The store then grows
twice, and `append_node` follows list growth. A second node type has its own
store and its own key prefix, so it only multiplies the states.

Every bug found needs two keys, one hole and one re-add, so these bounds are
enough. Four keys allow a hole below the mark, a trailing removal, and growth
twice (2, then 4, then 8). A second node type or attribute only renames key
components: the store treats all four components alike, apart from the loop
order, which two instances already exercise. `store_safety` explores 37,850
distinct states in a few seconds.

### Fairness

None. The store and the Frame are passive, single-threaded data structures (spec section 5). Nothing in
the code must eventually happen on its own, so all properties are safety
properties. Deadlock checking stays on: `reset` is always enabled.

## 4. Findings

See `findings` in `PROJECT.json`. In short:

1. **Stale map after compaction.** `arrange()` leaves moved keys mapped to
   vacated indices past the mark (line 49). Later adds alias them, and writes
   through one key corrupt another. The unit tests pass only because cells
   are not cleared.
2. **Mark never below 1.** The mark never drops below 1 (lines 21 and 55).
   An emptied store exports one cell too many.
3. **`setup` shrinks.** `setup()` can shrink capacity (line 36), against P6.
4. **Exported map never cleared** (spec gap). `copy_to` adds to the
   caller's map without erasing it (line 178). P5 holds only for an empty
   destination map, a precondition the spec does not state.
5. **Cells never cleared.** Re-added slots read old values, against the
   test's comment (line 257).

Also noticed, not checked as a separate run:

- The test file calls a 5-argument `add_nodes` and a pointer-taking
  `copy_to`, so it targets a different revision of the store.
- Its Scenario-D expectation (test line 232: the mark stays 20 after
  `remove_attr_slots(0, 2, 0, 8, 10)`) contradicts `update_last_index`,
  which trims it to 18. The spec's section 4.2 agrees with the code.

## 5. Not modelled, and why

- **Binary writer:** file and CSV I/O. It shares no state with the store.
- **Attribute type tags:** no property depends on the scalar kind, so a
  cell is a model value.
- **References held across calls** (hazard at line 82): whether a
  reference from `operator()` is still the key's cell after `add_nodes` or
  `arrange` is a caller contract (spec section 5). A history variable that
  invalidates it on exactly those steps only restates the contract, so no
  property is checked. The store-side effect of the stale mapping is
  `store_refinement`.
- **Two node types in `frame_safety`**: with one attribute each, TLC passed
  760,000 states after 10 minutes without finishing. Each node type has its
  own store and key prefix, so a second one adds no interaction.
- **Frame snapshot (copy constructor, `operator=`)**: a member-wise copy that
  leaves the source unchanged. The copy's independence holds by value in
  TLA+, so it would check nothing.
- **`get_value`'s type conversion, `is_const`, attribute names**: no
  property depends on them.
- **Node's error paths after a partial store change** (e.g. a list append
  whose write throws after `add_nodes`): the Node bodies are not under
  `src/`. Frame guards the instance index before the call.
- **Key components of 16 bits or more:** a documented precondition.
  KeyCodec checks only the in-range domain.

## 6. Plan

Done:

- Sitting 1: the inventory, KeyCodec, and AttributeStore with its abstract
  specification and refinement.
- Sitting 2:
  - the store's methods as functions (AttributeStoreOps);
  - Frame/Node composed over them, with FrameAbstract and its refinement;
  - two properties later replaced as too shallow.
- Sitting 3: a caller holding an `operator()` reference (later removed: it
  only restated the caller contract).
- Sitting 4: `StoreExport`, a caller reusing its `copy_to` map, and the
  `store_export_map` finding.
- Sitting 5: `CompactionKeepsCells` in place of the shallow properties;
  `store_fresh_slots` shown without `reset`; the Frame map marked
  `spec_modelled`.

Next, in order:

1. An abstract list-attribute spec: a sequence per (instance, list
   attribute), with Frame's list operations refined against it. Does
   `append_to_list` on one instance append to every instance, as the shared
   `slot_number` implies?
2. An export path: a snapshot frame whose stores are exported through
   `copy_to`, to check P5 against the keys Frame actually produces.
3. Two node types in `frame_safety`, if a faster encoding of the store
   record allows it (tried in sitting 3: too large as is).
